-------------------------- MODULE Ingestion_proofs --------------------------
(***************************************************************************)
(* Proofs about the two things the ingestion of documents is made of: how  *)
(* a text is cut (DocumentText), and the queues of jobs (IngestionQueue,   *)
(* RedisIngestionQueue).  Neither knows of the other.                      *)
(*                                                                         *)
(* For every document, chunk size and overlap, the chunks fit the size,    *)
(* cover the text in its order, and are where they say they are.  For      *)
(* every set of jobs and workers, every retry budget and every number of   *)
(* disruptions, the queue on RabbitMQ forgets no job and implements        *)
(* JobDelivery; on Redis only a push sent again makes a second copy of one. *)
(***************************************************************************)
EXTENDS DocumentText, IngestionQueue, SequenceTheorems, FiniteSetTheorems, WellFoundedInduction, TLAPS

(* From the text of a document to its chunks.  Each loop of the chunker is  *)
(* a function of the turns it has made: that there is one comes first, then *)
(* what is true of it is shown from one turn to the next.                   *)

LEMMA LeastNumber ==
  ASSUME NEW T, T \subseteq Nat, T # {}
  PROVE  \E m \in T : \A k \in T : m <= k
<1> DEFINE R == OpToRel(<, Nat)
<1>1. IsWellFoundedOn(R, Nat)
  BY NatLessThanWellFounded
<1>2. \A k, m \in Nat : k < m => <<k, m>> \in R
  BY DEF OpToRel
<1> HIDE DEF R
<1>3. PICK m \in T : \A k \in T : ~ (<<k, m>> \in R)
  BY <1>1, WFMin
<1>4. \A k \in T : ~ (k < m)
  BY <1>2, <1>3
<1> QED
  BY <1>4

(* What holds at the start of a loop and stays true from one turn to the    *)
(* next is true after each.                                                 *)
LEMMA LoopInduction ==
  ASSUME NEW n \in Nat, NEW G, 0 \in G,
         \A i \in 0 .. n : i # n /\ i \in G => i + 1 \in G
  PROVE  \A i \in 0 .. n : i \in G
<1> SUFFICES ASSUME NEW i \in 0 .. n, i \notin G PROVE FALSE
  OBVIOUS
<1> DEFINE T == {k \in 0 .. n : k \notin G}
<1>1. T \subseteq Nat /\ T # {}
  OBVIOUS
<1> HIDE DEF T
<1>2. PICK m \in T : \A k \in T : m <= k
  BY <1>1, LeastNumber
<1> USE DEF T
<1>3. m \in 0 .. n /\ m \notin G /\ m # 0
  BY <1>2
<1>4. m - 1 \in 0 .. n /\ m - 1 # n /\ m - 1 \notin T /\ (m - 1) + 1 = m
  BY <1>2, <1>3
<1> QED
  BY <1>3, <1>4

(* Every turn of a loop has its own step.                                   *)
Turns(f, n, start, step) == f[0] = start /\ \A i \in 1 .. n : f[i] = step[i][f[i - 1]]

(* A loop that turns n times on states in S, each turn with its own step.   *)
LEMMA LoopExists ==
  ASSUME NEW n \in Nat, NEW S, NEW start \in S, NEW step \in [1 .. n -> [S -> S]]
  PROVE  \E f \in [0 .. n -> S] : Turns(f, n, start, step)
<1> DEFINE Runs(f, m) == f[0] = start /\ \A i \in 1 .. m : f[i] = step[i][f[i - 1]]
           G == {m \in 0 .. n : \E f \in [0 .. m -> S] : Runs(f, m)}
<1>1. 0 \in G
  <2>1. [i \in 0 .. 0 |-> start] \in [0 .. 0 -> S] /\ Runs([i \in 0 .. 0 |-> start], 0)
    OBVIOUS
  <2> HIDE DEF Runs
  <2> QED
    BY <2>1
<1>2. ASSUME NEW m \in 0 .. n, m # n, m \in G
      PROVE  m + 1 \in G
  <2>1. PICK f \in [0 .. m -> S] : Runs(f, m)
    BY <1>2
  <2> DEFINE g == [i \in 0 .. m + 1 |-> IF i = m + 1 THEN step[m + 1][f[m]] ELSE f[i]]
  <2>2. m + 1 \in 1 .. n /\ step[m + 1][f[m]] \in S
    BY <1>2
  <2>3. g \in [0 .. m + 1 -> S]
    BY <2>2
  <2>4. Runs(g, m + 1)
    BY <2>1, <2>2
  <2> HIDE DEF g, Runs
  <2> QED
    BY <2>2, <2>3, <2>4
<1> HIDE DEF G
<1>3. \A i \in 0 .. n : i \in G
  BY <1>1, <1>2, LoopInduction
<1> USE DEF G
<1>4. PICK f \in [0 .. n -> S] : Runs(f, n)
  BY <1>3
<1> QED
  BY <1>4 DEF Turns

(* Where every turn stays in S, all states are in S.                        *)
LEMMA LoopTyped ==
  ASSUME NEW n \in Nat, NEW S, NEW A, A[0] \in S,
         \A i \in 1 .. n : A[i - 1] \in S => A[i] \in S
  PROVE  \A i \in 0 .. n : A[i] \in S
<1> DEFINE G == {i \in 0 .. n : A[i] \in S}
<1>1. 0 \in G
  OBVIOUS
<1>2. ASSUME NEW i \in 0 .. n, i # n, i \in G
      PROVE  i + 1 \in G
  <2>1. i + 1 \in 0 .. n /\ i + 1 \in 1 .. n /\ (i + 1) - 1 = i
    BY <1>2
  <2> QED
    BY <1>2, <2>1
<1> HIDE DEF G
<1>3. \A i \in 0 .. n : i \in G
  BY <1>1, <1>2, LoopInduction
<1> QED
  BY <1>3 DEF G

-----------------------------------------------------------------------------
(* Sequences of sequences.                                                  *)

(* A set of sequences that can be joined.                                   *)
Joins(Q) == <<>> \in Q /\ \A a, b \in Q : a \o b \in Q /\ <<>> \o a = a /\ a \o <<>> = a

(* The elements of a sequence, with what the provers need not look at left  *)
(* out.                                                                     *)
Elements(s, n, Q) == n \in Nat /\ Len(s) = n /\ (n = 0 => s = <<>>) /\ \A i \in 1 .. n : s[i] \in Q

Joined(h, s, n) == h[0] = <<>> /\ \A i \in 1 .. n : h[i] = h[i - 1] \o s[i]

(* FlattenSeq is what a loop over the sequences puts together.              *)
LEMMA FlattenIsLoop ==
  ASSUME NEW Q, Joins(Q), NEW n, NEW s, Elements(s, n, Q),
         NEW h \in [0 .. n -> Q], Joined(h, s, n)
  PROVE  FlattenSeq(s) = h[n]
<1> USE DEF Elements, Joined
<1>1. CASE n = 0
  BY <1>1 DEF FlattenSeq
<1>2. CASE n # 0
  <2> DEFINE IsFlat(f) == f = [i \in 1 .. n |-> IF i = 1 THEN s[i] ELSE f[i - 1] \o s[i]]
             k == [i \in 1 .. n |-> h[i]]
             f == CHOOSE g : IsFlat(g)
  <2>1. 1 \in 1 .. n /\ n \in 1 .. n /\ 1 - 1 = 0 /\ n \in 0 .. n
    BY <1>2
  <2>2. h[1] = s[1]
    <3>1. h[1] = h[1 - 1] \o s[1]
      BY <2>1
    <3>2. s[1] \in Q
      BY <2>1
    <3> QED
      BY <2>1, <3>1, <3>2 DEF Joins
  <2>3. IsFlat(k)
    <3>1. \A i \in 1 .. n : i # 1 => i - 1 \in 1 .. n
      OBVIOUS
    <3>2. \A i \in 1 .. n : k[i] = h[i]
      OBVIOUS
    <3> HIDE DEF k
    <3>3. \A i \in 1 .. n : h[i] = IF i = 1 THEN s[i] ELSE k[i - 1] \o s[i]
      BY <2>2, <3>1, <3>2
    <3> QED
      BY <3>3 DEF k
  <2> HIDE DEF k
  <2>4. IsFlat(f)
    <3> HIDE DEF IsFlat
    <3> QED
      BY <2>3
  <2>5. FlattenSeq(s) = f[n]
    BY <1>2 DEF FlattenSeq
  <2> HIDE DEF f
  <2>6. f = [i \in 1 .. n |-> IF i = 1 THEN s[i] ELSE f[i - 1] \o s[i]]
    BY <2>4
  <2> HIDE DEF IsFlat
  <2>7. \A i \in 1 .. n : f[i] = IF i = 1 THEN s[i] ELSE f[i - 1] \o s[i]
    BY <2>6
  <2> DEFINE G == {i \in 0 .. n : i # 0 => f[i] = h[i]}
  <2>8. 0 \in G
    OBVIOUS
  <2>9. ASSUME NEW i \in 0 .. n, i # n, i \in G
        PROVE  i + 1 \in G
    <3>1. i + 1 \in 1 .. n /\ (i + 1) - 1 = i /\ (i + 1 = 1 <=> i = 0) /\ i + 1 \in 0 .. n
      BY <2>9
    <3>2. f[i + 1] = IF i + 1 = 1 THEN s[i + 1] ELSE f[(i + 1) - 1] \o s[i + 1]
      BY <2>7, <3>1
    <3>3. h[i + 1] = h[(i + 1) - 1] \o s[i + 1]
      BY <3>1
    <3>4. i # 0 => f[i] = h[i]
      BY <2>9
    <3>5. f[i + 1] = h[i + 1]
      BY <2>2, <3>1, <3>2, <3>3, <3>4
    <3> QED
      BY <3>1, <3>5
  <2> HIDE DEF G
  <2>10. n \in G
    BY <2>1, <2>8, <2>9, LoopInduction
  <2> USE DEF G
  <2> QED
    BY <1>2, <2>5, <2>10
<1> QED
  BY <1>1, <1>2

LEMMA FlattenLoop ==
  ASSUME NEW Q, Joins(Q), NEW n, NEW s, Elements(s, n, Q)
  PROVE  \E h \in [0 .. n -> Q] : Joined(h, s, n) /\ FlattenSeq(s) = h[n]
<1>1. n \in Nat /\ (\A i \in 1 .. n : s[i] \in Q) /\ <<>> \in Q /\ \A a, b \in Q : a \o b \in Q
  BY DEF Elements, Joins
<1> DEFINE step == [i \in 1 .. n |-> [t \in Q |-> t \o s[i]]]
<1>2. step \in [1 .. n -> [Q -> Q]]
  BY <1>1
<1>3. \A i \in 1 .. n : \A t \in Q : step[i][t] = t \o s[i]
  OBVIOUS
<1> HIDE DEF step
<1>4. PICK start \in Q : start = <<>>
  BY <1>1
<1>5. PICK h \in [0 .. n -> Q] : Turns(h, n, start, step)
  BY <1>1, <1>2, LoopExists
<1>6. \A i \in 1 .. n : i - 1 \in 0 .. n
  BY <1>1
<1>7. \A i \in 1 .. n : h[i] = h[i - 1] \o s[i]
  BY <1>3, <1>5, <1>6 DEF Turns
<1>8. h[0] = <<>>
  BY <1>4, <1>5 DEF Turns
<1>9. Joined(h, s, n)
  BY <1>7, <1>8 DEF Joined
<1> QED
  BY <1>9, FlattenIsLoop

LEMMA FlattenOneMore ==
  ASSUME NEW Q, Joins(Q), NEW n, NEW s, Elements(s, n, Q), NEW t \in Q,
         NEW m, m = n + 1, NEW u, Elements(u, m, Q), u[m] = t, \A i \in 1 .. n : u[i] = s[i]
  PROVE  FlattenSeq(u) = FlattenSeq(s) \o t
<1>1. n \in Nat /\ m \in Nat /\ m = n + 1 /\ \A a, b \in Q : a \o b \in Q
  BY DEF Elements, Joins
<1>2. PICK h \in [0 .. n -> Q] : Joined(h, s, n) /\ FlattenSeq(s) = h[n]
  BY FlattenLoop
<1> DEFINE k == [i \in 0 .. m |-> IF i = m THEN h[n] \o t ELSE h[i]]
<1>3. k \in [0 .. m -> Q]
  BY <1>1
<1>4. k[m] = h[n] \o t /\ \A i \in 0 .. n : k[i] = h[i]
  BY <1>1
<1> HIDE DEF k
<1>5. \A i \in 1 .. m : k[i] = k[i - 1] \o u[i]
  <2> SUFFICES ASSUME NEW i \in 1 .. m PROVE k[i] = k[i - 1] \o u[i]
    OBVIOUS
  <2>1. i - 1 \in 0 .. n /\ k[i - 1] = h[i - 1] /\ (i = m \/ i \in 1 .. n)
    BY <1>1, <1>4
  <2>2. CASE i = m
    <3>1. i - 1 = n
      BY <1>1, <2>2
    <3> QED
      BY <1>4, <2>1, <2>2, <3>1
  <2>3. CASE i \in 1 .. n
    <3>1. i \in 0 .. n
      BY <1>1, <2>3
    <3> QED
      BY <1>2, <1>4, <2>1, <2>3, <3>1 DEF Joined
  <2> QED
    BY <2>1, <2>2, <2>3
<1>6. k[0] = <<>>
  BY <1>1, <1>2, <1>4 DEF Joined
<1>7. Joined(k, u, m)
  BY <1>5, <1>6 DEF Joined
<1>8. FlattenSeq(u) = k[m]
  BY <1>3, <1>7, FlattenIsLoop
<1> QED
  BY <1>2, <1>4, <1>8

LEMMA SequencesJoin ==
  ASSUME NEW S
  PROVE  Joins(Seq(S))
BY ConcatEmptySeq, ConcatProperties DEF Joins

LEMMA ElementsOfSeq ==
  ASSUME NEW S, NEW s \in Seq(S)
  PROVE  Elements(s, Len(s), S)
BY DEF Elements

LEMMA FlattenEmpty == FlattenSeq(<<>>) = <<>>
BY DEF FlattenSeq

LEMMA FlattenType ==
  ASSUME NEW S, NEW s \in Seq(Seq(S))
  PROVE  FlattenSeq(s) \in Seq(S)
<1>1. PICK Q, n : Q = Seq(S) /\ n = Len(s)
  OBVIOUS
<1>2. Joins(Q) /\ Elements(s, n, Q)
  BY <1>1, SequencesJoin, ElementsOfSeq
<1>3. PICK h \in [0 .. n -> Q] : Joined(h, s, n) /\ FlattenSeq(s) = h[n]
  BY <1>2, FlattenLoop
<1>4. n \in 0 .. n
  BY <1>2 DEF Elements
<1> QED
  BY <1>1, <1>3, <1>4

LEMMA FlattenAppend ==
  ASSUME NEW S, NEW s \in Seq(Seq(S)), NEW t \in Seq(S)
  PROVE  FlattenSeq(Append(s, t)) = FlattenSeq(s) \o t
<1>1. PICK Q, n, m, u : Q = Seq(S) /\ n = Len(s) /\ m = n + 1 /\ u = Append(s, t)
  OBVIOUS
<1>2. Joins(Q) /\ Elements(s, n, Q)
  BY <1>1, SequencesJoin, ElementsOfSeq
<1>3. /\ u \in Seq(Q) /\ Len(u) = m
      /\ \A i \in 1 .. n : u[i] = s[i]
      /\ u[m] = t
  BY <1>1, AppendProperties
<1>4. Elements(u, m, Q)
  BY <1>3, ElementsOfSeq
<1>5. t \in Q /\ m = n + 1
  BY <1>1
<1>6. \A i \in 1 .. n : u[i] = s[i]
  BY <1>3
<1>7. u[m] = t
  BY <1>3
<1>8. FlattenSeq(u) = FlattenSeq(s) \o t
  BY <1>2, <1>4, <1>5, <1>6, <1>7, FlattenOneMore
<1> QED
  BY <1>1, <1>8

(* A sequence but for its last element, for inductions.                     *)
LEMMA FrontAndLast ==
  ASSUME NEW S, NEW s \in Seq(S), NEW i \in 0 .. Len(s), i # Len(s)
  PROVE  /\ SubSeq(s, 1, i) \in Seq(S) /\ s[i + 1] \in S /\ i + 1 \in 1 .. Len(s)
         /\ SubSeq(s, 1, i + 1) = Append(SubSeq(s, 1, i), s[i + 1])
<1>1. i \in Nat /\ i + 1 \in 1 .. Len(s)
  OBVIOUS
<1> QED
  BY <1>1

LEMMA WholeSeq ==
  ASSUME NEW S, NEW s \in Seq(S)
  PROVE  /\ Len(s) \in Nat /\ DOMAIN s = 1 .. Len(s)
         /\ SubSeq(s, 1, 0) = <<>> /\ SubSeq(s, 1, Len(s)) = s
BY LenProperties, SubSeqEmpty, SubSeqFull

LEMMA FlattenConcat ==
  \A S : \A s, t \in Seq(Seq(S)) : FlattenSeq(s \o t) = FlattenSeq(s) \o FlattenSeq(t)
<1>1. SUFFICES ASSUME NEW S, NEW s, NEW t, s \in Seq(Seq(S)), t \in Seq(Seq(S))
               PROVE  FlattenSeq(s \o t) = FlattenSeq(s) \o FlattenSeq(t)
  OBVIOUS
<1>2. PICK n, a : n = Len(t) /\ a = FlattenSeq(s)
  OBVIOUS
<1>3. n \in Nat /\ SubSeq(t, 1, n) = t /\ SubSeq(t, 1, 0) = <<>>
  BY <1>1, <1>2, WholeSeq
<1>4. a \in Seq(S)
  BY <1>1, <1>2, FlattenType
<1> DEFINE G == {i \in 0 .. n : FlattenSeq(s \o SubSeq(t, 1, i)) = a \o FlattenSeq(SubSeq(t, 1, i))}
<1>5. 0 \in G
  <2>1. s \o <<>> = s
    BY <1>1, ConcatEmptySeq
  <2>2. a \o <<>> = a
    BY <1>4, ConcatEmptySeq
  <2>3. FlattenSeq(s \o SubSeq(t, 1, 0)) = a \o FlattenSeq(SubSeq(t, 1, 0))
    BY <1>2, <1>3, <2>1, <2>2, FlattenEmpty
  <2> QED
    BY <1>3, <2>3
<1>6. ASSUME NEW i \in 0 .. n, i # n, i \in G
      PROVE  i + 1 \in G
  <2>1. PICK p, q, e, f : /\ p = SubSeq(t, 1, i) /\ q = SubSeq(t, 1, i + 1) /\ e = t[i + 1]
                          /\ f = FlattenSeq(p)
    OBVIOUS
  <2>2. p \in Seq(Seq(S)) /\ e \in Seq(S) /\ q = Append(p, e)
    BY <1>1, <1>2, <1>6, <2>1, FrontAndLast
  <2>3. FlattenSeq(s \o p) = a \o f
    BY <1>6, <2>1
  <2>4. f \in Seq(S)
    BY <2>1, <2>2, FlattenType
  <2>5. FlattenSeq(q) = f \o e
    BY <2>1, <2>2, FlattenAppend
  <2>6. s \o q = Append(s \o p, e) /\ s \o p \in Seq(Seq(S))
    BY <1>1, <2>2
  <2>7. FlattenSeq(s \o q) = (a \o f) \o e
    BY <2>2, <2>3, <2>6, FlattenAppend
  <2>8. e \in Seq(S)
    BY <2>2
  <2>9. (a \o f) \o e = a \o (f \o e)
    BY <1>4, <2>4, <2>8, ConcatAssociative
  <2>10. FlattenSeq(s \o q) = a \o FlattenSeq(q)
    BY <2>5, <2>7, <2>9
  <2>11. i + 1 \in 0 .. n
    BY <1>3, <1>6
  <2> QED
    BY <2>1, <2>10, <2>11
<1> HIDE DEF G
<1>7. n \in G
  <2>1. n \in 0 .. n
    BY <1>3
  <2> QED
    BY <1>3, <1>5, <1>6, <2>1, LoopInduction
<1> USE DEF G
<1> QED
  BY <1>2, <1>3, <1>7

-----------------------------------------------------------------------------
(* The text of a sequence of lines, or of blocks.                           *)

TextOf(x) == FlattenSeq(Sentences(x))

LEMMA TextOfNothing == Sentences(<<>>) = <<>> /\ TextOf(<<>>) = <<>>
<1>1. [i \in DOMAIN <<>> |-> <<>>[i].sentences] = <<>>
  OBVIOUS
<1> QED
  BY <1>1, FlattenEmpty DEF Sentences, TextOf

LEMMA SentencesType ==
  ASSUME NEW S, NEW R, \A r \in R : r.sentences \in Seq(Seq(S)), NEW x \in Seq(R)
  PROVE  Sentences(x) \in Seq(Seq(S)) /\ TextOf(x) \in Seq(S)
<1>1. PICK q : q = [i \in DOMAIN x |-> x[i].sentences]
  OBVIOUS
<1>2. q \in Seq(Seq(Seq(S)))
  BY <1>1
<1>3. Sentences(x) = FlattenSeq(q)
  BY <1>1 DEF Sentences
<1> QED
  BY <1>2, <1>3, FlattenType DEF TextOf

LEMMA TextOfOneMore ==
  \A S, R : \A x \in Seq(R), r \in R :
    (\A e \in R : e.sentences \in Seq(Seq(S))) =>
      /\ Sentences(Append(x, r)) = Sentences(x) \o r.sentences
      /\ TextOf(Append(x, r)) = TextOf(x) \o FlattenSeq(r.sentences)
<1>1. SUFFICES ASSUME NEW S, NEW R, NEW x, NEW r, x \in Seq(R), r \in R,
                      \A e \in R : e.sentences \in Seq(Seq(S))
               PROVE  /\ Sentences(Append(x, r)) = Sentences(x) \o r.sentences
                      /\ TextOf(Append(x, r)) = TextOf(x) \o FlattenSeq(r.sentences)
  OBVIOUS
<1>2. PICK q, u, y, n : /\ q = [i \in DOMAIN x |-> x[i].sentences]
                        /\ y = Append(x, r)
                        /\ u = [i \in DOMAIN y |-> y[i].sentences]
                        /\ n = Len(x)
  OBVIOUS
<1>3. q \in Seq(Seq(Seq(S)))
  BY <1>1, <1>2
<1>4. r.sentences \in Seq(Seq(S))
  BY <1>1
<1>5. u = Append(q, r.sentences)
  <2>1. n \in Nat /\ DOMAIN x = 1 .. n
    BY <1>1, <1>2
  <2>2. DOMAIN y = 1 .. n + 1 /\ y[n + 1] = r /\ \A i \in 1 .. n : y[i] = x[i]
    BY <1>1, <1>2
  <2>3. q = [i \in 1 .. n |-> x[i].sentences] /\ u = [i \in 1 .. n + 1 |-> y[i].sentences]
    BY <1>2, <2>1, <2>2
  <2> QED
    BY <2>1, <2>2, <2>3
<1>6. Sentences(x) = FlattenSeq(q) /\ Sentences(y) = FlattenSeq(u)
  BY <1>2 DEF Sentences
<1>7. Sentences(y) = Sentences(x) \o r.sentences
  BY <1>3, <1>4, <1>5, <1>6, FlattenAppend
<1>8. Sentences(x) \in Seq(Seq(S))
  BY <1>3, <1>6, FlattenType
<1>9. FlattenSeq(Sentences(x) \o r.sentences) = FlattenSeq(Sentences(x)) \o FlattenSeq(r.sentences)
  BY <1>4, <1>8, FlattenConcat
<1> QED
  BY <1>2, <1>7, <1>9 DEF TextOf

(* No token occurs twice in two sequences that share none.                  *)
LEMMA ConcatInjective ==
  ASSUME NEW S, NEW s \in Seq(S), NEW t \in Seq(S), IsInjective(s), IsInjective(t),
         Range(s) \cap Range(t) = {}
  PROVE  IsInjective(s \o t)
<1>1. PICK u, n, m : u = s \o t /\ n = Len(s) /\ m = Len(t)
  OBVIOUS
<1>2. n \in Nat /\ m \in Nat /\ DOMAIN s = 1 .. n /\ DOMAIN t = 1 .. m /\ DOMAIN u = 1 .. n + m
  BY <1>1, ConcatProperties, LenProperties
<1>3. \A i \in 1 .. n + m : u[i] = IF i <= n THEN s[i] ELSE t[i - n]
  BY <1>1, ConcatProperties
<1>4. \A i \in 1 .. n : s[i] \in Range(s)
  BY <1>2 DEF Range
<1>5. \A i \in 1 .. m : t[i] \in Range(t)
  BY <1>2 DEF Range
<1>6. /\ \A i \in 1 .. n + m : i <= n => i \in 1 .. n
      /\ \A i \in 1 .. n + m : ~ (i <= n) => i - n \in 1 .. m
      /\ \A i, j \in 1 .. n + m : i - n = j - n => i = j
  BY <1>2
<1>7. \A i, j \in 1 .. n : s[i] = s[j] => i = j
  BY <1>2 DEF IsInjective
<1>8. \A i, j \in 1 .. m : t[i] = t[j] => i = j
  BY <1>2 DEF IsInjective
<1>9. \A i \in 1 .. n, j \in 1 .. m : s[i] # t[j]
  BY <1>4, <1>5
<1>10. \A i, j \in 1 .. n + m : u[i] = u[j] => i = j
  BY <1>3, <1>6, <1>7, <1>8, <1>9
<1> QED
  BY <1>1, <1>2, <1>10 DEF IsInjective

-----------------------------------------------------------------------------
(* From lines to blocks.                                                    *)

Sections  == Names \cup {NoSection}
BlockSet  == [section : Sections \cup {"Page"}, page : Nat, sentences : Seq(Seq(Tokens))]
Gathering == [blocks : Seq(BlockSet), section : Sections, buf : Seq(AnyLine)]

LEMMA LineShapes ==
  ASSUME NEW line \in AnyLine
  PROVE  /\ line.sentences \in Seq(Seq(Tokens))
         /\ line.kind \in {"blank", "text", "heading"}
         /\ line.kind = "heading" => line.name \in Names
         /\ line.kind = "blank" => line.sentences = <<>>
<1>1. line = BlankLine \/ line \in TextLines \/ line \in Headings
  BY DEF AnyLine
<1>2. CASE line = BlankLine
  <2>1. <<>> \in Seq(Seq(Tokens))
    OBVIOUS
  <2> QED
    BY <1>2, <2>1 DEF BlankLine
<1>3. CASE line \in TextLines
  BY <1>3 DEF TextLines
<1>4. CASE line \in Headings
  BY <1>4 DEF Headings
<1> QED
  BY <1>1, <1>2, <1>3, <1>4

LEMMA DocumentShapes ==
  ASSUME NEW doc \in Documents
  PROVE  /\ doc.type \in {"text", "markdown", "pdf"}
         /\ doc.lines \in Seq(AnyLine)
         /\ doc.type = "pdf" => doc.lines \in Seq(TextLines)
<1>1. TextLines \subseteq AnyLine
  BY DEF AnyLine
<1>2. Seq(TextLines) \subseteq Seq(AnyLine)
  BY <1>1, SeqMonotonic
<1>3. \/ doc \in [type : {"text", "markdown"}, lines : Seq(AnyLine)]
      \/ doc \in [type : {"pdf"}, lines : Seq(TextLines)]
  BY DocumentsAssumption
<1> QED
  BY <1>2, <1>3

LEMMA LinesAndBlocksHaveText ==
  /\ \A r \in AnyLine : r.sentences \in Seq(Seq(Tokens))
  /\ \A r \in BlockSet : r.sentences \in Seq(Seq(Tokens))
<1>1. \A r \in AnyLine : r.sentences \in Seq(Seq(Tokens))
  BY LineShapes
<1>2. \A r \in BlockSet : r.sentences \in Seq(Seq(Tokens))
  BY DEF BlockSet
<1> QED
  BY <1>1, <1>2

Block(st) == [section |-> st.section, page |-> 0, sentences |-> Sentences(st.buf)]

LEMMA CloseBlockFields ==
  ASSUME NEW st \in Gathering
  PROVE  /\ CloseBlock(st) \in Gathering
         /\ CloseBlock(st).section = st.section /\ CloseBlock(st).buf = <<>>
         /\ st.buf = <<>> => CloseBlock(st).blocks = st.blocks
         /\ st.buf # <<>> => CloseBlock(st).blocks = Append(st.blocks, Block(st))
         /\ Block(st) \in BlockSet
<1>1. /\ st = [blocks |-> st.blocks, section |-> st.section, buf |-> st.buf]
      /\ st.blocks \in Seq(BlockSet) /\ st.section \in Sections /\ st.buf \in Seq(AnyLine)
  BY DEF Gathering
<1>2. Sentences(st.buf) \in Seq(Seq(Tokens))
  BY <1>1, LinesAndBlocksHaveText, SentencesType
<1>3. Block(st) \in BlockSet
  BY <1>1, <1>2 DEF BlockSet, Block
<1>4. Append(st.blocks, Block(st)) \in Seq(BlockSet)
  BY <1>1, <1>3
<1>5. CASE st.buf = <<>>
  BY <1>1, <1>3, <1>5 DEF CloseBlock
<1>6. CASE st.buf # <<>>
  <2>1. CloseBlock(st) = [blocks |-> Append(st.blocks, Block(st)), section |-> st.section, buf |-> <<>>]
    BY <1>1, <1>6 DEF CloseBlock, Block
  <2> QED
    BY <1>1, <1>3, <1>4, <1>6, <2>1 DEF Gathering
<1> QED
  BY <1>5, <1>6

(* A line closes a section, closes a block, or is gathered.                 *)
LEMMA TakeLineCases ==
  ASSUME NEW st \in Gathering, NEW line \in AnyLine, NEW type \in {"text", "markdown"}
  PROVE  /\ TakeLine(type, st, line) \in Gathering
         /\ line.kind = "heading" =>
              /\ TakeLine(type, st, line).blocks = CloseBlock(st).blocks
              /\ TakeLine(type, st, line).section = line.name
              /\ TakeLine(type, st, line).buf = <<>>
         /\ line.kind = "blank" /\ type = "text" => TakeLine(type, st, line) = CloseBlock(st)
         /\ line.kind = "text" \/ (line.kind = "blank" /\ type = "markdown") =>
              /\ TakeLine(type, st, line).blocks = st.blocks
              /\ TakeLine(type, st, line).section = st.section
              /\ TakeLine(type, st, line).buf = Append(st.buf, line)
<1>1. /\ st = [blocks |-> st.blocks, section |-> st.section, buf |-> st.buf]
      /\ st.blocks \in Seq(BlockSet) /\ st.section \in Sections /\ st.buf \in Seq(AnyLine)
  BY DEF Gathering
<1>2. line.kind \in {"blank", "text", "heading"} /\ (line.kind = "heading" => line.name \in Names)
  BY LineShapes
<1>3. PICK c : c = CloseBlock(st)
  OBVIOUS
<1>4. c \in Gathering /\ c.buf = <<>>
  BY <1>3, CloseBlockFields
<1>5. CASE line.kind = "heading"
  <2>1. TakeLine(type, st, line) = [c EXCEPT !.section = line.name]
    BY <1>3, <1>5 DEF TakeLine, TextLine, MarkdownLine, Heading
  <2>2. TakeLine(type, st, line) = [blocks |-> c.blocks, section |-> line.name, buf |-> c.buf]
    BY <1>4, <2>1 DEF Gathering
  <2>3. c.blocks \in Seq(BlockSet) /\ c.buf \in Seq(AnyLine) /\ line.name \in Sections
    BY <1>2, <1>4, <1>5 DEF Gathering, Sections
  <2> QED
    BY <1>3, <1>4, <1>5, <2>2, <2>3 DEF Gathering
<1>6. CASE line.kind = "blank" /\ type = "text"
  <2>1. TakeLine(type, st, line) = c
    BY <1>3, <1>6 DEF TakeLine, TextLine
  <2> QED
    BY <1>3, <1>4, <1>6, <2>1
<1>7. CASE line.kind = "text" \/ (line.kind = "blank" /\ type = "markdown")
  <2>1. TakeLine(type, st, line) = [st EXCEPT !.buf = Append(@, line)]
    BY <1>7 DEF TakeLine, TextLine, MarkdownLine, Gather
  <2>2. TakeLine(type, st, line) = [blocks |-> st.blocks, section |-> st.section, buf |-> Append(st.buf, line)]
    BY <1>1, <2>1
  <2>3. Append(st.buf, line) \in Seq(AnyLine)
    BY <1>1
  <2> QED
    BY <1>1, <1>7, <2>2, <2>3 DEF Gathering
<1> QED
  BY <1>2, <1>5, <1>6, <1>7

Unread == [blocks |-> <<>>, section |-> NoSection, buf |-> <<>>]

LEMMA LinesLoop ==
  ASSUME NEW doc \in Documents, doc.type # "pdf"
  PROVE  /\ AfterLines(doc)[0] = Unread
         /\ \A i \in 0 .. Len(doc.lines) : AfterLines(doc)[i] \in Gathering
         /\ \A i \in 1 .. Len(doc.lines) :
              AfterLines(doc)[i] = TakeLine(doc.type, AfterLines(doc)[i - 1], doc.lines[i])
<1>1. PICK lines, type, n, S : /\ lines = doc.lines /\ type = doc.type /\ n = Len(doc.lines)
                               /\ S = Gathering
  OBVIOUS
<1>2. n \in Nat /\ type \in {"text", "markdown"} /\ \A i \in 1 .. n : lines[i] \in AnyLine
  BY <1>1, DocumentShapes, LenProperties
<1>3. Unread \in S
  BY <1>1 DEF Unread, Gathering, Sections
<1>4. \A i \in 1 .. n : \A st \in S : TakeLine(type, st, lines[i]) \in S
  BY <1>1, <1>2, TakeLineCases
<1> DEFINE step == [i \in 1 .. n |-> [st \in S |-> TakeLine(type, st, lines[i])]]
           Rec(f) == f = [i \in 0 .. n |-> IF i = 0 THEN Unread ELSE TakeLine(type, f[i - 1], lines[i])]
<1>5. step \in [1 .. n -> [S -> S]]
  BY <1>4
<1>6. \A i \in 1 .. n : \A st \in S : step[i][st] = TakeLine(type, st, lines[i])
  OBVIOUS
<1> HIDE DEF step
<1>7. PICK f \in [0 .. n -> S] : Turns(f, n, Unread, step)
  BY <1>2, <1>3, <1>5, LoopExists
<1>8. \A i \in 0 .. n : i # 0 => i \in 1 .. n /\ i - 1 \in 0 .. n
  BY <1>2
<1>9. \A i \in 0 .. n : f[i] = IF i = 0 THEN Unread ELSE TakeLine(type, f[i - 1], lines[i])
  BY <1>6, <1>7, <1>8 DEF Turns
<1>10. Rec(f)
  BY <1>9
<1> DEFINE A == CHOOSE g : Rec(g)
<1>11. AfterLines(doc) = A
  BY <1>1 DEF AfterLines, Unread
<1>12. Rec(A)
  <2> HIDE DEF Rec
  <2> QED
    BY <1>10
<1> HIDE DEF A
<1>13. \A i \in 0 .. n : A[i] = IF i = 0 THEN Unread ELSE TakeLine(type, A[i - 1], lines[i])
  BY <1>12
<1> HIDE DEF Rec
<1>14. A[0] = Unread
  BY <1>2, <1>13
<1>15. \A i \in 1 .. n : A[i] = TakeLine(type, A[i - 1], lines[i])
  <2>1. \A i \in 1 .. n : i \in 0 .. n /\ i # 0
    BY <1>2
  <2> QED
    BY <1>13, <2>1
<1>16. \A i \in 1 .. n : A[i - 1] \in S => A[i] \in S
  BY <1>4, <1>15
<1>17. \A i \in 0 .. n : A[i] \in S
  BY <1>2, <1>3, <1>14, <1>16, LoopTyped
<1> QED
  BY <1>1, <1>11, <1>14, <1>15, <1>17

(* The lines with the sentences that go to the blocks; the heading a line   *)
(* stands under.                                                            *)
BodyLines(doc) ==
  [k \in DOMAIN doc.lines |->
     [sentences |-> IF doc.lines[k].kind = "heading" THEN <<>> ELSE doc.lines[k].sentences]]

Body(doc, i) == TextOf(SubSeq(BodyLines(doc), 1, i))

NameAt(doc, i) ==
  LET above == {h \in 1 .. i : doc.lines[h].kind = "heading"}
  IN IF above = {} THEN NoSection
     ELSE doc.lines[CHOOSE h \in above : \A k \in above : k <= h].name

StandsIn(doc, i, token, section) ==
  \E k \in 1 .. i : /\ doc.lines[k].kind # "heading"
                    /\ token \in Range(LineText(doc.lines[k]))
                    /\ NameAt(doc, k) = section

Counts(doc, k) ==
  IF doc.type = "markdown" THEN doc.lines[k].kind # "heading" ELSE doc.lines[k].kind = "text"

LEMMA BodyShape ==
  ASSUME NEW doc \in Documents
  PROVE  /\ BodyLines(doc) \in Seq([sentences : Seq(Seq(Tokens))])
         /\ Len(BodyLines(doc)) = Len(doc.lines) /\ Len(doc.lines) \in Nat
         /\ DOMAIN BodyLines(doc) = 1 .. Len(doc.lines)
         /\ DOMAIN doc.lines = 1 .. Len(doc.lines)
         /\ \A k \in 1 .. Len(doc.lines) : doc.lines[k] \in AnyLine
<1>1. PICK lines, n : lines = doc.lines /\ n = Len(doc.lines)
  OBVIOUS
<1>2. lines \in Seq(AnyLine)
  BY <1>1, DocumentShapes
<1>3. n \in Nat /\ DOMAIN lines = 1 .. n /\ \A k \in 1 .. n : lines[k] \in AnyLine
  BY <1>1, <1>2, LenProperties
<1>4. \A k \in 1 .. n : (IF lines[k].kind = "heading" THEN <<>> ELSE lines[k].sentences) \in Seq(Seq(Tokens))
  <2>1. <<>> \in Seq(Seq(Tokens))
    OBVIOUS
  <2> QED
    BY <1>3, <2>1, LineShapes
<1>5. PICK S : S = Seq(Seq(Tokens))
  OBVIOUS
<1>6. BodyLines(doc) = [k \in 1 .. n |-> [sentences |-> IF lines[k].kind = "heading" THEN <<>> ELSE lines[k].sentences]]
  BY <1>1, <1>3 DEF BodyLines
<1>7. PICK x : x = BodyLines(doc)
  OBVIOUS
<1>8. PICK T : T = [sentences : S]
  OBVIOUS
<1>9. x \in [1 .. n -> T]
  BY <1>4, <1>5, <1>6, <1>7, <1>8
<1>10. x \in Seq(T) /\ Len(x) = n /\ DOMAIN x = 1 .. n
  BY <1>3, <1>9
<1> QED
  BY <1>1, <1>3, <1>5, <1>7, <1>8, <1>10

LEMMA BodyGrows ==
  ASSUME NEW doc \in Documents, NEW i \in 0 .. Len(doc.lines), i # Len(doc.lines)
  PROVE  Body(doc, i + 1) =
           Body(doc, i) \o (IF doc.lines[i + 1].kind = "heading" THEN <<>> ELSE LineText(doc.lines[i + 1]))
<1>1. PICK x, R, p, e : /\ x = BodyLines(doc) /\ R = [sentences : Seq(Seq(Tokens))]
                        /\ p = SubSeq(x, 1, i) /\ e = x[i + 1]
  OBVIOUS
<1>2. x \in Seq(R) /\ i \in 0 .. Len(x) /\ i # Len(x)
  BY <1>1, BodyShape
<1>3. p \in Seq(R) /\ e \in R /\ SubSeq(x, 1, i + 1) = Append(p, e)
  BY <1>1, <1>2, FrontAndLast
<1>4. \A r \in R : r.sentences \in Seq(Seq(Tokens))
  BY <1>1
<1>5. TextOf(Append(p, e)) = TextOf(p) \o FlattenSeq(e.sentences)
  BY <1>3, <1>4, TextOfOneMore
<1>6. i + 1 \in 1 .. Len(doc.lines)
  BY BodyShape
<1>7. e.sentences = IF doc.lines[i + 1].kind = "heading" THEN <<>> ELSE doc.lines[i + 1].sentences
  BY <1>1, <1>6, BodyShape DEF BodyLines
<1> QED
  BY <1>1, <1>3, <1>5, <1>7, FlattenEmpty DEF Body, LineText

LEMMA BodyType ==
  ASSUME NEW doc \in Documents, NEW i \in 0 .. Len(doc.lines)
  PROVE  Body(doc, i) \in Seq(Tokens) /\ Body(doc, 0) = <<>>
<1>1. PICK x, R, p : /\ x = BodyLines(doc) /\ R = [sentences : Seq(Seq(Tokens))]
                     /\ p = SubSeq(x, 1, i)
  OBVIOUS
<1>2. x \in Seq(R) /\ i \in 0 .. Len(x)
  BY <1>1, BodyShape
<1>3. p \in Seq(R) /\ SubSeq(x, 1, 0) = <<>>
  <2>1. i \in Int /\ \A k \in 1 .. i : x[k] \in R
    BY <1>2
  <2>2. SubSeq(x, 1, i) \in Seq(R)
    BY <2>1, SubSeqProperties
  <2> QED
    BY <1>1, <1>2, <2>2, SubSeqEmpty
<1>4. \A r \in R : r.sentences \in Seq(Seq(Tokens))
  BY <1>1
<1>5. TextOf(p) \in Seq(Tokens)
  BY <1>3, <1>4, SentencesType
<1> QED
  BY <1>1, <1>3, <1>5, TextOfNothing DEF Body

(* A heading names what follows, and nothing else does.                     *)
LEMMA NameChanges ==
  ASSUME NEW doc, NEW i \in Nat
  PROVE  /\ NameAt(doc, 0) = NoSection
         /\ NameAt(doc, i + 1) = IF doc.lines[i + 1].kind = "heading" THEN doc.lines[i + 1].name
                                                                      ELSE NameAt(doc, i)
<1> DEFINE above(k) == {h \in 1 .. k : doc.lines[h].kind = "heading"}
           Named(a) == IF a = {} THEN NoSection
                       ELSE doc.lines[CHOOSE h \in a : \A k \in a : k <= h].name
<1>0. NameAt(doc, i) = Named(above(i)) /\ NameAt(doc, i + 1) = Named(above(i + 1))
  BY DEF NameAt
<1>1. above(0) = {}
  OBVIOUS
<1>2. CASE doc.lines[i + 1].kind = "heading"
  <2>1. i + 1 \in above(i + 1) /\ \A k \in above(i + 1) : k <= i + 1
    BY <1>2
  <2>2. \A h \in above(i + 1) : (\A k \in above(i + 1) : k <= h) => h = i + 1
    <3>1. \A h \in above(i + 1) : h \in Nat /\ h <= i + 1
      OBVIOUS
    <3> HIDE DEF above
    <3> QED
      BY <2>1, <3>1
  <2> HIDE DEF above
  <2>3. (CHOOSE h \in above(i + 1) : \A k \in above(i + 1) : k <= h) = i + 1
    BY <2>1, <2>2
  <2> USE DEF above
  <2> QED
    BY <1>1, <1>2, <2>1, <2>3 DEF NameAt
<1>3. CASE doc.lines[i + 1].kind # "heading"
  <2>1. above(i + 1) = above(i)
    BY <1>3
  <2>2. NameAt(doc, 0) = NoSection
    BY <1>1 DEF NameAt
  <2> HIDE DEF above, Named
  <2> QED
    BY <1>0, <1>3, <2>1, <2>2
<1> QED
  BY <1>2, <1>3

(* After i lines: blocks and what is gathered are the text of these lines,  *)
(* each token in the section it stands in; a block with a section is not    *)
(* followed by one without; and a line that counts has left something.      *)
InPlace(doc, i, block) ==
  /\ block.page = 0
  /\ \A token \in Range(FlattenSeq(block.sentences)) : StandsIn(doc, i, token, block.section)

OnceNamed(blocks) ==
  \A b, c \in DOMAIN blocks :
    b < c /\ blocks[b].section # NoSection => blocks[c].section # NoSection

Gathered(doc, i, st) ==
  /\ TextOf(st.blocks) \o TextOf(st.buf) = Body(doc, i)
  /\ st.section = NameAt(doc, i)
  /\ \A token \in Range(TextOf(st.buf)) : StandsIn(doc, i, token, st.section)
  /\ \A b \in DOMAIN st.blocks :
       /\ InPlace(doc, i, st.blocks[b])
       /\ st.blocks[b].section # NoSection => st.section # NoSection
  /\ OnceNamed(st.blocks)
  /\ (st.blocks = <<>> /\ st.buf = <<>>) <=> \A k \in 1 .. i : ~ Counts(doc, k)

LEMMA AppendElements ==
  ASSUME NEW S, NEW s \in Seq(S), NEW e \in S
  PROVE  /\ DOMAIN Append(s, e) = 1 .. Len(s) + 1 /\ DOMAIN s = 1 .. Len(s) /\ Len(s) \in Nat
         /\ Append(s, e)[Len(s) + 1] = e /\ \A i \in 1 .. Len(s) : Append(s, e)[i] = s[i]
         /\ Append(s, e) # <<>>
BY AppendProperties, LenProperties

LEMMA CloseKeepsGathered ==
  ASSUME NEW doc, NEW i, NEW st \in Gathering, Gathered(doc, i, st)
  PROVE  Gathered(doc, i, CloseBlock(st))
<1>1. PICK c, new, n, blocks : /\ c = CloseBlock(st) /\ new = Block(st) /\ blocks = st.blocks
                               /\ n = Len(blocks)
  OBVIOUS
<1>2. /\ c.section = st.section /\ c.buf = <<>>
      /\ st.buf = <<>> => c.blocks = blocks
      /\ st.buf # <<>> => c.blocks = Append(blocks, new)
      /\ new \in BlockSet /\ blocks \in Seq(BlockSet) /\ st.buf \in Seq(AnyLine)
  BY <1>1, CloseBlockFields DEF Gathering
<1>3. CASE st.buf = <<>>
  <2>1. c.buf = st.buf /\ c.blocks = st.blocks /\ c.section = st.section
    BY <1>1, <1>2, <1>3
  <2>2. Gathered(doc, i, c)
    BY <2>1 DEF Gathered
  <2> QED
    BY <1>1, <2>2
<1>4. CASE st.buf # <<>>
  <2>1. c.blocks = Append(blocks, new)
    BY <1>2, <1>4
  <2>2. new.sentences = Sentences(st.buf) /\ new.section = st.section /\ new.page = 0
    BY <1>1 DEF Block
  <2>3. TextOf(blocks) \in Seq(Tokens) /\ TextOf(st.buf) \in Seq(Tokens)
    BY <1>2, LinesAndBlocksHaveText, SentencesType
  <2>4. TextOf(c.blocks) \o TextOf(c.buf) = Body(doc, i)
    <3>1. TextOf(Append(blocks, new)) = TextOf(blocks) \o FlattenSeq(new.sentences)
      BY <1>2, LinesAndBlocksHaveText, TextOfOneMore
    <3>2. FlattenSeq(new.sentences) = TextOf(st.buf)
      BY <2>2 DEF TextOf
    <3>3. TextOf(blocks) \o TextOf(st.buf) \in Seq(Tokens)
      BY <2>3, ConcatProperties
    <3>4. (TextOf(blocks) \o TextOf(st.buf)) \o <<>> = TextOf(blocks) \o TextOf(st.buf)
      BY <3>3, ConcatEmptySeq
    <3>5. TextOf(blocks) \o TextOf(st.buf) = Body(doc, i)
      BY <1>1 DEF Gathered
    <3>6. TextOf(c.buf) = <<>>
      BY <1>2, TextOfNothing
    <3> QED
      BY <2>1, <3>1, <3>2, <3>4, <3>5, <3>6
  <2>5. \A token \in Range(TextOf(c.buf)) : StandsIn(doc, i, token, c.section)
    <3>1. Range(<<>>) = {}
      BY DEF Range
    <3> QED
      BY <1>2, <3>1, TextOfNothing
  <2>6. InPlace(doc, i, new)
    BY <2>2 DEF InPlace, Gathered, TextOf
  <2>7. /\ n \in Nat /\ DOMAIN blocks = 1 .. n /\ DOMAIN c.blocks = 1 .. n + 1
        /\ c.blocks[n + 1] = new /\ \A b \in 1 .. n : c.blocks[b] = blocks[b]
        /\ c.blocks # <<>>
    BY <1>1, <1>2, <2>1, AppendElements
  <2>8. \A b \in 1 .. n : InPlace(doc, i, blocks[b]) /\ (blocks[b].section # NoSection => st.section # NoSection)
    BY <1>1, <2>7 DEF Gathered
  <2>9. \A b \in 1 .. n + 1 : b \in 1 .. n \/ b = n + 1
    BY <2>7
  <2>10. \A b \in DOMAIN c.blocks :
           InPlace(doc, i, c.blocks[b]) /\ (c.blocks[b].section # NoSection => c.section # NoSection)
    BY <1>2, <2>2, <2>6, <2>7, <2>8, <2>9
  <2>11. OnceNamed(c.blocks)
    <3>1. \A b, d \in 1 .. n : b < d /\ blocks[b].section # NoSection => blocks[d].section # NoSection
      <4>1. OnceNamed(blocks)
        BY <1>1 DEF Gathered
      <4> QED
        BY <2>7, <4>1 DEF OnceNamed
    <3>2. \A b, d \in 1 .. n + 1 : b < d => b \in 1 .. n
      BY <2>7
    <3>3. SUFFICES ASSUME NEW b \in 1 .. n + 1, NEW d \in 1 .. n + 1, b < d, c.blocks[b].section # NoSection
                   PROVE  c.blocks[d].section # NoSection
      BY <2>7 DEF OnceNamed
    <3>4. b \in 1 .. n /\ c.blocks[b] = blocks[b]
      BY <2>7, <3>2, <3>3
    <3>5. CASE d = n + 1
      BY <2>2, <2>7, <2>8, <3>3, <3>4, <3>5
    <3>6. CASE d \in 1 .. n
      BY <2>7, <3>1, <3>3, <3>4, <3>6
    <3> QED
      BY <2>9, <3>5, <3>6
  <2>12. (c.blocks = <<>> /\ c.buf = <<>>) <=> \A k \in 1 .. i : ~ Counts(doc, k)
    BY <1>4, <2>7 DEF Gathered
  <2>13. c.section = NameAt(doc, i)
    BY <1>2 DEF Gathered
  <2>14. Gathered(doc, i, c)
    BY <2>4, <2>5, <2>10, <2>11, <2>12, <2>13 DEF Gathered
  <2> QED
    BY <1>1, <2>14
<1> QED
  BY <1>3, <1>4

LEMMA StandsInStays ==
  ASSUME NEW doc, NEW i \in Nat
  PROVE  /\ \A token, section : StandsIn(doc, i, token, section) => StandsIn(doc, i + 1, token, section)
         /\ \A block : InPlace(doc, i, block) => InPlace(doc, i + 1, block)
<1>1. 1 .. i \subseteq 1 .. i + 1
  OBVIOUS
<1>2. \A token, section : StandsIn(doc, i, token, section) => StandsIn(doc, i + 1, token, section)
  BY <1>1 DEF StandsIn
<1> QED
  BY <1>2 DEF InPlace

LEMMA TokensAssociate == \A a, b, c \in Seq(Tokens) : (a \o b) \o c = a \o (b \o c)
BY ConcatAssociative

(* Reading a line: one lemma for each thing that may come of it.            *)
LEMMA HeadingKeepsGathered ==
  ASSUME NEW doc \in Documents, NEW i \in 0 .. Len(doc.lines), i # Len(doc.lines), doc.type # "pdf",
         doc.lines[i + 1].kind = "heading",
         NEW st \in Gathering, Gathered(doc, i, st)
  PROVE  Gathered(doc, i + 1, TakeLine(doc.type, st, doc.lines[i + 1]))
<1>1. PICK line, c, t : line = doc.lines[i + 1] /\ c = CloseBlock(st) /\ t = TakeLine(doc.type, st, line)
  OBVIOUS
<1>2. /\ i \in Nat /\ i + 1 \in 1 .. Len(doc.lines) /\ line \in AnyLine /\ line.kind = "heading"
      /\ doc.type \in {"text", "markdown"}
  BY <1>1, BodyShape, DocumentShapes
<1>3. t.blocks = c.blocks /\ t.section = line.name /\ t.buf = <<>> /\ c.buf = <<>>
  BY <1>1, <1>2, TakeLineCases, CloseBlockFields
<1>4. Gathered(doc, i, c)
  BY <1>1, CloseKeepsGathered
<1>5. line.name # NoSection
  BY <1>2, LineShapes, DocumentsAssumption
<1>6. Body(doc, i + 1) = Body(doc, i)
  <2>1. Body(doc, i) \in Seq(Tokens)
    BY BodyType
  <2> QED
    BY <1>1, <1>2, <2>1, BodyGrows, ConcatEmptySeq
<1>7. TextOf(t.blocks) \o TextOf(t.buf) = Body(doc, i + 1)
  BY <1>3, <1>4, <1>6 DEF Gathered
<1>8. t.section = NameAt(doc, i + 1)
  BY <1>1, <1>2, <1>3, NameChanges
<1>9. \A token \in Range(TextOf(t.buf)) : StandsIn(doc, i + 1, token, t.section)
  <2>1. Range(<<>>) = {}
    BY DEF Range
  <2> QED
    BY <1>3, <2>1, TextOfNothing
<1>10. \A b \in DOMAIN t.blocks :
         InPlace(doc, i + 1, t.blocks[b]) /\ (t.blocks[b].section # NoSection => t.section # NoSection)
  BY <1>2, <1>3, <1>4, <1>5, StandsInStays DEF Gathered
<1>11. OnceNamed(t.blocks)
  BY <1>3, <1>4 DEF Gathered
<1>12. (t.blocks = <<>> /\ t.buf = <<>>) <=> \A k \in 1 .. i + 1 : ~ Counts(doc, k)
  <2>1. \A k \in 1 .. i + 1 : k \in 1 .. i \/ k = i + 1
    BY <1>2
  <2>2. ~ Counts(doc, i + 1) /\ 1 .. i \subseteq 1 .. i + 1
    BY <1>1, <1>2 DEF Counts
  <2>3. (c.blocks = <<>> /\ c.buf = <<>>) <=> \A k \in 1 .. i : ~ Counts(doc, k)
    BY <1>4 DEF Gathered
  <2> QED
    BY <1>3, <2>1, <2>2, <2>3
<1>13. Gathered(doc, i + 1, t)
  BY <1>7, <1>8, <1>9, <1>10, <1>11, <1>12 DEF Gathered
<1> QED
  BY <1>1, <1>13

LEMMA BlankKeepsGathered ==
  ASSUME NEW doc \in Documents, NEW i \in 0 .. Len(doc.lines), i # Len(doc.lines), doc.type = "text",
         doc.lines[i + 1].kind = "blank",
         NEW st \in Gathering, Gathered(doc, i, st)
  PROVE  Gathered(doc, i + 1, TakeLine(doc.type, st, doc.lines[i + 1]))
<1>1. PICK line, t : line = doc.lines[i + 1] /\ t = TakeLine(doc.type, st, line)
  OBVIOUS
<1>2. i \in Nat /\ i + 1 \in 1 .. Len(doc.lines) /\ line \in AnyLine /\ line.kind = "blank"
  BY <1>1, BodyShape, DocumentShapes
<1>3. t = CloseBlock(st)
  BY <1>1, <1>2, TakeLineCases
<1>4. Gathered(doc, i, t)
  BY <1>3, CloseKeepsGathered
<1>5. Body(doc, i + 1) = Body(doc, i)
  <2>1. Body(doc, i) \in Seq(Tokens)
    BY BodyType
  <2>2. LineText(line) = <<>>
    BY <1>2, LineShapes, FlattenEmpty DEF LineText
  <2> QED
    BY <1>1, <1>2, <2>1, <2>2, BodyGrows, ConcatEmptySeq
<1>6. NameAt(doc, i + 1) = NameAt(doc, i)
  BY <1>1, <1>2, NameChanges
<1>7. \A k \in 1 .. i + 1 : k \in 1 .. i \/ k = i + 1
  BY <1>2
<1>8. ~ Counts(doc, i + 1) /\ 1 .. i \subseteq 1 .. i + 1
  BY <1>1, <1>2 DEF Counts
<1>9. (\A k \in 1 .. i : ~ Counts(doc, k)) <=> (\A k \in 1 .. i + 1 : ~ Counts(doc, k))
  BY <1>7, <1>8
<1>10. \A token \in Range(TextOf(t.buf)) : StandsIn(doc, i + 1, token, t.section)
  BY <1>2, <1>4, StandsInStays DEF Gathered
<1>11. \A b \in DOMAIN t.blocks :
         InPlace(doc, i + 1, t.blocks[b]) /\ (t.blocks[b].section # NoSection => t.section # NoSection)
  BY <1>2, <1>4, StandsInStays DEF Gathered
<1>12. Gathered(doc, i + 1, t)
  BY <1>4, <1>5, <1>6, <1>9, <1>10, <1>11 DEF Gathered
<1> QED
  BY <1>1, <1>12

LEMMA GatherKeepsGathered ==
  ASSUME NEW doc \in Documents, NEW i \in 0 .. Len(doc.lines), i # Len(doc.lines), doc.type # "pdf",
         \/ doc.lines[i + 1].kind = "text"
         \/ doc.lines[i + 1].kind = "blank" /\ doc.type = "markdown",
         NEW st \in Gathering, Gathered(doc, i, st)
  PROVE  Gathered(doc, i + 1, TakeLine(doc.type, st, doc.lines[i + 1]))
<1>1. PICK line, t, buf, text : /\ line = doc.lines[i + 1] /\ t = TakeLine(doc.type, st, line)
                                /\ buf = st.buf /\ text = LineText(line)
  OBVIOUS
<1>2. /\ i \in Nat /\ i + 1 \in 1 .. Len(doc.lines) /\ line \in AnyLine
      /\ line.kind = "text" \/ (line.kind = "blank" /\ doc.type = "markdown")
      /\ doc.type \in {"text", "markdown"}
  BY <1>1, BodyShape, DocumentShapes
<1>3. t.blocks = st.blocks /\ t.section = st.section /\ t.buf = Append(buf, line)
  BY <1>1, <1>2, TakeLineCases
<1>4. buf \in Seq(AnyLine) /\ st.blocks \in Seq(BlockSet)
  BY <1>1 DEF Gathering
<1>5. /\ TextOf(st.blocks) \in Seq(Tokens) /\ TextOf(buf) \in Seq(Tokens)
      /\ text \in Seq(Tokens)
  <2>1. TextOf(st.blocks) \in Seq(Tokens) /\ TextOf(buf) \in Seq(Tokens)
    BY <1>4, LinesAndBlocksHaveText, SentencesType
  <2>2. text \in Seq(Tokens)
    BY <1>1, <1>2, LineShapes, FlattenType DEF LineText
  <2> QED
    BY <2>1, <2>2
<1>6. TextOf(t.buf) = TextOf(buf) \o text
  <2>1. TextOf(Append(buf, line)) = TextOf(buf) \o FlattenSeq(line.sentences)
    <3>1. line \in AnyLine /\ buf \in Seq(AnyLine) /\ \A r \in AnyLine : r.sentences \in Seq(Seq(Tokens))
      BY <1>2, <1>4, LinesAndBlocksHaveText
    <3> QED
      BY <3>1, TextOfOneMore
  <2> QED
    BY <1>1, <1>3, <2>1 DEF LineText
<1>7. TextOf(t.blocks) \o TextOf(t.buf) = Body(doc, i + 1)
  <2>1. Body(doc, i + 1) = Body(doc, i) \o text
    <3>1. line.kind # "heading"
      BY <1>2
    <3> QED
      BY <1>1, <3>1, BodyGrows
  <2>2. Body(doc, i) = TextOf(st.blocks) \o TextOf(buf)
    BY <1>1 DEF Gathered
  <2>3. (TextOf(st.blocks) \o TextOf(buf)) \o text = TextOf(st.blocks) \o (TextOf(buf) \o text)
    BY <1>5, TokensAssociate
  <2> QED
    BY <1>3, <1>6, <2>1, <2>2, <2>3
<1>8. NameAt(doc, i + 1) = NameAt(doc, i)
  BY <1>1, <1>2, NameChanges
<1>9. t.section = NameAt(doc, i + 1)
  BY <1>3, <1>8 DEF Gathered
<1>10. \A token \in Range(TextOf(t.buf)) : StandsIn(doc, i + 1, token, t.section)
  <2>1. Range(TextOf(t.buf)) = Range(TextOf(buf)) \cup Range(text)
    BY <1>5, <1>6, RangeConcatenation
  <2>2. \A token \in Range(TextOf(buf)) : StandsIn(doc, i + 1, token, t.section)
    BY <1>1, <1>2, <1>3, StandsInStays DEF Gathered
  <2>3. \A token \in Range(text) : StandsIn(doc, i + 1, token, t.section)
    <3>1. i + 1 \in 1 .. i + 1 /\ line.kind # "heading"
      BY <1>2
    <3> QED
      BY <1>1, <1>9, <3>1 DEF StandsIn
  <2> QED
    BY <2>1, <2>2, <2>3
<1>11. \A b \in DOMAIN t.blocks :
         InPlace(doc, i + 1, t.blocks[b]) /\ (t.blocks[b].section # NoSection => t.section # NoSection)
  BY <1>2, <1>3, StandsInStays DEF Gathered
<1>12. OnceNamed(t.blocks)
  BY <1>3 DEF Gathered
<1>13. (t.blocks = <<>> /\ t.buf = <<>>) <=> \A k \in 1 .. i + 1 : ~ Counts(doc, k)
  <2>1. Counts(doc, i + 1) /\ i + 1 \in 1 .. i + 1
    BY <1>1, <1>2 DEF Counts
  <2>2. t.buf # <<>>
    BY <1>2, <1>3, <1>4, AppendElements
  <2> QED
    BY <2>1, <2>2
<1>14. Gathered(doc, i + 1, t)
  BY <1>7, <1>9, <1>10, <1>11, <1>12, <1>13 DEF Gathered
<1> QED
  BY <1>1, <1>14

LEMMA LinesAreGathered ==
  ASSUME NEW doc \in Documents, doc.type # "pdf"
  PROVE  \A i \in 0 .. Len(doc.lines) :
           AfterLines(doc)[i] \in Gathering /\ Gathered(doc, i, AfterLines(doc)[i])
<1>1. PICK A, n : A = AfterLines(doc) /\ n = Len(doc.lines)
  OBVIOUS
<1>2. /\ n \in Nat /\ A[0] = Unread /\ \A i \in 0 .. n : A[i] \in Gathering
      /\ \A i \in 1 .. n : A[i] = TakeLine(doc.type, A[i - 1], doc.lines[i])
  BY <1>1, BodyShape, LinesLoop
<1> DEFINE G == {i \in 0 .. n : Gathered(doc, i, A[i])}
<1>3. 0 \in G
  <2>1. Body(doc, 0) = <<>> /\ NameAt(doc, 0) = NoSection
    <3>1. 0 \in 0 .. Len(doc.lines) /\ 0 \in Nat
      BY <1>1, <1>2
    <3> QED
      BY <3>1, BodyType, NameChanges
  <2>2. Range(<<>>) = {} /\ <<>> \o <<>> = <<>> /\ DOMAIN <<>> = {} /\ 1 .. 0 = {}
    BY DEF Range
  <2>3. Gathered(doc, 0, Unread)
    BY <2>1, <2>2, TextOfNothing DEF Gathered, Unread, OnceNamed
  <2> QED
    BY <1>2, <2>3
<1>4. ASSUME NEW i \in 0 .. n, i # n, i \in G
      PROVE  i + 1 \in G
  <2>1. i + 1 \in 0 .. n /\ i + 1 \in 1 .. n /\ (i + 1) - 1 = i /\ i \in 0 .. Len(doc.lines) /\ i # Len(doc.lines)
    BY <1>1, <1>2, <1>4
  <2>2. A[i + 1] = TakeLine(doc.type, A[i], doc.lines[i + 1]) /\ A[i] \in Gathering /\ Gathered(doc, i, A[i])
    BY <1>2, <1>4, <2>1
  <2>3. doc.lines[i + 1].kind \in {"blank", "text", "heading"} /\ doc.type \in {"text", "markdown"}
    BY <1>1, <2>1, BodyShape, LineShapes, DocumentShapes
  <2>4. CASE doc.lines[i + 1].kind = "heading"
    BY <2>1, <2>2, <2>4, HeadingKeepsGathered
  <2>5. CASE doc.lines[i + 1].kind = "blank" /\ doc.type = "text"
    BY <2>1, <2>2, <2>5, BlankKeepsGathered
  <2>6. CASE \/ doc.lines[i + 1].kind = "text"
             \/ doc.lines[i + 1].kind = "blank" /\ doc.type = "markdown"
    BY <2>1, <2>2, <2>6, GatherKeepsGathered
  <2> QED
    BY <2>3, <2>4, <2>5, <2>6
<1> HIDE DEF G
<1>5. \A i \in 0 .. n : i \in G
  BY <1>2, <1>3, <1>4, LoopInduction
<1> USE DEF G
<1> QED
  BY <1>1, <1>2, <1>5

(* The blocks a document is cut into: its text in order, the place of every *)
(* token, and what the chunker relies on.                                   *)
TokenAt(doc, token, block) ==
  \E k \in DOMAIN doc.lines :
    /\ token \in Range(LineText(doc.lines[k]))
    /\ IF doc.type = "pdf" THEN block.page = k ELSE block.section = SectionOf(doc, k)

Ordered(blocks) ==
  /\ OnceNamed(blocks)
  /\ \/ \A b \in DOMAIN blocks : blocks[b].page = 0
     \/ \A b \in DOMAIN blocks : blocks[b].page # 0

LEMMA SectionIsName ==
  ASSUME NEW doc, NEW i
  PROVE  SectionOf(doc, i) = IF HeadingsOnly(doc) THEN NoSection ELSE NameAt(doc, i)
BY DEF SectionOf, NameAt

LEMMA NothingCounts ==
  ASSUME NEW doc \in Documents, doc.type # "pdf"
  PROVE  HeadingsOnly(doc) <=> \A k \in 1 .. Len(doc.lines) : ~ Counts(doc, k)
<1>1. DOMAIN doc.lines = 1 .. Len(doc.lines)
  BY BodyShape
<1> QED
  BY <1>1 DEF HeadingsOnly, Counts, Range

LEMMA BodyIsText ==
  ASSUME NEW doc \in Documents, ~ HeadingsOnly(doc)
  PROVE  Body(doc, Len(doc.lines)) = Text(doc)
<1>1. PICK x, n : x = BodyLines(doc) /\ n = Len(doc.lines)
  OBVIOUS
<1>2. DOMAIN x = 1 .. n /\ DOMAIN doc.lines = 1 .. n /\ SubSeq(x, 1, n) = x
  BY <1>1, BodyShape, WholeSeq
<1>3. \A k \in 1 .. n : x[k].sentences = IF doc.lines[k].kind = "heading" THEN <<>> ELSE doc.lines[k].sentences
  BY <1>1, <1>2 DEF BodyLines
<1>4. [k \in DOMAIN x |-> x[k].sentences] = BodySentences(doc)
  BY <1>2, <1>3 DEF BodySentences
<1> QED
  BY <1>1, <1>2, <1>4 DEF Body, Text, TextOf, Sentences

(* The tokens of a text are those of its lines.                             *)
LEMMA TextTokens ==
  \A S, R : \A x \in Seq(R) :
    (\A e \in R : e.sentences \in Seq(Seq(S))) =>
      \A token \in Range(TextOf(x)) : \E k \in 1 .. Len(x) : token \in Range(FlattenSeq(x[k].sentences))
<1>1. SUFFICES ASSUME NEW S, NEW R, NEW x, x \in Seq(R), \A e \in R : e.sentences \in Seq(Seq(S))
               PROVE  \A token \in Range(TextOf(x)) :
                        \E k \in 1 .. Len(x) : token \in Range(FlattenSeq(x[k].sentences))
  OBVIOUS
<1>2. PICK n : n = Len(x)
  OBVIOUS
<1>3. n \in Nat /\ SubSeq(x, 1, n) = x /\ SubSeq(x, 1, 0) = <<>>
  BY <1>1, <1>2, WholeSeq
<1> DEFINE Found(i, token) == \E k \in 1 .. i : token \in Range(FlattenSeq(x[k].sentences))
           G == {i \in 0 .. n : \A token \in Range(TextOf(SubSeq(x, 1, i))) : Found(i, token)}
<1>4. 0 \in G
  <2>1. Range(<<>>) = {}
    BY DEF Range
  <2>2. \A token \in Range(TextOf(SubSeq(x, 1, 0))) : Found(0, token)
    BY <1>3, <2>1, TextOfNothing
  <2> HIDE DEF Found
  <2> QED
    BY <1>3, <2>2
<1>5. ASSUME NEW i \in 0 .. n, i # n, i \in G
      PROVE  i + 1 \in G
  <2>1. PICK p, q, e : p = SubSeq(x, 1, i) /\ q = SubSeq(x, 1, i + 1) /\ e = x[i + 1]
    OBVIOUS
  <2>2. p \in Seq(R) /\ e \in R /\ q = Append(p, e) /\ i + 1 \in 1 .. n /\ i + 1 \in 0 .. n
    BY <1>1, <1>2, <1>5, <2>1, FrontAndLast
  <2>3. TextOf(q) = TextOf(p) \o FlattenSeq(e.sentences)
    BY <1>1, <2>2, TextOfOneMore
  <2>4. TextOf(p) \in Seq(S) /\ FlattenSeq(e.sentences) \in Seq(S)
    BY <1>1, <2>2, SentencesType, FlattenType
  <2>5. Range(TextOf(q)) = Range(TextOf(p)) \cup Range(FlattenSeq(e.sentences))
    BY <2>3, <2>4, RangeConcatenation
  <2>6. 1 .. i \subseteq 1 .. i + 1 /\ i + 1 \in 1 .. i + 1
    BY <1>3
  <2>7. \A token \in Range(TextOf(p)) : Found(i + 1, token)
    BY <1>5, <2>1, <2>6
  <2>8. \A token \in Range(FlattenSeq(e.sentences)) : Found(i + 1, token)
    BY <2>1, <2>6
  <2> HIDE DEF Found
  <2>9. \A token \in Range(TextOf(q)) : Found(i + 1, token)
    BY <2>5, <2>7, <2>8
  <2> QED
    BY <2>1, <2>2, <2>9
<1> HIDE DEF G
<1>6. n \in G
  <2>1. n \in 0 .. n
    BY <1>3
  <2> QED
    BY <1>3, <1>4, <1>5, <2>1, LoopInduction
<1> USE DEF G
<1> QED
  BY <1>2, <1>3, <1>6

(* Every token is in one place of one line.                                 *)
LEMMA TokensApart ==
  ASSUME NEW doc \in Documents
  PROVE  /\ \A i, j \in DOMAIN doc.lines :
              i # j => Range(LineText(doc.lines[i])) \cap Range(LineText(doc.lines[j])) = {}
         /\ \A i \in DOMAIN doc.lines : IsInjective(LineText(doc.lines[i]))
<1>1. PICK D, text : D = DOMAIN doc.lines /\ text = [i \in D |-> LineText(doc.lines[i])]
  OBVIOUS
<1>2. \A i \in D : LineText(doc.lines[i]) = text[i]
  BY <1>1
<1>3. \A i, j \in DOMAIN doc.lines :
        \A k \in DOMAIN LineText(doc.lines[i]), l \in DOMAIN LineText(doc.lines[j]) :
          LineText(doc.lines[i])[k] = LineText(doc.lines[j])[l] => i = j /\ k = l
  BY DocumentsAssumption
<1>4. \A i, j \in D : \A k \in DOMAIN text[i], l \in DOMAIN text[j] : text[i][k] = text[j][l] => i = j /\ k = l
  BY <1>1, <1>2, <1>3
<1>5. \A i, j \in D : i # j => Range(text[i]) \cap Range(text[j]) = {}
  BY <1>4 DEF Range
<1>6. \A i \in D : IsInjective(text[i])
  BY <1>4 DEF IsInjective
<1> QED
  BY <1>1, <1>2, <1>5, <1>6

(* No token is twice in a text of lines of one document.                    *)
LEMMA TextInjective ==
  ASSUME NEW doc \in Documents, NEW R, NEW x \in Seq(R), Len(x) = Len(doc.lines),
         \A e \in R : e.sentences \in Seq(Seq(Tokens)),
         \A k \in 1 .. Len(x) : x[k].sentences = <<>> \/ x[k].sentences = doc.lines[k].sentences
  PROVE  IsInjective(TextOf(x))
<1>1. PICK n, lines : n = Len(x) /\ lines = doc.lines
  OBVIOUS
<1>2. n \in Nat /\ SubSeq(x, 1, n) = x /\ SubSeq(x, 1, 0) = <<>> /\ DOMAIN lines = 1 .. n
  <2>1. DOMAIN lines = 1 .. n
    BY <1>1, BodyShape
  <2> QED
    BY <1>1, <2>1, WholeSeq
<1>3. /\ \A p \in Seq(R), e \in R : TextOf(Append(p, e)) = TextOf(p) \o FlattenSeq(e.sentences)
      /\ \A p \in Seq(R) : TextOf(p) \in Seq(Tokens)
      /\ \A e \in R : FlattenSeq(e.sentences) \in Seq(Tokens)
  <2>1. \A p \in Seq(R), e \in R : TextOf(Append(p, e)) = TextOf(p) \o FlattenSeq(e.sentences)
    BY TextOfOneMore
  <2>2. \A p \in Seq(R) : TextOf(p) \in Seq(Tokens)
    BY SentencesType
  <2>3. \A e \in R : FlattenSeq(e.sentences) \in Seq(Tokens)
    BY FlattenType
  <2> QED
    BY <2>1, <2>2, <2>3
<1>4. \A k \in 1 .. n : FlattenSeq(x[k].sentences) = <<>> \/ FlattenSeq(x[k].sentences) = LineText(lines[k])
  BY <1>1, FlattenEmpty DEF LineText
<1>5. Range(<<>>) = {} /\ IsInjective(<<>>)
  BY DEF Range, IsInjective
<1>6. \A i, j \in 1 .. n : i # j => Range(LineText(lines[i])) \cap Range(LineText(lines[j])) = {}
  BY <1>1, <1>2, TokensApart
<1>7. \A k \in 1 .. n : IsInjective(LineText(lines[k]))
  BY <1>1, <1>2, TokensApart
<1>8. \A k \in 1 .. n : IsInjective(FlattenSeq(x[k].sentences))
  BY <1>4, <1>5, <1>7
<1>9. \A i, j \in 1 .. n : i # j =>
        Range(FlattenSeq(x[i].sentences)) \cap Range(FlattenSeq(x[j].sentences)) = {}
  BY <1>4, <1>5, <1>6
<1> DEFINE G == {i \in 0 .. n : IsInjective(TextOf(SubSeq(x, 1, i)))}
<1>10. 0 \in G
  <2>1. IsInjective(TextOf(SubSeq(x, 1, 0)))
    BY <1>2, <1>5, TextOfNothing
  <2>2. 0 \in 0 .. n
    BY <1>2
  <2> QED
    BY <2>1, <2>2
<1>11. ASSUME NEW i \in 0 .. n, i # n, i \in G
       PROVE  i + 1 \in G
  <2>1. PICK p, q, e : p = SubSeq(x, 1, i) /\ q = SubSeq(x, 1, i + 1) /\ e = x[i + 1]
    OBVIOUS
  <2>2. /\ p \in Seq(R) /\ e \in R /\ q = Append(p, e) /\ i + 1 \in 1 .. n /\ i + 1 \in 0 .. n
        /\ i \in 0 .. Len(x) /\ i # Len(x)
    <3>1. i \in 0 .. Len(x) /\ i # Len(x)
      BY <1>1, <1>11
    <3>2. /\ SubSeq(x, 1, i) \in Seq(R) /\ x[i + 1] \in R /\ i + 1 \in 1 .. Len(x)
          /\ SubSeq(x, 1, i + 1) = Append(SubSeq(x, 1, i), x[i + 1])
      BY <3>1, FrontAndLast
    <3>3. i + 1 \in 1 .. n /\ i + 1 \in 0 .. n
      BY <1>1, <1>2, <3>2
    <3> QED
      BY <2>1, <3>1, <3>2, <3>3
  <2>3. TextOf(q) = TextOf(p) \o FlattenSeq(e.sentences)
    <3>1. p \in Seq(R) /\ e \in R /\ q = Append(p, e)
      BY <2>2
    <3>2. \A r \in R : TextOf(Append(p, r)) = TextOf(p) \o FlattenSeq(r.sentences)
      BY <1>3, <3>1
    <3> QED
      BY <3>1, <3>2
  <2>4. TextOf(p) \in Seq(Tokens) /\ FlattenSeq(e.sentences) \in Seq(Tokens)
    BY <1>3, <2>2
  <2>5. Len(p) = i /\ \A k \in 1 .. i : p[k] = x[k]
    BY <2>1, <2>2
  <2>6. \A token \in Range(TextOf(p)) : \E k \in 1 .. i : token \in Range(FlattenSeq(x[k].sentences))
    <3>1. \A token \in Range(TextOf(p)) : \E k \in 1 .. Len(p) : token \in Range(FlattenSeq(p[k].sentences))
      BY <2>2, TextTokens
    <3> QED
      BY <2>5, <3>1
  <2>7. \A k \in 1 .. i : k \in 1 .. n /\ k # i + 1
    BY <1>2, <2>2
  <2>8. Range(TextOf(p)) \cap Range(FlattenSeq(e.sentences)) = {}
    BY <1>9, <2>1, <2>2, <2>6, <2>7
  <2>9. IsInjective(FlattenSeq(e.sentences))
    BY <1>8, <2>1, <2>2
  <2>10. IsInjective(TextOf(p))
    BY <1>11, <2>1
  <2>11. IsInjective(TextOf(q))
    BY <2>3, <2>4, <2>8, <2>9, <2>10, ConcatInjective
  <2> QED
    BY <2>1, <2>2, <2>11
<1> HIDE DEF G
<1>12. n \in G
  <2>1. n \in 0 .. n
    BY <1>2
  <2> QED
    BY <1>2, <1>10, <1>11, <2>1, LoopInduction
<1> USE DEF G
<1> QED
  BY <1>2, <1>12

(* The text as that of one sequence of lines.                               *)
LEMMA TextShape ==
  ASSUME NEW doc \in Documents
  PROVE  /\ Text(doc) \in Seq(Tokens) /\ IsInjective(Text(doc))
         /\ doc.type = "pdf" \/ HeadingsOnly(doc) => Text(doc) = TextOf(doc.lines)
<1>1. PICK lines, n, R, S : /\ lines = doc.lines /\ n = Len(lines) /\ S = Seq(Seq(Tokens))
                            /\ R = [sentences : S]
  OBVIOUS
<1>2. n \in Nat /\ DOMAIN lines = 1 .. n /\ \A k \in 1 .. n : lines[k] \in AnyLine
  BY <1>1, BodyShape
<1>3. PICK q : q = BodySentences(doc)
  OBVIOUS
<1>4. q = [k \in 1 .. n |-> IF lines[k].kind = "heading" /\ ~ HeadingsOnly(doc) THEN <<>> ELSE lines[k].sentences]
  BY <1>1, <1>2, <1>3 DEF BodySentences
<1>5. \A k \in 1 .. n : q[k] = <<>> \/ q[k] = lines[k].sentences
  BY <1>4
<1>6. <<>> \in S /\ \A k \in 1 .. n : lines[k].sentences \in S
  <2>1. <<>> \in S
    BY <1>1
  <2> QED
    BY <1>1, <1>2, <2>1, LineShapes
<1>7. \A k \in 1 .. n : q[k] \in S
  BY <1>5, <1>6
<1> DEFINE x == [k \in 1 .. n |-> [sentences |-> q[k]]]
<1>8. x \in [1 .. n -> R]
  BY <1>1, <1>7
<1>9. \A k \in 1 .. n : x[k].sentences = q[k]
  OBVIOUS
<1> HIDE DEF x
<1>10. x \in Seq(R) /\ Len(x) = n /\ DOMAIN x = 1 .. n
  BY <1>2, <1>8
<1>11. [k \in DOMAIN x |-> x[k].sentences] = q
  <2>1. [k \in DOMAIN x |-> x[k].sentences] = [k \in 1 .. n |-> q[k]]
    BY <1>9, <1>10
  <2>2. q = [k \in 1 .. n |-> q[k]]
    BY <1>4
  <2> QED
    BY <2>1, <2>2
<1>12. TextOf(x) = Text(doc)
  BY <1>3, <1>11 DEF TextOf, Text, Sentences
<1>13. \A e \in R : e.sentences \in Seq(Seq(Tokens))
  BY <1>1
<1>14. TextOf(x) \in Seq(Tokens)
  BY <1>10, <1>13, SentencesType
<1>15. IsInjective(TextOf(x))
  <2>1. \A k \in 1 .. Len(x) : x[k].sentences = <<>> \/ x[k].sentences = doc.lines[k].sentences
    BY <1>1, <1>5, <1>9, <1>10
  <2>2. Len(x) = Len(doc.lines)
    BY <1>1, <1>10
  <2> QED
    BY <1>10, <1>13, <2>1, <2>2, TextInjective
<1>16. ASSUME doc.type = "pdf" \/ HeadingsOnly(doc)
       PROVE  Text(doc) = TextOf(doc.lines)
  <2>1. \A k \in 1 .. n : doc.type = "pdf" => lines[k].kind = "text"
    <3>1. doc.type = "pdf" => lines \in Seq(TextLines)
      BY <1>1, DocumentShapes
    <3>2. \A line \in TextLines : line.kind = "text"
      BY DEF TextLines
    <3> QED
      BY <1>1, <1>2, <3>1, <3>2
  <2>2. \A k \in 1 .. n : q[k] = lines[k].sentences
    BY <1>4, <1>16, <2>1
  <2>3. q = [k \in 1 .. n |-> lines[k].sentences]
    BY <1>4, <2>2
  <2>4. q = [k \in DOMAIN lines |-> lines[k].sentences]
    BY <1>2, <2>3
  <2> QED
    BY <1>1, <1>3, <2>4 DEF Text, TextOf, Sentences
<1> QED
  BY <1>12, <1>14, <1>15, <1>16

(* What the blocks of a document are.                                       *)
GoodBlocks(doc, blocks) ==
  /\ blocks \in Seq(BlockSet)
  /\ TextOf(blocks) = Text(doc)
  /\ \A b \in DOMAIN blocks : \A token \in Range(FlattenSeq(blocks[b].sentences)) :
       TokenAt(doc, token, blocks[b])
  /\ Ordered(blocks)

LEMMA OneBlockText ==
  ASSUME NEW block \in BlockSet
  PROVE  <<block>> \in Seq(BlockSet) /\ DOMAIN <<block>> = {1} /\ TextOf(<<block>>) = FlattenSeq(block.sentences)
<1>1. PICK S, none, one : S = BlockSet /\ none = <<>> /\ one = <<block>>
  OBVIOUS
<1>2. none \in Seq(S) /\ Append(none, block) = one /\ one \in Seq(S) /\ DOMAIN one = {1} /\ block \in S
  BY <1>1
<1>3. \A e \in S : e.sentences \in Seq(Seq(Tokens))
  BY <1>1, LinesAndBlocksHaveText
<1>4. TextOf(Append(none, block)) = TextOf(none) \o FlattenSeq(block.sentences)
  <2>1. none \in Seq(S) /\ block \in S
    BY <1>2
  <2> QED
    BY <1>3, <2>1, TextOfOneMore
<1>5. FlattenSeq(block.sentences) \in Seq(Tokens)
  BY LinesAndBlocksHaveText, FlattenType
<1>6. <<>> \o FlattenSeq(block.sentences) = FlattenSeq(block.sentences)
  BY <1>5, ConcatEmptySeq
<1>7. TextOf(none) = <<>>
  BY <1>1, TextOfNothing
<1>8. TextOf(one) = FlattenSeq(block.sentences)
  BY <1>2, <1>4, <1>6, <1>7
<1> QED
  BY <1>1, <1>2, <1>8

LEMMA LineBlocksAreGood ==
  ASSUME NEW doc \in Documents, doc.type # "pdf"
  PROVE  GoodBlocks(doc, LineBlocks(doc))
<1>1. PICK n, lines, st, end, blocks : /\ lines = doc.lines /\ n = Len(lines)
                                       /\ st = AfterLines(doc)[n] /\ end = CloseBlock(st)
                                       /\ blocks = LineBlocks(doc)
  OBVIOUS
<1>2. n \in Nat /\ DOMAIN lines = 1 .. n /\ n \in 0 .. n
  BY <1>1, BodyShape
<1>3. st \in Gathering /\ Gathered(doc, n, st)
  BY <1>1, <1>2, LinesAreGathered
<1>4. end \in Gathering /\ end.buf = <<>> /\ Gathered(doc, n, end)
  BY <1>1, <1>3, CloseBlockFields, CloseKeepsGathered
<1>5. HeadingsOnly(doc) <=> end.blocks = <<>>
  <2>1. HeadingsOnly(doc) <=> \A k \in 1 .. n : ~ Counts(doc, k)
    BY <1>1, NothingCounts
  <2>2. (end.blocks = <<>> /\ end.buf = <<>>) <=> \A k \in 1 .. n : ~ Counts(doc, k)
    BY <1>4 DEF Gathered
  <2> QED
    BY <1>4, <2>1, <2>2
<1>6. CASE end.blocks # <<>>
  <2>1. blocks = end.blocks
    BY <1>1, <1>6 DEF LineBlocks
  <2>2. blocks \in Seq(BlockSet)
    BY <1>4, <2>1 DEF Gathering
  <2>3. TextOf(blocks) = Text(doc)
    <3>1. TextOf(blocks) \o TextOf(<<>>) = Body(doc, n)
      BY <1>4, <2>1 DEF Gathered
    <3>2. TextOf(blocks) \in Seq(Tokens)
      BY <2>2, LinesAndBlocksHaveText, SentencesType
    <3>3. TextOf(blocks) \o <<>> = TextOf(blocks)
      BY <3>2, ConcatEmptySeq
    <3>4. Body(doc, n) = Text(doc)
      BY <1>1, <1>5, <1>6, BodyIsText
    <3> QED
      BY <3>1, <3>3, <3>4, TextOfNothing
  <2>4. \A b \in DOMAIN blocks : InPlace(doc, n, blocks[b])
    BY <1>4, <2>1 DEF Gathered
  <2>5. ASSUME NEW b \in DOMAIN blocks, NEW token \in Range(FlattenSeq(blocks[b].sentences))
        PROVE  TokenAt(doc, token, blocks[b])
    <3>1. StandsIn(doc, n, token, blocks[b].section)
      BY <2>4, <2>5 DEF InPlace
    <3>2. PICK k \in 1 .. n : token \in Range(LineText(lines[k])) /\ NameAt(doc, k) = blocks[b].section
      BY <1>1, <3>1 DEF StandsIn
    <3>3. SectionOf(doc, k) = NameAt(doc, k)
      BY <1>5, <1>6, SectionIsName
    <3> QED
      BY <1>1, <1>2, <3>2, <3>3 DEF TokenAt
  <2>6. Ordered(blocks)
    BY <1>4, <2>1, <2>4 DEF Gathered, Ordered, InPlace
  <2>7. GoodBlocks(doc, blocks)
    BY <2>2, <2>3, <2>5, <2>6 DEF GoodBlocks
  <2> QED
    BY <1>1, <2>7
<1>7. CASE end.blocks = <<>>
  <2>1. PICK block : block = [section |-> NoSection, page |-> 0, sentences |-> Sentences(lines)]
    OBVIOUS
  <2>2. blocks = <<block>>
    BY <1>1, <1>7, <2>1 DEF LineBlocks
  <2>3. block \in BlockSet /\ block.section = NoSection /\ block.page = 0 /\ block.sentences = Sentences(lines)
    <3>1. Sentences(lines) \in Seq(Seq(Tokens))
      BY <1>1, DocumentShapes, LinesAndBlocksHaveText, SentencesType
    <3> QED
      BY <2>1, <3>1 DEF BlockSet, Sections
  <2>4. blocks \in Seq(BlockSet) /\ DOMAIN blocks = {1} /\ blocks[1] = block
        /\ TextOf(blocks) = FlattenSeq(block.sentences)
    BY <2>2, <2>3, OneBlockText
  <2>5. FlattenSeq(block.sentences) = Text(doc) /\ FlattenSeq(block.sentences) = TextOf(lines)
    BY <1>1, <1>5, <1>7, <2>3, TextShape DEF TextOf
  <2>6. ASSUME NEW token \in Range(TextOf(lines))
        PROVE  TokenAt(doc, token, block)
    <3>1. PICK k \in 1 .. n : token \in Range(FlattenSeq(lines[k].sentences))
      <4>1. lines \in Seq(AnyLine)
        BY <1>1, DocumentShapes
      <4>2. \E k \in 1 .. Len(lines) : token \in Range(FlattenSeq(lines[k].sentences))
        BY <2>6, <4>1, LinesAndBlocksHaveText, TextTokens
      <4> QED
        BY <1>1, <4>2
    <3>2. SectionOf(doc, k) = NoSection
      BY <1>5, <1>7, SectionIsName
    <3> QED
      BY <1>1, <1>2, <2>3, <3>1, <3>2 DEF TokenAt, LineText
  <2>7. Ordered(blocks)
    BY <2>3, <2>4 DEF Ordered, OnceNamed
  <2>8. GoodBlocks(doc, blocks)
    BY <2>4, <2>5, <2>6, <2>7 DEF GoodBlocks
  <2> QED
    BY <1>1, <2>8
<1> QED
  BY <1>6, <1>7

LEMMA PageBlocksAreGood ==
  ASSUME NEW doc \in Documents, doc.type = "pdf"
  PROVE  GoodBlocks(doc, PageBlocks(doc.lines))
<1>1. PICK n, lines, blocks : lines = doc.lines /\ n = Len(lines) /\ blocks = PageBlocks(lines)
  OBVIOUS
<1>2. n \in Nat /\ DOMAIN lines = 1 .. n /\ \A k \in 1 .. n : lines[k].sentences \in Seq(Seq(Tokens))
  BY <1>1, BodyShape, LineShapes
<1>3. /\ DOMAIN blocks = 1 .. n
      /\ \A b \in 1 .. n : blocks[b] = [section |-> "Page", page |-> b, sentences |-> lines[b].sentences]
  BY <1>1, <1>2 DEF PageBlocks
<1>4. /\ \A b \in 1 .. n : blocks[b].section = "Page" /\ blocks[b].page = b /\ blocks[b].sentences = lines[b].sentences
      /\ \A b \in 1 .. n : blocks[b] \in BlockSet
  BY <1>2, <1>3 DEF BlockSet
<1>5. blocks \in Seq(BlockSet)
  <2>1. blocks = [b \in 1 .. n |-> blocks[b]]
    BY <1>1, <1>2, <1>3 DEF PageBlocks
  <2> QED
    BY <1>2, <1>4, <2>1
<1>6. TextOf(blocks) = Text(doc)
  <2>1. [b \in DOMAIN blocks |-> blocks[b].sentences] = [k \in DOMAIN lines |-> lines[k].sentences]
    BY <1>2, <1>3, <1>4
  <2>2. Sentences(blocks) = Sentences(lines)
    BY <2>1 DEF Sentences
  <2> QED
    BY <1>1, <2>2, TextShape DEF TextOf
<1>7. ASSUME NEW b \in DOMAIN blocks, NEW token \in Range(FlattenSeq(blocks[b].sentences))
      PROVE  TokenAt(doc, token, blocks[b])
  BY <1>1, <1>2, <1>3, <1>4, <1>7 DEF TokenAt, LineText
<1>8. Ordered(blocks)
  <2>1. "Page" # NoSection
    BY DEF NoSection
  <2>2. OnceNamed(blocks)
    BY <1>3, <1>4, <2>1 DEF OnceNamed
  <2>3. \A b \in 1 .. n : blocks[b].page # 0
    BY <1>4
  <2> QED
    BY <1>3, <2>2, <2>3 DEF Ordered
<1> QED
  BY <1>1, <1>5, <1>6, <1>7, <1>8 DEF GoodBlocks

LEMMA BlocksAreGood ==
  ASSUME NEW doc \in Documents
  PROVE  GoodBlocks(doc, Blocks(doc))
BY LineBlocksAreGood, PageBlocksAreGood DEF Blocks

(* The line a token is said to be in is the one it is in.                   *)
LEMMA LineOfToken ==
  ASSUME NEW doc \in Documents, NEW token, NEW k \in DOMAIN doc.lines, token \in Range(LineText(doc.lines[k]))
  PROVE  LineOf(doc, token) = k
<1>1. \A i \in DOMAIN doc.lines : token \in Range(LineText(doc.lines[i])) => i = k
  BY TokensApart
<1> QED
  BY <1>1 DEF LineOf

(* From a block to segments.                                                *)
Segment(size) == {s \in Seq(Tokens) : Len(s) \in 1 .. size}
Cutting(size) == [segments : Seq(Segment(size)), buf : {s \in Seq(Tokens) : Len(s) <= size}]

CutText(st) == FlattenSeq(st.segments) \o st.buf

LEMMA SegmentsHaveText ==
  ASSUME NEW size
  PROVE  Seq(Segment(size)) \subseteq Seq(Seq(Tokens))
<1>1. Segment(size) \subseteq Seq(Tokens)
  BY DEF Segment
<1> QED
  BY <1>1, SeqMonotonic

LEMMA CutFields ==
  ASSUME NEW size \in Nat \ {0}, NEW st \in Cutting(size)
  PROVE  /\ st.segments \in Seq(Segment(size)) /\ st.segments \in Seq(Seq(Tokens))
         /\ st.buf \in Seq(Tokens) /\ Len(st.buf) \in Nat /\ Len(st.buf) <= size
         /\ FlattenSeq(st.segments) \in Seq(Tokens) /\ CutText(st) \in Seq(Tokens)
         /\ st = [segments |-> st.segments, buf |-> st.buf]
<1>1. /\ st.segments \in Seq(Segment(size)) /\ st.buf \in Seq(Tokens) /\ Len(st.buf) <= size
      /\ st = [segments |-> st.segments, buf |-> st.buf]
  BY DEF Cutting
<1>2. st.segments \in Seq(Seq(Tokens))
  BY <1>1, SegmentsHaveText
<1>3. FlattenSeq(st.segments) \in Seq(Tokens)
  BY <1>2, FlattenType
<1>4. FlattenSeq(st.segments) \o st.buf \in Seq(Tokens)
  BY <1>1, <1>3, ConcatProperties
<1>5. Len(st.buf) \in Nat
  BY <1>1, LenProperties
<1> QED
  BY <1>1, <1>2, <1>3, <1>4, <1>5 DEF CutText

LEMMA CloseSegmentFields ==
  ASSUME NEW size \in Nat \ {0}, NEW st \in Cutting(size)
  PROVE  /\ CloseSegment(st) \in Cutting(size) /\ CloseSegment(st).buf = <<>>
         /\ FlattenSeq(CloseSegment(st).segments) = CutText(st)
<1>1. PICK g, b, c : g = st.segments /\ b = st.buf /\ c = CloseSegment(st)
  OBVIOUS
<1>2. /\ g \in Seq(Segment(size)) /\ g \in Seq(Seq(Tokens)) /\ b \in Seq(Tokens) /\ Len(b) \in Nat /\ Len(b) <= size
      /\ FlattenSeq(g) \in Seq(Tokens)
  BY <1>1, CutFields
<1>3. CASE b = <<>>
  <2>1. c = st
    BY <1>1, <1>3 DEF CloseSegment
  <2>2. FlattenSeq(g) \o <<>> = FlattenSeq(g)
    BY <1>2, ConcatEmptySeq
  <2> QED
    BY <1>1, <1>3, <2>1, <2>2 DEF CutText
<1>4. CASE b # <<>>
  <2>1. c = [segments |-> Append(g, b), buf |-> <<>>]
    BY <1>1, <1>4 DEF CloseSegment
  <2>2. b \in Segment(size)
    BY <1>2, <1>4, EmptySeq DEF Segment
  <2>3. Append(g, b) \in Seq(Segment(size))
    BY <1>2, <2>2, AppendProperties
  <2>4. <<>> \in {s \in Seq(Tokens) : Len(s) <= size}
    OBVIOUS
  <2>5. c \in Cutting(size)
    BY <2>1, <2>3, <2>4 DEF Cutting
  <2>6. FlattenSeq(Append(g, b)) = FlattenSeq(g) \o b
    BY <1>2, FlattenAppend
  <2> QED
    <3>1. c.segments = Append(g, b) /\ c.buf = <<>>
      BY <2>1
    <3>2. CutText(st) = FlattenSeq(g) \o b
      BY <1>1 DEF CutText
    <3> QED
      BY <1>1, <2>5, <2>6, <3>1, <3>2
<1> QED
  BY <1>3, <1>4

(* The places where a long sentence is cut.                                 *)
CutAt(n, size, i) == Clamp(i * size, 0, n)

Advancing(n, size, m) ==
  /\ m \in Nat /\ CutAt(n, size, 0) = 0 /\ CutAt(n, size, m) = n
  /\ \A i \in 0 .. m : CutAt(n, size, i) \in 0 .. n
  /\ \A i \in 1 .. m : /\ (i - 1) * size = CutAt(n, size, i - 1)
                       /\ CutAt(n, size, i) - CutAt(n, size, i - 1) \in 1 .. size

LEMMA CutsAdvance ==
  ASSUME NEW n \in Nat, NEW size \in Nat \ {0}, NEW m, m = (n + size - 1) \div size
  PROVE  Advancing(n, size, m)
<1>1. m \in Nat /\ m * size <= n + size - 1 /\ n <= m * size
  OBVIOUS
<1>2. \A i \in Nat : i * size \in Nat /\ (i + 1) * size = i * size + size
  OBVIOUS
<1>3. \A i, j \in Nat : i <= j => i * size <= j * size
  OBVIOUS
<1>4. \A i \in 0 .. m : CutAt(n, size, i) \in 0 .. n
  <2> SUFFICES ASSUME NEW i \in 0 .. m PROVE CutAt(n, size, i) \in 0 .. n
    OBVIOUS
  <2>1. PICK a \in Nat : a = i * size
    BY <1>2
  <2> QED
    BY <2>1 DEF CutAt, Clamp
<1>5. CutAt(n, size, 0) = 0 /\ CutAt(n, size, m) = n
  <2>1. 0 * size = 0
    OBVIOUS
  <2>2. PICK a \in Nat : a = m * size
    BY <1>1, <1>2
  <2>3. n <= a
    BY <1>1, <2>2
  <2> QED
    BY <2>1, <2>2, <2>3 DEF CutAt, Clamp
<1>6. ASSUME NEW i \in 1 .. m
      PROVE  /\ (i - 1) * size = CutAt(n, size, i - 1)
             /\ CutAt(n, size, i) - CutAt(n, size, i - 1) \in 1 .. size
  <2>1. PICK j \in Nat : j = i - 1
    OBVIOUS
  <2>2. j + 1 = i /\ i \in Nat /\ i <= m
    BY <1>1, <2>1
  <2>3. PICK a, b \in Nat : a = j * size /\ b = i * size
    BY <1>2, <2>2
  <2>4. b = a + size
    BY <1>2, <2>2, <2>3
  <2>5. b <= n + size - 1
    <3>1. i * size <= m * size
      BY <1>1, <1>3, <2>2
    <3>2. PICK c \in Nat : c = m * size
      BY <1>1, <1>2
    <3> QED
      BY <1>1, <2>3, <3>1, <3>2
  <2>6. a < n
    BY <2>4, <2>5
  <2> QED
    BY <2>1, <2>3, <2>4, <2>6 DEF CutAt, Clamp
<1> QED
  BY <1>1, <1>4, <1>5, <1>6 DEF Advancing

LEMMA TokensBetween ==
  \A s \in Seq(Tokens), a, b \in Nat : a <= b /\ b <= Len(s) =>
    SubSeq(s, a + 1, b) \in Seq(Tokens) /\ Len(SubSeq(s, a + 1, b)) = b - a
<1>1. SUFFICES ASSUME NEW s \in Seq(Tokens), NEW a \in Nat, NEW b \in Nat, a <= b, b <= Len(s)
               PROVE  SubSeq(s, a + 1, b) \in Seq(Tokens) /\ Len(SubSeq(s, a + 1, b)) = b - a
  OBVIOUS
<1>2. PICK c : c = a + 1
  OBVIOUS
<1>3. c \in Int /\ b - c + 1 = b - a /\ (c <= b \/ b - a = 0)
  BY <1>1, <1>2
<1>4. \A k \in c .. b : s[k] \in Tokens
  BY <1>1, <1>2, LenProperties
<1>5. /\ SubSeq(s, c, b) \in Seq(Tokens)
      /\ Len(SubSeq(s, c, b)) = IF c <= b THEN b - c + 1 ELSE 0
  BY <1>3, <1>4, SubSeqProperties
<1> QED
  BY <1>2, <1>3, <1>5

LEMMA PiecesAreGood ==
  ASSUME NEW size \in Nat \ {0}, NEW s \in Seq(Tokens)
  PROVE  Pieces(s, size) \in Seq(Segment(size)) /\ FlattenSeq(Pieces(s, size)) = s
<1>1. PICK n, m, p : n = Len(s) /\ m = (n + size - 1) \div size /\ p = Pieces(s, size)
  OBVIOUS
<1>2. n \in Nat /\ SubSeq(s, 1, n) = s /\ SubSeq(s, 1, 0) = <<>>
  BY <1>1, WholeSeq
<1> DEFINE cut(i) == CutAt(n, size, i)
<1>3. /\ m \in Nat /\ cut(0) = 0 /\ cut(m) = n
      /\ \A i \in 0 .. m : cut(i) \in 0 .. n
      /\ \A i \in 1 .. m : (i - 1) * size = cut(i - 1) /\ cut(i) - cut(i - 1) \in 1 .. size
  <2>1. n \in Nat /\ m = (n + size - 1) \div size
    BY <1>1, <1>2
  <2>2. Advancing(n, size, m)
    BY <2>1, CutsAdvance
  <2> QED
    BY <2>2 DEF Advancing
<1>4. p = [i \in 1 .. m |-> SubSeq(s, (i - 1) * size + 1, cut(i))]
  BY <1>1 DEF Pieces, CutAt
<1> HIDE DEF cut
<1>5. \A i \in 1 .. m : p[i] = SubSeq(s, cut(i - 1) + 1, cut(i))
  BY <1>3, <1>4
<1>6. \A i \in 1 .. m : i - 1 \in 0 .. m /\ i \in 0 .. m
  BY <1>3
<1>7. ASSUME NEW i \in 1 .. m
      PROVE  p[i] \in Segment(size)
  <2>1. PICK a, b \in 0 .. n : a = cut(i - 1) /\ b = cut(i) /\ b - a \in 1 .. size
    BY <1>3, <1>6
  <2>2. p[i] = SubSeq(s, a + 1, b)
    BY <1>5, <2>1
  <2>3. SubSeq(s, a + 1, b) \in Seq(Tokens) /\ Len(SubSeq(s, a + 1, b)) = b - a
    <3>1. a \in Nat /\ b \in Nat /\ a <= b /\ b <= Len(s)
      BY <1>1, <1>2, <2>1
    <3> QED
      BY <3>1, TokensBetween
  <2> QED
    BY <2>1, <2>2, <2>3 DEF Segment
<1>8. p \in Seq(Segment(size)) /\ Len(p) = m
  <2>1. PICK S : S = Segment(size)
    OBVIOUS
  <2>2. p \in [1 .. m -> S]
    BY <1>4, <1>7, <2>1
  <2> QED
    BY <1>3, <2>1, <2>2
<1>9. p \in Seq(Seq(Tokens)) /\ SubSeq(p, 1, m) = p /\ SubSeq(p, 1, 0) = <<>>
  BY <1>8, SegmentsHaveText, WholeSeq
<1> DEFINE G == {i \in 0 .. m : FlattenSeq(SubSeq(p, 1, i)) = SubSeq(s, 1, cut(i))}
<1>10. 0 \in G
  <2>1. FlattenSeq(SubSeq(p, 1, 0)) = <<>>
    BY <1>9, FlattenEmpty
  <2>2. SubSeq(s, 1, cut(0)) = <<>>
    BY <1>2, <1>3
  <2>3. 0 \in 0 .. m
    BY <1>3
  <2> QED
    BY <2>1, <2>2, <2>3
<1>11. ASSUME NEW i \in 0 .. m, i # m, i \in G
       PROVE  i + 1 \in G
  <2>1. i + 1 \in 1 .. m /\ (i + 1) - 1 = i /\ i + 1 \in 0 .. m
    BY <1>3, <1>11
  <2>2. PICK f, q, e : f = SubSeq(p, 1, i) /\ q = SubSeq(p, 1, i + 1) /\ e = p[i + 1]
    OBVIOUS
  <2>3. f \in Seq(Seq(Tokens)) /\ e \in Seq(Tokens) /\ q = Append(f, e)
    BY <1>8, <1>9, <1>11, <2>2, FrontAndLast
  <2>4. FlattenSeq(q) = FlattenSeq(f) \o e
    BY <2>3, FlattenAppend
  <2>5. PICK a, b \in 0 .. n : a = cut(i) /\ b = cut(i + 1) /\ b - a \in 1 .. size
    BY <1>3, <2>1
  <2>6. e = SubSeq(s, a + 1, b) /\ FlattenSeq(f) = SubSeq(s, 1, a)
    BY <1>5, <1>11, <2>1, <2>2, <2>5
  <2>7. SubSeq(s, 1, a) \o SubSeq(s, a + 1, b) = SubSeq(s, 1, b)
    <3>1. 1 \in 1 .. Len(s) + 1 /\ a \in 1 - 1 .. Len(s) /\ b \in a .. Len(s)
      BY <1>1, <1>2, <2>5
    <3> QED
      BY <3>1, ConcatAdjacentSubSeq
  <2>8. FlattenSeq(q) = SubSeq(s, 1, cut(i + 1))
    BY <2>4, <2>5, <2>6, <2>7
  <2> QED
    BY <2>1, <2>2, <2>8
<1> HIDE DEF G
<1>12. m \in G
  <2>1. m \in 0 .. m
    BY <1>3
  <2> QED
    BY <1>3, <1>10, <1>11, <2>1, LoopInduction
<1> USE DEF G
<1> QED
  BY <1>1, <1>2, <1>3, <1>8, <1>9, <1>12

LEMMA AddSentenceFields ==
  ASSUME NEW size \in Nat \ {0}, NEW st \in Cutting(size), NEW s \in Seq(Tokens)
  PROVE  /\ AddSentence(st, s, size) \in Cutting(size)
         /\ CutText(AddSentence(st, s, size)) = CutText(st) \o s
<1>1. PICK c, new, text : c = CloseSegment(st) /\ new = AddSentence(st, s, size) /\ text = CutText(st)
  OBVIOUS
<1>2. c \in Cutting(size) /\ c.buf = <<>> /\ FlattenSeq(c.segments) = text
  BY <1>1, CloseSegmentFields
<1>3. text \in Seq(Tokens) /\ Len(s) \in Nat
  BY <1>1, CutFields, LenProperties
<1>4. CASE Len(s) > size
  <2>1. PICK p : p = Pieces(s, size)
    OBVIOUS
  <2>2. p \in Seq(Segment(size)) /\ p \in Seq(Seq(Tokens)) /\ FlattenSeq(p) = s
    BY <2>1, PiecesAreGood, SegmentsHaveText
  <2>3. new = [segments |-> c.segments \o p, buf |-> <<>>]
    BY <1>1, <1>4, <2>1 DEF AddSentence
  <2>4. c.segments \in Seq(Segment(size)) /\ c.segments \in Seq(Seq(Tokens))
    BY <1>2, CutFields
  <2>5. c.segments \o p \in Seq(Segment(size))
    BY <2>2, <2>4, ConcatProperties
  <2>6. FlattenSeq(c.segments \o p) = text \o s
    BY <1>2, <2>2, <2>4, FlattenConcat
  <2>7. <<>> \in {t \in Seq(Tokens) : Len(t) <= size}
    OBVIOUS
  <2>8. new \in Cutting(size)
    BY <2>3, <2>5, <2>7 DEF Cutting
  <2>9. (text \o s) \o <<>> = text \o s
    BY <1>3, ConcatProperties, ConcatEmptySeq
  <2> QED
    <3>1. new.segments = c.segments \o p /\ new.buf = <<>>
      BY <2>3
    <3>2. CutText(new) = text \o s
      BY <2>6, <2>9, <3>1 DEF CutText
    <3> QED
      BY <1>1, <2>8, <3>2
<1>5. CASE ~ (Len(s) > size)
  <2>1. PICK open : open = IF Len(st.buf) + Len(s) > size THEN c ELSE st
    OBVIOUS
  <2>2. open \in Cutting(size) /\ CutText(open) = text
    <3>1. CutText(c) = text
      <4>1. text \o <<>> = text
        BY <1>3, ConcatEmptySeq
      <4> QED
        BY <1>2, <4>1 DEF CutText
    <3> QED
      BY <1>1, <1>2, <2>1, <3>1
  <2>3. PICK g, b : g = open.segments /\ b = open.buf
    OBVIOUS
  <2>4. /\ g \in Seq(Segment(size)) /\ b \in Seq(Tokens) /\ Len(b) \in Nat /\ FlattenSeq(g) \in Seq(Tokens)
        /\ open = [segments |-> g, buf |-> b]
    BY <2>2, <2>3, CutFields
  <2>5. Len(b) + Len(s) <= size
    <3>1. Len(<<>>) = 0 /\ Len(st.buf) \in Nat
      BY CutFields
    <3>2. CASE Len(st.buf) + Len(s) > size
      BY <1>2, <1>3, <1>5, <2>1, <2>3, <3>1, <3>2
    <3>3. CASE ~ (Len(st.buf) + Len(s) > size)
      BY <1>3, <2>1, <2>3, <3>1, <3>3
    <3> QED
      BY <3>2, <3>3
  <2>6. new = [open EXCEPT !.buf = @ \o s]
    BY <1>1, <1>5, <2>1 DEF AddSentence
  <2>7. new = [segments |-> g, buf |-> b \o s]
    BY <2>4, <2>6
  <2>8. b \o s \in Seq(Tokens) /\ Len(b \o s) = Len(b) + Len(s)
    BY <2>4, ConcatProperties
  <2>9. new \in Cutting(size)
    BY <2>4, <2>5, <2>7, <2>8 DEF Cutting
  <2>10. FlattenSeq(g) \o (b \o s) = (FlattenSeq(g) \o b) \o s
    <3>1. FlattenSeq(g) \in Seq(Tokens) /\ b \in Seq(Tokens)
      BY <2>4
    <3> QED
      BY <3>1, TokensAssociate
  <2>11. CutText(new) = FlattenSeq(g) \o (b \o s)
    BY <2>7 DEF CutText
  <2>12. text = FlattenSeq(g) \o b
    BY <2>2, <2>3 DEF CutText
  <2> QED
    BY <1>1, <2>9, <2>10, <2>11, <2>12
<1> QED
  BY <1>4, <1>5

Uncut == [segments |-> <<>>, buf |-> <<>>]

LEMMA NothingCut == CutText(Uncut) = <<>>
<1>1. <<>> \o <<>> = <<>>
  OBVIOUS
<1>2. Uncut.segments = <<>> /\ Uncut.buf = <<>>
  BY DEF Uncut
<1> QED
  BY <1>1, <1>2, FlattenEmpty DEF CutText

LEMMA SentencesLoop ==
  ASSUME NEW size \in Nat \ {0}, NEW sentences \in Seq(Seq(Tokens))
  PROVE  /\ AfterSentences(sentences, size)[0] = Uncut
         /\ \A i \in 0 .. Len(sentences) : AfterSentences(sentences, size)[i] \in Cutting(size)
         /\ \A i \in 1 .. Len(sentences) :
              AfterSentences(sentences, size)[i] =
                AddSentence(AfterSentences(sentences, size)[i - 1], sentences[i], size)
<1>1. PICK n, S : n = Len(sentences) /\ S = Cutting(size)
  OBVIOUS
<1>2. n \in Nat /\ \A i \in 1 .. n : sentences[i] \in Seq(Tokens)
  BY <1>1, LenProperties
<1>3. Uncut \in S
  <2>1. <<>> \in Seq(Segment(size)) /\ <<>> \in {s \in Seq(Tokens) : Len(s) <= size}
    OBVIOUS
  <2> QED
    BY <1>1, <2>1 DEF Uncut, Cutting
<1>4. \A i \in 1 .. n : \A st \in S : AddSentence(st, sentences[i], size) \in S
  BY <1>1, <1>2, AddSentenceFields
<1> DEFINE step == [i \in 1 .. n |-> [st \in S |-> AddSentence(st, sentences[i], size)]]
           Rec(f) == f = [i \in 0 .. n |-> IF i = 0 THEN Uncut ELSE AddSentence(f[i - 1], sentences[i], size)]
<1>5. step \in [1 .. n -> [S -> S]]
  BY <1>4
<1>6. \A i \in 1 .. n : \A st \in S : step[i][st] = AddSentence(st, sentences[i], size)
  OBVIOUS
<1> HIDE DEF step
<1>7. PICK f \in [0 .. n -> S] : Turns(f, n, Uncut, step)
  BY <1>2, <1>3, <1>5, LoopExists
<1>8. \A i \in 0 .. n : i # 0 => i \in 1 .. n /\ i - 1 \in 0 .. n
  BY <1>2
<1>9. \A i \in 0 .. n : f[i] = IF i = 0 THEN Uncut ELSE AddSentence(f[i - 1], sentences[i], size)
  BY <1>6, <1>7, <1>8 DEF Turns
<1>10. Rec(f)
  BY <1>9
<1> DEFINE A == CHOOSE g : Rec(g)
<1>11. AfterSentences(sentences, size) = A
  BY <1>1 DEF AfterSentences, Uncut
<1>12. Rec(A)
  <2> HIDE DEF Rec
  <2> QED
    BY <1>10
<1> HIDE DEF A
<1>13. \A i \in 0 .. n : A[i] = IF i = 0 THEN Uncut ELSE AddSentence(A[i - 1], sentences[i], size)
  BY <1>12
<1> HIDE DEF Rec
<1>14. A[0] = Uncut
  BY <1>2, <1>13
<1>15. \A i \in 1 .. n : A[i] = AddSentence(A[i - 1], sentences[i], size)
  <2>1. \A i \in 1 .. n : i \in 0 .. n /\ i # 0
    BY <1>2
  <2> QED
    BY <1>13, <2>1
<1>16. \A i \in 1 .. n : A[i - 1] \in S => A[i] \in S
  BY <1>4, <1>15
<1>17. \A i \in 0 .. n : A[i] \in S
  BY <1>2, <1>3, <1>14, <1>16, LoopTyped
<1> QED
  BY <1>1, <1>11, <1>14, <1>15, <1>17

(* The segments of a block are its text, and none is empty or too long.     *)
LEMMA SegmentsAreGood ==
  ASSUME NEW size \in Nat \ {0}, NEW block \in BlockSet
  PROVE  /\ Segments(block, size) \in Seq(Segment(size))
         /\ FlattenSeq(Segments(block, size)) = FlattenSeq(block.sentences)
<1>1. PICK s, n, A : s = block.sentences /\ n = Len(s) /\ A = AfterSentences(s, size)
  OBVIOUS
<1>2. s \in Seq(Seq(Tokens))
  BY <1>1, LinesAndBlocksHaveText
<1>3. /\ A[0] = Uncut /\ \A i \in 0 .. n : A[i] \in Cutting(size)
      /\ \A i \in 1 .. n : A[i] = AddSentence(A[i - 1], s[i], size)
  BY <1>1, <1>2, SentencesLoop
<1>4. n \in Nat /\ SubSeq(s, 1, n) = s /\ SubSeq(s, 1, 0) = <<>>
  BY <1>1, <1>2, WholeSeq
<1> DEFINE G == {i \in 0 .. n : CutText(A[i]) = FlattenSeq(SubSeq(s, 1, i))}
<1>5. 0 \in G
  <2>1. CutText(Uncut) = <<>>
    BY NothingCut
  <2>2. 0 \in 0 .. n /\ FlattenSeq(SubSeq(s, 1, 0)) = <<>>
    <3>1. 0 \in 0 .. n
      BY <1>4
    <3>2. FlattenSeq(SubSeq(s, 1, 0)) = FlattenSeq(<<>>)
      BY <1>4
    <3> QED
      BY <3>1, <3>2, FlattenEmpty
  <2> QED
    <3>1. CutText(A[0]) = FlattenSeq(SubSeq(s, 1, 0))
      BY <1>3, <2>1, <2>2
    <3> QED
      BY <2>2, <3>1
<1>6. ASSUME NEW i \in 0 .. n, i # n, i \in G
      PROVE  i + 1 \in G
  <2>1. PICK p, q, e : p = SubSeq(s, 1, i) /\ q = SubSeq(s, 1, i + 1) /\ e = s[i + 1]
    OBVIOUS
  <2>2. p \in Seq(Seq(Tokens)) /\ e \in Seq(Tokens) /\ q = Append(p, e) /\ i + 1 \in 1 .. n
    BY <1>1, <1>2, <1>6, <2>1, FrontAndLast
  <2>3. FlattenSeq(q) = FlattenSeq(p) \o e
    BY <2>2, FlattenAppend
  <2>4. i + 1 \in 0 .. n /\ (i + 1) - 1 = i
    BY <1>4, <1>6
  <2>5. A[i + 1] = AddSentence(A[i], e, size) /\ A[i] \in Cutting(size)
    BY <1>3, <2>1, <2>2, <2>4
  <2>6. CutText(A[i + 1]) = CutText(A[i]) \o e
    BY <2>2, <2>5, AddSentenceFields
  <2> QED
    BY <1>6, <2>1, <2>3, <2>4, <2>6
<1> HIDE DEF G
<1>7. n \in G
  <2>1. n \in 0 .. n
    BY <1>4
  <2> QED
    BY <1>4, <1>5, <1>6, <2>1, LoopInduction
<1> USE DEF G
<1>8. A[n] \in Cutting(size) /\ CutText(A[n]) = FlattenSeq(s)
  BY <1>3, <1>4, <1>7
<1>9. PICK c : c = CloseSegment(A[n])
  OBVIOUS
<1>10. c \in Cutting(size) /\ FlattenSeq(c.segments) = FlattenSeq(s)
  BY <1>8, <1>9, CloseSegmentFields
<1>11. Segments(block, size) = c.segments
  BY <1>1, <1>9 DEF Segments
<1> QED
  BY <1>1, <1>10, <1>11, CutFields

LEMMA SubSeqOfLonger ==
  ASSUME NEW S, NEW s \in Seq(S), NEW t \in Seq(S), NEW a \in Nat \ {0}, NEW b \in Nat, b <= Len(s)
  PROVE  SubSeq(s \o t, a, b) = SubSeq(s, a, b)
<1>1. PICK u, n, m : u = s \o t /\ n = Len(s) /\ m = Len(t)
  OBVIOUS
<1>2. n \in Nat /\ m \in Nat /\ u \in Seq(S) /\ Len(u) = n + m
  BY <1>1, ConcatProperties, LenProperties
<1>3. \A i \in 1 .. n : u[i] = s[i]
  BY <1>1, <1>2, ConcatProperties
<1>4. \A i \in 1 .. b - a + 1 : a + i - 1 \in 1 .. n
  BY <1>1, <1>2
<1>5. SubSeq(u, a, b) = [i \in 1 .. b - a + 1 |-> u[a + i - 1]]
  BY <1>2
<1>6. SubSeq(s, a, b) = [i \in 1 .. b - a + 1 |-> s[a + i - 1]]
  BY <1>2
<1> QED
  BY <1>1, <1>3, <1>4, <1>5, <1>6

LEMMA SubSeqInText ==
  \A S : \A s \in Seq(S), a, b \in Nat : b <= Len(s) => SubSeq(s, a + 1, b) \in Seq(S)
<1>1. SUFFICES ASSUME NEW S, NEW s \in Seq(S), NEW a \in Nat, NEW b \in Nat, b <= Len(s)
               PROVE  SubSeq(s, a + 1, b) \in Seq(S)
  OBVIOUS
<1>2. \A i \in a + 1 .. b : s[i] \in S
  <2>1. PICK n : n = Len(s)
    OBVIOUS
  <2>2. n \in Nat /\ b <= n /\ \A i \in 1 .. n : s[i] \in S
    BY <1>1, <2>1, LenProperties, ElementOfSeq
  <2>3. \A i \in a + 1 .. b : i \in 1 .. n
    BY <2>2
  <2> QED
    BY <2>2, <2>3
<1> QED
  BY <1>2, SubSeqProperties

(* A window on a window.                                                    *)
LEMMA SubSeqTwice ==
  ASSUME NEW S, NEW s \in Seq(S), NEW d \in Nat, NEW c \in Nat, c <= Len(s),
         NEW a \in Nat, NEW b \in Nat, d + b <= c
  PROVE  SubSeq(SubSeq(s, d + 1, c), a + 1, b) = SubSeq(s, d + a + 1, d + b)
<1>1. PICK u, n : u = SubSeq(s, d + 1, c) /\ n = Len(s)
  OBVIOUS
<1>2. n \in Nat /\ c <= n
  BY <1>1, LenProperties
<1>3. u = [i \in 1 .. c - d |-> s[d + i]]
  BY <1>1, <1>2
<1>4. u \in Seq(S)
  BY <1>1, <1>2
<1>5. SubSeq(u, a + 1, b) = [i \in 1 .. b - a |-> u[a + i]]
  BY <1>4
<1>6. \A i \in 1 .. b - a : a + i \in 1 .. c - d /\ d + (a + i) = (d + a + 1) + i - 1
  BY <1>2
<1>7. SubSeq(s, d + a + 1, d + b) = [i \in 1 .. b - a |-> s[(d + a + 1) + i - 1]]
  BY <1>2
<1> QED
  BY <1>1, <1>3, <1>5, <1>6, <1>7

(* Each part of a joined text is a window on it.                            *)
InOrder(h, s, n, i) ==
  /\ Len(h[i - 1]) \in Nat /\ Len(h[i]) = Len(h[i - 1]) + Len(s[i])
  /\ Len(h[i]) <= Len(h[n])
  /\ s[i] = SubSeq(h[n], Len(h[i - 1]) + 1, Len(h[i]))

LEMMA PartsInOrder ==
  ASSUME NEW S, NEW n \in Nat, NEW s, \A i \in 1 .. n : s[i] \in Seq(S),
         NEW h \in [0 .. n -> Seq(S)], Joined(h, s, n), NEW i \in 1 .. n
  PROVE  InOrder(h, s, n, i)
<1>1. PICK p, q, e : p = h[i - 1] /\ q = h[i] /\ e = s[i]
  OBVIOUS
<1>2. p \in Seq(S) /\ e \in Seq(S) /\ q = p \o e
  <2>1. i - 1 \in 0 .. n
    OBVIOUS
  <2> QED
    BY <1>1, <2>1 DEF Joined
<1>3. PICK a, b : a = Len(p) /\ b = Len(q)
  OBVIOUS
<1>4. a \in Nat /\ b \in Nat /\ Len(e) \in Nat /\ b = a + Len(e) /\ q \in Seq(S)
  BY <1>2, <1>3, ConcatProperties, LenProperties
<1>5. SubSeq(q, a + 1, b) = e
  BY <1>2, <1>3, <1>4
<1> DEFINE G == {m \in 0 .. n : i <= m => b <= Len(h[m]) /\ SubSeq(h[m], a + 1, b) = e}
<1>6. 0 \in G
  OBVIOUS
<1>7. ASSUME NEW m \in 0 .. n, m # n, m \in G
      PROVE  m + 1 \in G
  <2>1. m + 1 \in 0 .. n /\ m + 1 \in 1 .. n /\ (m + 1) - 1 = m
    BY <1>7
  <2>2. CASE m + 1 < i
    BY <2>1, <2>2
  <2>3. CASE m + 1 = i
    <3>1. h[m + 1] = q
      BY <1>1, <2>3
    <3>2. b <= Len(h[m + 1]) /\ SubSeq(h[m + 1], a + 1, b) = e
      <4>1. b <= Len(q) /\ SubSeq(q, a + 1, b) = e
        BY <1>3, <1>4, <1>5
      <4> QED
        BY <3>1, <4>1
    <3> QED
      BY <2>1, <3>2
  <2>4. CASE i <= m
    <3>1. PICK t, u, v : t = h[m] /\ u = h[m + 1] /\ v = s[m + 1]
      OBVIOUS
    <3>2. t \in Seq(S) /\ v \in Seq(S) /\ u = t \o v
      BY <2>1, <3>1 DEF Joined
    <3>3. b <= Len(t) /\ SubSeq(t, a + 1, b) = e
      BY <1>7, <2>4, <3>1
    <3>4. b <= Len(u)
      BY <1>4, <3>2, <3>3, ConcatProperties, LenProperties
    <3>5. SubSeq(u, a + 1, b) = SubSeq(t, a + 1, b)
      <4>1. PICK k : k = a + 1
        OBVIOUS
      <4>2. t \in Seq(S) /\ v \in Seq(S) /\ k \in Nat \ {0} /\ b \in Nat /\ b <= Len(t)
        BY <1>4, <3>2, <3>3, <4>1
      <4>3. SubSeq(t \o v, k, b) = SubSeq(t, k, b)
        BY <4>2, SubSeqOfLonger
      <4> QED
        BY <3>2, <4>1, <4>3
    <3>6. b <= Len(h[m + 1]) /\ SubSeq(h[m + 1], a + 1, b) = e
      BY <3>1, <3>3, <3>4, <3>5
    <3> QED
      BY <2>1, <3>6
  <2> QED
    BY <2>1, <2>2, <2>3, <2>4
<1> HIDE DEF G
<1>8. n \in G
  <2>1. n \in 0 .. n
    OBVIOUS
  <2> QED
    BY <1>6, <1>7, <2>1, LoopInduction
<1> USE DEF G
<1>9. b <= Len(h[n]) /\ SubSeq(h[n], a + 1, b) = e
  BY <1>8
<1> QED
  BY <1>1, <1>3, <1>4, <1>9 DEF InOrder

(* A part of a text that is next when d tokens have been read.              *)
IsNext(text, d, part, c) ==
  d \in Nat /\ c \in Nat /\ c = d + Len(part) /\ c <= Len(text) /\ part = SubSeq(text, d + 1, c)

LEMMA PartsAreNext ==
  \A S : \A parts \in Seq(Seq(S)) :
    \E at \in [0 .. Len(parts) -> Nat] :
      /\ at[0] = 0 /\ at[Len(parts)] = Len(FlattenSeq(parts))
      /\ \A i \in 1 .. Len(parts) : IsNext(FlattenSeq(parts), at[i - 1], parts[i], at[i])
<1>1. SUFFICES ASSUME NEW S, NEW parts, parts \in Seq(Seq(S))
               PROVE  \E at \in [0 .. Len(parts) -> Nat] :
                        /\ at[0] = 0 /\ at[Len(parts)] = Len(FlattenSeq(parts))
                        /\ \A i \in 1 .. Len(parts) : IsNext(FlattenSeq(parts), at[i - 1], parts[i], at[i])
  OBVIOUS
<1>2. PICK Q, n, text : Q = Seq(S) /\ n = Len(parts) /\ text = FlattenSeq(parts)
  OBVIOUS
<1>3. Joins(Q) /\ Elements(parts, n, Q)
  BY <1>1, <1>2, SequencesJoin, ElementsOfSeq
<1>4. PICK h : h \in [0 .. n -> Seq(S)] /\ Joined(h, parts, n) /\ text = h[n]
  <2>1. \E h \in [0 .. n -> Q] : Joined(h, parts, n) /\ text = h[n]
    BY <1>2, <1>3, FlattenLoop
  <2> QED
    BY <1>2, <2>1
<1>5. n \in Nat /\ \A i \in 1 .. n : parts[i] \in Seq(S)
  BY <1>2, <1>3 DEF Elements
<1>6. \A i \in 1 .. n : InOrder(h, parts, n, i)
  <2>1. h \in [0 .. n -> Seq(S)] /\ Joined(h, parts, n)
    BY <1>4
  <2> QED
    BY <1>5, <2>1, PartsInOrder
<1> DEFINE at == [i \in 0 .. n |-> Len(h[i])]
<1>7. at \in [0 .. n -> Nat]
  <2>1. \A i \in 0 .. n : h[i] \in Seq(S)
    BY <1>4
  <2> QED
    BY <2>1, LenProperties
<1>8. \A i \in 0 .. n : at[i] = Len(h[i])
  OBVIOUS
<1> HIDE DEF at
<1>9. at[0] = 0 /\ at[n] = Len(text)
  <2>1. 0 \in 0 .. n /\ n \in 0 .. n
    BY <1>5
  <2>2. h[0] = <<>>
    BY <1>4 DEF Joined
  <2>3. Len(<<>>) = 0
    OBVIOUS
  <2> QED
    BY <1>4, <1>8, <2>1, <2>2, <2>3
<1>10. ASSUME NEW i \in 1 .. n
       PROVE  IsNext(text, at[i - 1], parts[i], at[i])
  <2>1. i \in 0 .. n /\ i - 1 \in 0 .. n
    BY <1>5
  <2>2. PICK a, b : a = at[i - 1] /\ b = at[i]
    OBVIOUS
  <2>3. a \in Nat /\ b \in Nat /\ a = Len(h[i - 1]) /\ b = Len(h[i])
    BY <1>7, <1>8, <2>1, <2>2
  <2> QED
    <3>1. b = a + Len(parts[i]) /\ b <= Len(text) /\ parts[i] = SubSeq(text, a + 1, b)
      BY <1>4, <1>6, <2>3 DEF InOrder
    <3> QED
      BY <2>2, <2>3, <3>1 DEF IsNext
<1> QED
  BY <1>2, <1>7, <1>9, <1>10

(* A part of a part.                                                        *)
LEMMA NextOfNext ==
  \A S : \A text \in Seq(S) : \A d, body, c, a, part, b :
    IsNext(text, d, body, c) /\ IsNext(body, a, part, b) => IsNext(text, d + a, part, d + b)
<1>1. SUFFICES ASSUME NEW S, NEW text \in Seq(S), NEW d, NEW body, NEW c, NEW a, NEW part, NEW b,
                      IsNext(text, d, body, c), IsNext(body, a, part, b)
               PROVE  IsNext(text, d + a, part, d + b)
  OBVIOUS
<1>2. /\ d \in Nat /\ c \in Nat /\ c = d + Len(body) /\ c <= Len(text) /\ body = SubSeq(text, d + 1, c)
      /\ a \in Nat /\ b \in Nat /\ b = a + Len(part) /\ b <= Len(body) /\ part = SubSeq(body, a + 1, b)
  BY <1>1 DEF IsNext
<1>3. PICK n, m, l : n = Len(text) /\ m = Len(body) /\ l = Len(part)
  OBVIOUS
<1>4. n \in Nat /\ m = c - d /\ l = b - a
  <2>1. n \in Nat
    BY <1>3, LenProperties
  <2>2. c = d + m /\ b = a + l
    BY <1>2, <1>3
  <2>3. m \in Nat /\ l \in Nat
    <3>1. body \in Seq(S)
      BY <1>2, SubSeqInText
    <3>2. part \in Seq(S)
      BY <1>2, <3>1, SubSeqInText
    <3> QED
      BY <1>3, <3>1, <3>2, LenProperties
  <2> QED
    BY <1>2, <2>1, <2>2, <2>3
<1>5. /\ d + a \in Nat /\ d + b \in Nat /\ d + b = (d + a) + l /\ d + b <= c /\ d + b <= n
      /\ d + a + 1 = (d + a) + 1
  <2>1. c <= n /\ b <= m
    BY <1>2, <1>3
  <2> QED
    BY <1>2, <1>4, <2>1
<1>6. SubSeq(SubSeq(text, d + 1, c), a + 1, b) = SubSeq(text, d + a + 1, d + b)
  BY <1>2, <1>5, SubSeqTwice
<1>7. part = SubSeq(text, (d + a) + 1, d + b)
  BY <1>2, <1>5, <1>6
<1> QED
  BY <1>3, <1>5, <1>7 DEF IsNext

-----------------------------------------------------------------------------
(* From segments to chunks.                                                 *)

ChunkSet == [section : Sections \cup {"Page"}, page : Nat, tokens : Seq(Tokens)]
Packing  == [chunks : Seq(ChunkSet), open : ChunkSet]

(* A chunk that ends at d where the one before ends at e; chunks in a row   *)
(* that end at d.                                                           *)
Window(text, size, overlap, chunk, e, d) ==
  /\ e \in Nat /\ d \in Nat /\ e < d /\ d <= Len(text)
  /\ \E f \in 1 .. d : /\ f \in e + 1 - overlap .. e + 1
                       /\ chunk.tokens = SubSeq(text, f, d)
                       /\ d - f + 1 <= size

Windows(text, size, overlap, chunks, d) ==
  \E ends \in [0 .. Len(chunks) -> Nat] :
    /\ ends[0] = 0 /\ ends[Len(chunks)] = d
    /\ \A i \in 1 .. Len(chunks) : Window(text, size, overlap, chunks[i], ends[i - 1], ends[i])

LEMMA WindowsAppend ==
  ASSUME NEW text, NEW size, NEW overlap, NEW chunks \in Seq(ChunkSet), NEW chunk \in ChunkSet,
         NEW e, NEW d,
         Windows(text, size, overlap, chunks, e), Window(text, size, overlap, chunk, e, d)
  PROVE  Windows(text, size, overlap, Append(chunks, chunk), d)
<1>1. PICK new, n, m : new = Append(chunks, chunk) /\ n = Len(chunks) /\ m = n + 1
  OBVIOUS
<1>2. /\ n \in Nat /\ m \in Nat /\ Len(new) = m
      /\ new[m] = chunk /\ \A i \in 1 .. n : new[i] = chunks[i]
  BY <1>1, AppendProperties, LenProperties
<1>3. PICK ends \in [0 .. n -> Nat] :
        /\ ends[0] = 0 /\ ends[n] = e
        /\ \A i \in 1 .. n : Window(text, size, overlap, chunks[i], ends[i - 1], ends[i])
  BY <1>1 DEF Windows
<1>4. d \in Nat
  BY DEF Window
<1> DEFINE L == [i \in 0 .. m |-> IF i = m THEN d ELSE ends[i]]
<1>5. L \in [0 .. m -> Nat]
  BY <1>1, <1>2, <1>4
<1>6. L[m] = d /\ \A i \in 0 .. n : L[i] = ends[i]
  BY <1>1, <1>2
<1> HIDE DEF L
<1>7. ASSUME NEW i \in 1 .. m
      PROVE  Window(text, size, overlap, new[i], L[i - 1], L[i])
  <2>1. i - 1 \in 0 .. n /\ (i = m \/ i \in 1 .. n)
    BY <1>1, <1>2
  <2>2. CASE i = m
    <3>1. i - 1 = n
      BY <1>1, <1>2, <2>2
    <3> QED
      BY <1>2, <1>3, <1>6, <2>1, <2>2, <3>1
  <2>3. CASE i \in 1 .. n
    <3>1. i \in 0 .. n
      BY <1>2, <2>3
    <3> QED
      BY <1>2, <1>3, <1>6, <2>1, <2>3, <3>1
  <2> QED
    BY <2>1, <2>2, <2>3
<1>8. L[0] = 0
  BY <1>2, <1>3, <1>6
<1>9. Windows(text, size, overlap, new, d)
  BY <1>2, <1>5, <1>6, <1>7, <1>8 DEF Windows
<1> QED
  BY <1>1, <1>9

LEMMA WindowsFront ==
  ASSUME NEW text, NEW size, NEW overlap, NEW chunks \in Seq(ChunkSet), NEW chunk \in ChunkSet,
         NEW d, Windows(text, size, overlap, Append(chunks, chunk), d)
  PROVE  \E e : Windows(text, size, overlap, chunks, e) /\ Window(text, size, overlap, chunk, e, d)
<1>1. PICK new, n, m : new = Append(chunks, chunk) /\ n = Len(chunks) /\ m = n + 1
  OBVIOUS
<1>2. /\ n \in Nat /\ m \in Nat /\ Len(new) = m
      /\ new[m] = chunk /\ \A i \in 1 .. n : new[i] = chunks[i]
  BY <1>1, AppendProperties, LenProperties
<1>3. PICK L \in [0 .. m -> Nat] :
        /\ L[0] = 0 /\ L[m] = d
        /\ \A i \in 1 .. m : Window(text, size, overlap, new[i], L[i - 1], L[i])
  BY <1>1, <1>2 DEF Windows
<1> DEFINE ends == [i \in 0 .. n |-> L[i]]
<1>4. ends \in [0 .. n -> Nat]
  BY <1>1, <1>2
<1>5. \A i \in 0 .. n : ends[i] = L[i]
  OBVIOUS
<1> HIDE DEF ends
<1>6. ASSUME NEW i \in 1 .. n
      PROVE  Window(text, size, overlap, chunks[i], ends[i - 1], ends[i])
  <2>1. i \in 1 .. m /\ i \in 0 .. n /\ i - 1 \in 0 .. n
    BY <1>1, <1>2
  <2> QED
    BY <1>2, <1>3, <1>5, <2>1
<1>7. ends[0] = 0 /\ 0 \in 0 .. n /\ n \in 0 .. n
  <2>1. 0 \in 0 .. n /\ n \in 0 .. n
    BY <1>2
  <2> QED
    BY <1>3, <1>5, <2>1
<1>8. Windows(text, size, overlap, chunks, ends[n])
  BY <1>1, <1>4, <1>6, <1>7 DEF Windows
<1>9. Window(text, size, overlap, chunk, L[n], d)
  <2>1. m \in 1 .. m /\ m - 1 = n
    BY <1>1, <1>2
  <2> QED
    BY <1>2, <1>3, <2>1
<1> QED
  BY <1>5, <1>7, <1>8, <1>9

(* Every token of a chunk is where the chunk says.                          *)
AllPlaced(doc, chunks) ==
  \A i \in DOMAIN chunks : \A token \in Range(chunks[i].tokens) : TokenAt(doc, token, chunks[i])

LEMMA AllPlacedAppend ==
  ASSUME NEW doc, NEW chunks \in Seq(ChunkSet), NEW chunk \in ChunkSet
  PROVE  AllPlaced(doc, Append(chunks, chunk)) <=>
           /\ AllPlaced(doc, chunks)
           /\ \A token \in Range(chunk.tokens) : TokenAt(doc, token, chunk)
<1>1. PICK new, n, m : new = Append(chunks, chunk) /\ n = Len(chunks) /\ m = n + 1
  OBVIOUS
<1>2. /\ n \in Nat /\ m = n + 1 /\ DOMAIN new = 1 .. m /\ DOMAIN chunks = 1 .. n
      /\ new[m] = chunk /\ \A i \in 1 .. n : new[i] = chunks[i]
  BY <1>1, AppendElements
<1> DEFINE Right(c) == \A token \in Range(c.tokens) : TokenAt(doc, token, c)
<1>3. AllPlaced(doc, new) <=> \A i \in 1 .. m : Right(new[i])
  BY <1>2 DEF AllPlaced
<1>4. AllPlaced(doc, chunks) <=> \A i \in 1 .. n : Right(chunks[i])
  BY <1>2 DEF AllPlaced
<1> HIDE DEF Right
<1>5. m \in 1 .. m /\ (\A i \in 1 .. n : i \in 1 .. m) /\ \A i \in 1 .. m : i = m \/ i \in 1 .. n
  BY <1>2
<1>6. (\A i \in 1 .. m : Right(new[i])) <=> (\A i \in 1 .. n : Right(chunks[i])) /\ Right(chunk)
  BY <1>2, <1>5
<1> QED
  BY <1>1, <1>3, <1>4, <1>6 DEF Right

LEMMA TokenAtSame ==
  ASSUME NEW doc, NEW token, NEW c, NEW e, c.section = e.section, c.page = e.page, TokenAt(doc, token, c)
  PROVE  TokenAt(doc, token, e)
BY DEF TokenAt

(* What has been cut when d tokens of the text have been read, the chunk    *)
(* that is still open included.                                             *)
Packed(doc, size, overlap, st, d) ==
  /\ st \in Packing
  /\ Windows(Text(doc), size, overlap, CloseChunk(st).chunks, d)
  /\ AllPlaced(doc, CloseChunk(st).chunks)

StandsWith(st, block) ==
  st.open.tokens # <<>> => st.open.section = block.section /\ st.open.page = block.page

LEMMA PackingFields ==
  ASSUME NEW st \in Packing
  PROVE  /\ st = [chunks |-> st.chunks, open |-> st.open]
         /\ st.chunks \in Seq(ChunkSet) /\ st.open \in ChunkSet
         /\ st.open = [section |-> st.open.section, page |-> st.open.page, tokens |-> st.open.tokens]
         /\ st.open.section \in Sections \cup {"Page"} /\ st.open.page \in Nat
         /\ st.open.tokens \in Seq(Tokens) /\ Len(st.open.tokens) \in Nat
         /\ Append(st.chunks, st.open) \in Seq(ChunkSet)
<1>1. /\ st = [chunks |-> st.chunks, open |-> st.open]
      /\ st.chunks \in Seq(ChunkSet) /\ st.open \in ChunkSet
  BY DEF Packing
<1>2. /\ st.open = [section |-> st.open.section, page |-> st.open.page, tokens |-> st.open.tokens]
      /\ st.open.section \in Sections \cup {"Page"} /\ st.open.page \in Nat
      /\ st.open.tokens \in Seq(Tokens)
  BY <1>1 DEF ChunkSet
<1>3. Append(st.chunks, st.open) \in Seq(ChunkSet)
  BY <1>1, AppendProperties
<1>4. Len(st.open.tokens) \in Nat
  BY <1>2, LenProperties
<1> QED
  BY <1>1, <1>2, <1>3, <1>4

LEMMA CloseChunkFields ==
  ASSUME NEW st \in Packing
  PROVE  /\ CloseChunk(st) \in Packing
         /\ CloseChunk(st).open.tokens = <<>>
         /\ CloseChunk(CloseChunk(st)) = CloseChunk(st)
         /\ st.open.tokens = <<>> => CloseChunk(st).chunks = st.chunks
         /\ st.open.tokens # <<>> => /\ CloseChunk(st).chunks = Append(st.chunks, st.open)
                                     /\ CloseChunk(st) = [chunks |-> Append(st.chunks, st.open), open |-> NoChunk]
<1>1. NoChunk \in ChunkSet /\ NoChunk.tokens = <<>>
  BY DEF NoChunk, ChunkSet, Sections
<1>2. CASE st.open.tokens = <<>>
  BY <1>2 DEF CloseChunk
<1>3. CASE st.open.tokens # <<>>
  <2>1. PICK c : c = [chunks |-> Append(st.chunks, st.open), open |-> NoChunk]
    OBVIOUS
  <2>2. CloseChunk(st) = c
    BY <1>3, <2>1 DEF CloseChunk
  <2>3. c.chunks = Append(st.chunks, st.open) /\ c.open = NoChunk
    BY <2>1
  <2>4. c \in Packing
    BY <1>1, <2>1, PackingFields DEF Packing
  <2>5. CloseChunk(c) = c
    BY <1>1, <2>3 DEF CloseChunk
  <2> QED
    BY <1>1, <1>3, <2>1, <2>2, <2>3, <2>4, <2>5
<1> QED
  BY <1>2, <1>3

LEMMA TailLength ==
  ASSUME NEW s \in Seq(Tokens), s # <<>>, NEW n \in Nat, n > 0
  PROVE  /\ TailByTokens(s, n) \in Seq(Tokens) /\ Len(TailByTokens(s, n)) > 0
         /\ \E a \in 1 .. Len(s) : a > Len(s) - n /\ TailByTokens(s, n) = SubSeq(s, a, Len(s))
<1>1. PICK m, a : m = Len(s) /\ a = Clamp(m - n + 1, 1, m + 1)
  OBVIOUS
<1>2. m \in Nat /\ m > 0
  BY <1>1, EmptySeq, LenProperties
<1>3. a \in 1 .. m /\ a > m - n
  BY <1>1, <1>2 DEF Clamp
<1>4. TailByTokens(s, n) = SubSeq(s, a, m)
  BY <1>1 DEF TailByTokens
<1>5. SubSeq(s, a, m) \in Seq(Tokens) /\ Len(SubSeq(s, a, m)) = m - a + 1
  BY <1>1, <1>2, <1>3
<1>6. PICK tail : tail = TailByTokens(s, n)
  OBVIOUS
<1>7. tail \in Seq(Tokens) /\ Len(tail) > 0
  BY <1>2, <1>3, <1>4, <1>5, <1>6
<1>8. \E k \in 1 .. m : k > m - n /\ tail = SubSeq(s, k, m)
  BY <1>3, <1>4, <1>6
<1> QED
  BY <1>1, <1>6, <1>7, <1>8

LEMMA TokensReplaced ==
  ASSUME NEW st \in Packing, NEW t
  PROVE  [st.open EXCEPT !.tokens = t] = [section |-> st.open.section, page |-> st.open.page, tokens |-> t]
<1>1. PICK c : c = st.open
  OBVIOUS
<1>2. c \in [section : Sections \cup {"Page"}, page : Nat, tokens : Seq(Tokens)]
  BY <1>1, PackingFields DEF ChunkSet
<1>3. [c EXCEPT !.tokens = t] = [section |-> c.section, page |-> c.page, tokens |-> t]
  BY <1>2
<1> QED
  BY <1>1, <1>3

LEMMA OpenReplaced ==
  ASSUME NEW st \in Packing, NEW c
  PROVE  [st EXCEPT !.open = c] = [chunks |-> st.chunks, open |-> c]
BY DEF Packing

(* What a segment is added to: the open chunk, its end, or nothing.         *)
Added(st, block, segment, size, overlap, new, chunks, kept, place) ==
  /\ new = [chunks |-> chunks,
            open   |-> [section |-> place.section, page |-> place.page, tokens |-> kept \o segment]]
  /\ \/ st.open.tokens = <<>> /\ chunks = st.chunks /\ kept = <<>> /\ place = block
     \/ /\ st.open.tokens # <<>> /\ chunks = st.chunks /\ kept = st.open.tokens /\ place = st.open
        /\ Len(kept) + Len(segment) <= size
     \/ /\ st.open.tokens # <<>> /\ chunks = Append(st.chunks, st.open)
        /\ overlap > 0 /\ kept = TailByTokens(st.open.tokens, overlap) /\ place = st.open
        /\ Len(kept) + Len(segment) <= size
     \/ st.open.tokens # <<>> /\ chunks = Append(st.chunks, st.open) /\ kept = <<>> /\ place = block

LEMMA AddSegmentCases ==
  ASSUME NEW size \in Nat \ {0}, NEW overlap \in Nat, NEW st \in Packing, NEW block \in BlockSet,
         NEW segment \in Segment(size)
  PROVE  \E chunks, kept, place :
           Added(st, block, segment, size, overlap, AddSegment(st, block, segment, size, overlap),
                 chunks, kept, place)
<1>1. PICK open, tokens, result : /\ open = st.open /\ tokens = open.tokens
                                  /\ result = AddSegment(st, block, segment, size, overlap)
  OBVIOUS
<1>2. /\ st = [chunks |-> st.chunks, open |-> open] /\ tokens \in Seq(Tokens) /\ Len(tokens) \in Nat
      /\ open = [section |-> open.section, page |-> open.page, tokens |-> tokens]
  BY <1>1, PackingFields
<1>3. Len(segment) \in Nat
  BY DEF Segment
<1> DEFINE Built(chunks, kept, place) ==
             [chunks |-> chunks,
              open   |-> [section |-> place.section, page |-> place.page, tokens |-> kept \o segment]]
<1>5. CASE tokens = <<>>
  <2>1. result = Built(st.chunks, <<>>, block)
    BY <1>1, <1>2, <1>5 DEF AddSegment
  <2>2. Added(st, block, segment, size, overlap, result, st.chunks, <<>>, block)
    BY <1>1, <1>5, <2>1 DEF Added
  <2> QED
    BY <1>1, <2>2
<1>6. CASE tokens # <<>> /\ ~ (Len(tokens) + Len(segment) > size)
  <2>1. result = Built(st.chunks, tokens, open)
    <3>1. PICK new : new = [open EXCEPT !.tokens = tokens \o segment]
      OBVIOUS
    <3>2. result = [st EXCEPT !.open = new]
      BY <1>1, <1>6, <3>1 DEF AddSegment
    <3>3. new = [section |-> open.section, page |-> open.page, tokens |-> tokens \o segment]
      BY <1>1, <3>1, TokensReplaced
    <3> QED
      BY <3>2, <3>3, OpenReplaced
  <2>2. Len(tokens) + Len(segment) <= size
    BY <1>2, <1>3, <1>6
  <2>3. Added(st, block, segment, size, overlap, result, st.chunks, tokens, open)
    BY <1>1, <1>6, <2>1, <2>2 DEF Added
  <2> QED
    BY <1>1, <2>3
<1>7. CASE tokens # <<>> /\ Len(tokens) + Len(segment) > size
  <2>1. PICK tail, chunks : tail = TailByTokens(tokens, overlap) /\ chunks = Append(st.chunks, open)
    OBVIOUS
  <2>2. CloseChunk(st) = [chunks |-> chunks, open |-> NoChunk]
    BY <1>1, <1>7, <2>1, CloseChunkFields
  <2>3. PICK carried : carried = Carried(open, segment, size, overlap)
    OBVIOUS
  <2>4. [CloseChunk(st) EXCEPT !.open = carried] = [chunks |-> chunks, open |-> carried]
    BY <2>2
  <2>5. CASE overlap > 0 /\ Len(tail) + Len(segment) <= size
    <3>1. carried = [section |-> open.section, page |-> open.page, tokens |-> tail]
      <4>1. carried = [open EXCEPT !.tokens = tail]
        BY <1>1, <2>1, <2>3, <2>5 DEF Carried
      <4> QED
        BY <1>1, <4>1, TokensReplaced
    <3>2. result = Built(chunks, tail, open)
      <4>1. tail # <<>>
        <5>1. tail \in Seq(Tokens) /\ Len(tail) > 0
          BY <1>2, <1>7, <2>1, <2>5, TailLength
        <5> QED
          BY <5>1, EmptySeq
      <4>2. PICK new : new = [section |-> open.section, page |-> open.page, tokens |-> tail \o segment]
        OBVIOUS
      <4>3. [carried EXCEPT !.tokens = tail \o segment] = new
        <5>1. PICK a, b, t : a = open.section /\ b = open.page /\ t = tail \o segment
          OBVIOUS
        <5>2. carried = [section |-> a, page |-> b, tokens |-> tail]
          BY <3>1, <5>1
        <5>3. [carried EXCEPT !.tokens = t] = [section |-> a, page |-> b, tokens |-> t]
          BY <5>2
        <5> QED
          BY <4>2, <5>1, <5>3
      <4>4. result = [[CloseChunk(st) EXCEPT !.open = carried] EXCEPT !.open = new]
        <5>1. carried.tokens = tail
          BY <3>1
        <5>2. PICK kept : kept = [CloseChunk(st) EXCEPT !.open = carried]
          OBVIOUS
        <5>3. kept.open = carried
          BY <2>4, <5>2
        <5>4. [carried EXCEPT !.tokens = @ \o segment] = new
          BY <4>3, <5>1
        <5>5. result = [kept EXCEPT !.open = [kept.open EXCEPT !.tokens = @ \o segment]]
          BY <1>1, <1>7, <2>3, <4>1, <5>1, <5>2, <5>3 DEF AddSegment
        <5>6. result = [kept EXCEPT !.open = new]
          BY <5>3, <5>4, <5>5
        <5> QED
          BY <5>2, <5>6
      <4> QED
        BY <2>4, <4>2, <4>4
    <3>3. Added(st, block, segment, size, overlap, result, chunks, tail, open)
      BY <1>1, <1>7, <2>1, <2>5, <3>2 DEF Added
    <3> QED
      BY <1>1, <3>3
  <2>6. CASE ~ (overlap > 0 /\ Len(tail) + Len(segment) <= size)
    <3>1. carried = NoChunk
      BY <1>1, <2>1, <2>3, <2>6 DEF Carried
    <3>2. NoChunk.tokens = <<>>
      BY DEF NoChunk
    <3>3. result = Built(chunks, <<>>, block)
      BY <1>1, <1>7, <2>3, <2>4, <3>1, <3>2 DEF AddSegment
    <3>4. Added(st, block, segment, size, overlap, result, chunks, <<>>, block)
      BY <1>1, <1>7, <2>1, <3>3 DEF Added
    <3> QED
      BY <1>1, <3>4
  <2> QED
    BY <2>5, <2>6
<1> QED
  BY <1>5, <1>6, <1>7

LEMMA AddSegmentType ==
  ASSUME NEW size \in Nat \ {0}, NEW overlap \in Nat, NEW st \in Packing, NEW block \in BlockSet,
         NEW segment \in Segment(size)
  PROVE  AddSegment(st, block, segment, size, overlap) \in Packing
<1>1. PICK new, chunks, kept, place :
        /\ new = AddSegment(st, block, segment, size, overlap)
        /\ Added(st, block, segment, size, overlap, new, chunks, kept, place)
  BY AddSegmentCases
<1>2. chunks \in Seq(ChunkSet)
  BY <1>1, PackingFields DEF Added
<1>3. place.section \in Sections \cup {"Page"} /\ place.page \in Nat
  <2>1. block.section \in Sections \cup {"Page"} /\ block.page \in Nat
    BY DEF BlockSet
  <2> QED
    BY <1>1, <2>1, PackingFields DEF Added
<1>4. kept \o segment \in Seq(Tokens)
  <2>1. segment \in Seq(Tokens)
    BY DEF Segment
  <2>2. kept \in Seq(Tokens)
    <3>1. PICK tokens, tail : tokens = st.open.tokens /\ tail = TailByTokens(tokens, overlap)
      OBVIOUS
    <3>2. kept = <<>> \/ kept = tokens \/ (tokens # <<>> /\ overlap > 0 /\ kept = tail)
      BY <1>1, <3>1 DEF Added
    <3>3. tokens \in Seq(Tokens) /\ <<>> \in Seq(Tokens)
      <4>1. st.open.tokens \in Seq(Tokens)
        BY PackingFields
      <4> QED
        BY <3>1, <4>1
    <3>4. tokens # <<>> /\ overlap > 0 => tail \in Seq(Tokens)
      BY <3>1, <3>3, TailLength
    <3> QED
      BY <3>2, <3>3, <3>4
  <2> QED
    BY <2>1, <2>2, ConcatProperties
<1>5. PICK open : open = [section |-> place.section, page |-> place.page, tokens |-> kept \o segment]
  OBVIOUS
<1>6. open \in ChunkSet
  BY <1>3, <1>4, <1>5 DEF ChunkSet
<1>7. new = [chunks |-> chunks, open |-> open]
  BY <1>1, <1>5 DEF Added
<1> QED
  BY <1>1, <1>2, <1>6, <1>7 DEF Packing

LEMMA TokensJoined ==
  \A a, b \in Seq(Tokens) :
    /\ a \o b \in Seq(Tokens) /\ Range(a \o b) = Range(a) \cup Range(b)
    /\ b # <<>> => a \o b # <<>>
<1>1. SUFFICES ASSUME NEW a \in Seq(Tokens), NEW b \in Seq(Tokens)
               PROVE  /\ a \o b \in Seq(Tokens) /\ Range(a \o b) = Range(a) \cup Range(b)
                      /\ b # <<>> => a \o b # <<>>
  OBVIOUS
<1>2. a \o b \in Seq(Tokens) /\ (b # <<>> => a \o b # <<>>)
  BY ConcatProperties, EmptySeq, LenProperties
<1> QED
  BY <1>2, RangeConcatenation

LEMMA WindowBuilt ==
  ASSUME NEW text \in Seq(Tokens), NEW size \in Nat, NEW overlap \in Nat, NEW chunk,
         NEW e \in Nat, NEW d \in Nat, NEW c \in Nat, e <= d, d < c, c <= Len(text),
         NEW g \in 1 .. d + 1, g \in e + 1 - overlap .. e + 1,
         NEW kept, kept = SubSeq(text, g, d), NEW segment, segment = SubSeq(text, d + 1, c),
         Len(kept) + Len(segment) <= size, chunk.tokens = kept \o segment
  PROVE  Window(text, size, overlap, chunk, e, c)
<1>1. PICK n : n = Len(text)
  OBVIOUS
<1>2. n \in Nat /\ c <= n
  BY <1>1, LenProperties
<1>3. chunk.tokens = SubSeq(text, g, c)
  <2>1. g \in 1 .. Len(text) + 1 /\ d \in g - 1 .. Len(text) /\ c \in d .. Len(text)
    BY <1>1, <1>2
  <2>2. SubSeq(text, g, d) \o SubSeq(text, d + 1, c) = SubSeq(text, g, c)
    BY <2>1, ConcatAdjacentSubSeq
  <2> QED
    BY <2>2
<1>4. Len(kept) = d - g + 1 /\ Len(segment) = c - d
  BY <1>1, <1>2
<1>5. c - g + 1 <= size /\ g \in 1 .. c
  BY <1>4
<1>6. \E f \in 1 .. c : /\ f \in e + 1 - overlap .. e + 1
                        /\ chunk.tokens = SubSeq(text, f, c)
                        /\ c - f + 1 <= size
  BY <1>3, <1>5
<1>7. e < c
  OBVIOUS
<1> QED
  BY <1>6, <1>7 DEF Window

(* A segment is added to the chunks that were cut from the text before it.  *)
LEMMA AddSegmentKeeps ==
  ASSUME NEW doc \in Documents, NEW size \in Nat \ {0}, NEW overlap \in Nat,
         NEW st, NEW d \in Nat, Packed(doc, size, overlap, st, d),
         NEW block \in BlockSet, StandsWith(st, block), NEW segment \in Segment(size), NEW c, IsNext(Text(doc), d, segment, c),
         \A token \in Range(segment) : TokenAt(doc, token, block)
  PROVE  /\ Packed(doc, size, overlap, AddSegment(st, block, segment, size, overlap), c)
         /\ StandsWith(AddSegment(st, block, segment, size, overlap), block)
<1>1. PICK text, new, old : /\ text = Text(doc) /\ new = AddSegment(st, block, segment, size, overlap)
                            /\ old = CloseChunk(st).chunks
  OBVIOUS
<1>2. /\ text \in Seq(Tokens) /\ Len(text) \in Nat /\ segment \in Seq(Tokens) /\ Len(segment) \in Nat
      /\ Len(segment) > 0 /\ Len(segment) <= size /\ segment = SubSeq(text, d + 1, c)
      /\ c \in Nat /\ d < c /\ c <= Len(text)
  BY <1>1, TextShape, LenProperties DEF Segment, IsNext
<1>3. /\ st \in Packing /\ Windows(text, size, overlap, old, d) /\ AllPlaced(doc, old)
  BY <1>1 DEF Packed
<1>4. PICK chunks, kept, place : Added(st, block, segment, size, overlap, new, chunks, kept, place)
  BY <1>1, <1>3, AddSegmentCases
<1>5. PICK open : open = [section |-> place.section, page |-> place.page, tokens |-> kept \o segment]
  OBVIOUS
<1>6. /\ new.chunks = chunks /\ new.open = open /\ open.section = block.section /\ open.page = block.page
      /\ open.tokens = kept \o segment
  <2>1. new.chunks = chunks /\ new.open = open /\ open.tokens = kept \o segment
    BY <1>4, <1>5 DEF Added
  <2>2. place.section = block.section /\ place.page = block.page
    <3>1. place = block \/ (st.open.tokens # <<>> /\ place = st.open)
      BY <1>4 DEF Added
    <3> QED
      BY <3>1 DEF StandsWith
  <2>3. open.section = place.section /\ open.page = place.page
    BY <1>5
  <2> QED
    BY <2>1, <2>2, <2>3
<1>7. /\ st.open.tokens = <<>> => old = st.chunks
      /\ st.open.tokens # <<>> => old = Append(st.chunks, st.open)
  BY <1>1, <1>3, CloseChunkFields
<1>8. /\ st.chunks \in Seq(ChunkSet) /\ st.open \in ChunkSet /\ st.open.tokens \in Seq(Tokens)
      /\ Append(st.chunks, st.open) \in Seq(ChunkSet)
  BY <1>3, PackingFields
<1>9. block.section \in Sections \cup {"Page"} /\ block.page \in Nat
  BY DEF BlockSet
<1> DEFINE Goal == /\ kept \in Seq(Tokens) /\ chunks \in Seq(ChunkSet) /\ AllPlaced(doc, chunks)
                   /\ \A token \in Range(kept) : TokenAt(doc, token, open)
                   /\ \E e : Windows(text, size, overlap, chunks, e) /\ Window(text, size, overlap, open, e, c)
<1>10. ASSUME chunks = old, kept = <<>>
       PROVE  Goal
  <2>1. SubSeq(text, d + 1, d) = <<>>
    BY <1>2, SubSeqEmpty
  <2>2. Len(kept) = 0 /\ kept \in Seq(Tokens) /\ Range(kept) = {}
    BY <1>10 DEF Range
  <2>3. Window(text, size, overlap, open, d, c)
    <3>1. PICK g : g = d + 1
      OBVIOUS
    <3>2. /\ g \in 1 .. d + 1 /\ g \in d + 1 - overlap .. d + 1 /\ Len(kept) + Len(segment) <= size
          /\ d <= d
      BY <1>2, <2>2, <3>1
    <3>3. kept = SubSeq(text, g, d)
      BY <1>10, <2>1, <3>1
    <3> QED
      BY <1>2, <1>6, <3>2, <3>3, WindowBuilt
  <2>4. chunks \in Seq(ChunkSet)
    BY <1>7, <1>8, <1>10
  <2> QED
    BY <1>3, <1>10, <2>2, <2>3, <2>4
<1>11. ASSUME st.open.tokens # <<>>
       PROVE  /\ AllPlaced(doc, st.chunks)
              /\ \A token \in Range(st.open.tokens) : TokenAt(doc, token, open)
  <2>1. AllPlaced(doc, Append(st.chunks, st.open))
    BY <1>3, <1>7, <1>11
  <2>2. AllPlaced(doc, st.chunks) /\ \A token \in Range(st.open.tokens) : TokenAt(doc, token, st.open)
    BY <1>8, <2>1, AllPlacedAppend
  <2>3. st.open.section = open.section /\ st.open.page = open.page
    BY <1>6, <1>11 DEF StandsWith
  <2> QED
    BY <2>2, <2>3, TokenAtSame
<1>12. ASSUME st.open.tokens # <<>>
       PROVE  \E e : Windows(text, size, overlap, st.chunks, e) /\ Window(text, size, overlap, st.open, e, d)
  BY <1>3, <1>7, <1>8, <1>12, WindowsFront
<1>13. ASSUME st.open.tokens # <<>>, chunks = st.chunks, kept = st.open.tokens, Len(kept) + Len(segment) <= size
       PROVE  Goal
  <2>1. PICK e : Windows(text, size, overlap, chunks, e) /\ Window(text, size, overlap, st.open, e, d)
    BY <1>12, <1>13
  <2>2. e \in Nat /\ e < d
    BY <2>1 DEF Window
  <2>3. PICK f \in 1 .. d : f \in e + 1 - overlap .. e + 1 /\ kept = SubSeq(text, f, d)
    BY <1>13, <2>1 DEF Window
  <2>4. Window(text, size, overlap, open, e, c)
    <3>1. f \in 1 .. d + 1 /\ e <= d
      BY <2>2, <2>3
    <3> QED
      BY <1>2, <1>6, <1>13, <2>2, <2>3, <3>1, WindowBuilt
  <2> QED
    BY <1>8, <1>11, <1>13, <2>1, <2>4
<1>14. ASSUME st.open.tokens # <<>>, chunks = old, overlap > 0, kept = TailByTokens(st.open.tokens, overlap),
              Len(kept) + Len(segment) <= size
       PROVE  Goal
  <2>1. PICK s, n : s = st.open.tokens /\ n = Len(s)
    OBVIOUS
  <2>2. PICK e : Window(text, size, overlap, st.open, e, d)
    BY <1>12, <1>14
  <2>3. PICK f \in 1 .. d : s = SubSeq(text, f, d)
    BY <2>1, <2>2 DEF Window
  <2>4. n = d - f + 1 /\ d <= Len(text)
    BY <1>2, <2>1, <2>3
  <2>5. kept \in Seq(Tokens)
    BY <1>8, <1>14, TailLength
  <2>6. PICK a \in 1 .. n : a > n - overlap /\ kept = SubSeq(s, a, n)
    BY <1>8, <1>14, <2>1, TailLength
  <2>7. PICK b, k, g : b = a - 1 /\ k = f - 1 /\ g = f + a - 1
    OBVIOUS
  <2>8. /\ b \in Nat /\ k \in Nat /\ b + 1 = a /\ k + 1 = f /\ k + b + 1 = g /\ k + n = d
        /\ g \in 1 .. d + 1 /\ g \in d + 1 - overlap .. d + 1
    BY <2>3, <2>4, <2>6, <2>7
  <2>9. kept = SubSeq(text, g, d)
    <3>1. n \in Nat /\ k + n <= d /\ d <= Len(text)
      BY <2>4, <2>6, <2>8
    <3>2. SubSeq(SubSeq(text, k + 1, d), b + 1, n) = SubSeq(text, k + b + 1, k + n)
      BY <1>2, <2>8, <3>1, SubSeqTwice
    <3> QED
      BY <2>3, <2>6, <2>8, <3>2
  <2>10. Window(text, size, overlap, open, d, c)
    <3>1. d <= d /\ g \in 1 .. d + 1 /\ g \in d + 1 - overlap .. d + 1
      BY <2>8
    <3> QED
      BY <1>2, <1>6, <1>14, <2>9, <3>1, WindowBuilt
  <2>11. \A token \in Range(kept) : token \in Range(s)
    <3>1. \A i \in DOMAIN kept : \E j \in DOMAIN s : kept[i] = s[j]
      <4>1. n \in Nat /\ DOMAIN s = 1 .. n
        BY <1>8, <2>1, LenProperties
      <4>2. kept = [i \in 1 .. n - a + 1 |-> s[a + i - 1]]
        BY <2>6, <4>1
      <4>3. \A i \in 1 .. n - a + 1 : a + i - 1 \in 1 .. n
        BY <2>6, <4>1
      <4> QED
        BY <4>1, <4>2, <4>3
    <3> QED
      BY <3>1 DEF Range
  <2>12. chunks \in Seq(ChunkSet)
    BY <1>7, <1>8, <1>14
  <2> QED
    BY <1>3, <1>11, <1>14, <2>1, <2>5, <2>10, <2>11, <2>12
<1>15. Goal
  <2> HIDE DEF Goal
  <2>1. CASE st.open.tokens = <<>> /\ chunks = st.chunks /\ kept = <<>>
    BY <1>7, <1>10, <2>1
  <2>2. CASE /\ st.open.tokens # <<>> /\ chunks = st.chunks /\ kept = st.open.tokens
             /\ Len(kept) + Len(segment) <= size
    BY <1>13, <2>2
  <2>3. CASE /\ st.open.tokens # <<>> /\ chunks = Append(st.chunks, st.open)
             /\ overlap > 0 /\ kept = TailByTokens(st.open.tokens, overlap)
             /\ Len(kept) + Len(segment) <= size
    BY <1>7, <1>14, <2>3
  <2>4. CASE st.open.tokens # <<>> /\ chunks = Append(st.chunks, st.open) /\ kept = <<>>
    BY <1>7, <1>10, <2>4
  <2> QED
    BY <1>4, <2>1, <2>2, <2>3, <2>4 DEF Added
<1>16. PICK full : full = kept \o segment
  OBVIOUS
<1>17. full \in Seq(Tokens) /\ full # <<>> /\ Range(full) = Range(kept) \cup Range(segment)
  <2>1. kept \in Seq(Tokens)
    BY <1>15
  <2>2. segment \in Seq(Tokens) /\ Len(segment) > 0
    BY <1>2
  <2>3. segment # <<>>
    BY <2>2
  <2> QED
    BY <1>16, <2>1, <2>2, <2>3, TokensJoined
<1>18. open \in ChunkSet /\ new \in Packing
  <2>1. open \in ChunkSet
    BY <1>5, <1>6, <1>9, <1>16, <1>17 DEF ChunkSet
  <2> QED
    BY <1>4, <1>5, <1>15, <2>1 DEF Packing, Added
<1>19. CloseChunk(new).chunks = Append(chunks, open)
  BY <1>6, <1>16, <1>17, <1>18, CloseChunkFields
<1>20. Windows(text, size, overlap, Append(chunks, open), c)
  BY <1>15, <1>18, WindowsAppend
<1>21. AllPlaced(doc, Append(chunks, open))
  <2>1. \A token \in Range(segment) : TokenAt(doc, token, open)
    BY <1>6, TokenAtSame
  <2>2. \A token \in Range(open.tokens) : TokenAt(doc, token, open)
    BY <1>6, <1>15, <1>16, <1>17, <2>1
  <2> QED
    BY <1>15, <1>18, <2>2, AllPlacedAppend
<1>22. Packed(doc, size, overlap, new, c)
  BY <1>1, <1>18, <1>19, <1>20, <1>21 DEF Packed
<1>23. StandsWith(new, block)
  BY <1>6 DEF StandsWith
<1> QED
  BY <1>1, <1>22, <1>23

(* Where a chunk goes on with a block, it is from the same place.           *)
Continues(st, block) == ~ Boundary(st.open, block) => StandsWith(st, block)

Started(st, block) == IF Boundary(st.open, block) THEN CloseChunk(st) ELSE st

LEMMA SegmentsLoop ==
  ASSUME NEW size \in Nat \ {0}, NEW overlap \in Nat, NEW st \in Packing, NEW block \in BlockSet,
         NEW segments \in Seq(Segment(size))
  PROVE  /\ AfterSegments(st, block, segments, size, overlap)[0] = Started(st, block)
         /\ \A i \in 0 .. Len(segments) : AfterSegments(st, block, segments, size, overlap)[i] \in Packing
         /\ \A i \in 1 .. Len(segments) :
              AfterSegments(st, block, segments, size, overlap)[i] =
                AddSegment(AfterSegments(st, block, segments, size, overlap)[i - 1], block, segments[i], size, overlap)
<1>1. PICK n, S, start : n = Len(segments) /\ S = Packing /\ start = Started(st, block)
  OBVIOUS
<1>2. n \in Nat /\ \A i \in 1 .. n : segments[i] \in Segment(size)
  BY <1>1, LenProperties
<1>3. start \in S
  BY <1>1, CloseChunkFields DEF Started
<1> DEFINE Turn(s, i) == AddSegment(s, block, segments[i], size, overlap)
<1>4. \A i \in 1 .. n : \A s \in S : Turn(s, i) \in S
  BY <1>1, <1>2, AddSegmentType
<1>5. \A s, i : Turn(s, i) = AddSegment(s, block, segments[i], size, overlap)
  OBVIOUS
<1> DEFINE A == AfterSegments(st, block, segments, size, overlap)
           Rec(f) == f = [i \in 0 .. n |-> IF i = 0 THEN start ELSE Turn(f[i - 1], i)]
           C == CHOOSE g : Rec(g)
<1>6. A = C
  BY <1>1 DEF AfterSegments, Started
<1> HIDE DEF Turn, A
<1> DEFINE step == [i \in 1 .. n |-> [s \in S |-> Turn(s, i)]]
<1>7. step \in [1 .. n -> [S -> S]]
  BY <1>4
<1>8. \A i \in 1 .. n : \A s \in S : step[i][s] = Turn(s, i)
  OBVIOUS
<1> HIDE DEF step
<1>9. PICK f \in [0 .. n -> S] : Turns(f, n, start, step)
  BY <1>2, <1>3, <1>7, LoopExists
<1>10. \A i \in 0 .. n : i # 0 => i \in 1 .. n /\ i - 1 \in 0 .. n
  BY <1>2
<1>11. \A i \in 0 .. n : f[i] = IF i = 0 THEN start ELSE Turn(f[i - 1], i)
  BY <1>8, <1>9, <1>10 DEF Turns
<1>12. Rec(f)
  BY <1>11
<1>13. Rec(C)
  <2> HIDE DEF Rec
  <2> QED
    BY <1>12
<1> HIDE DEF C
<1>14. \A i \in 0 .. n : C[i] = IF i = 0 THEN start ELSE Turn(C[i - 1], i)
  BY <1>13
<1> HIDE DEF Rec
<1>15. C[0] = start
  BY <1>2, <1>14
<1>16. \A i \in 1 .. n : C[i] = Turn(C[i - 1], i)
  <2>1. \A i \in 1 .. n : i \in 0 .. n /\ i # 0
    BY <1>2
  <2> QED
    BY <1>14, <2>1
<1>17. \A i \in 1 .. n : C[i - 1] \in S => C[i] \in S
  BY <1>4, <1>16
<1>18. \A i \in 0 .. n : C[i] \in S
  BY <1>2, <1>3, <1>15, <1>17, LoopTyped
<1>19. \A i \in 1 .. n : A[i] = AddSegment(A[i - 1], block, segments[i], size, overlap)
  BY <1>5, <1>6, <1>16
<1>20. A[0] = Started(st, block) /\ \A i \in 0 .. n : A[i] \in Packing
  BY <1>1, <1>6, <1>15, <1>18
<1> QED
  BY <1>1, <1>19, <1>20 DEF A

LEMMA RangeOfWindow ==
  ASSUME NEW S, NEW s \in Seq(S), NEW a \in Nat, NEW b \in Nat, b <= Len(s)
  PROVE  Range(SubSeq(s, a + 1, b)) \subseteq Range(s)
<1>1. PICK u, n : u = SubSeq(s, a + 1, b) /\ n = Len(s)
  OBVIOUS
<1>2. n \in Nat /\ DOMAIN s = 1 .. n /\ u = [i \in 1 .. b - a |-> s[a + i]]
  BY <1>1, LenProperties
<1>3. \A i \in 1 .. b - a : a + i \in 1 .. n
  BY <1>1, <1>2
<1>4. \A i \in DOMAIN u : u[i] \in Range(s)
  BY <1>2, <1>3 DEF Range
<1>5. Range(u) \subseteq Range(s)
  BY <1>4 DEF Range
<1> QED
  BY <1>1, <1>5

(* A block is added to the chunks that were cut from the text before it.    *)
LEMMA AddBlockKeeps ==
  ASSUME NEW doc \in Documents, NEW size \in Nat \ {0}, NEW overlap \in Nat,
         NEW st, NEW d \in Nat, Packed(doc, size, overlap, st, d),
         NEW block \in BlockSet, Continues(st, block),
         NEW c, IsNext(Text(doc), d, FlattenSeq(block.sentences), c),
         \A token \in Range(FlattenSeq(block.sentences)) : TokenAt(doc, token, block)
  PROVE  /\ Packed(doc, size, overlap, AddBlock(st, block, size, overlap), c)
         /\ \/ AddBlock(st, block, size, overlap) = st
            \/ StandsWith(AddBlock(st, block, size, overlap), block)
<1>1. PICK text, segments, n, new, body :
        /\ text = Text(doc) /\ segments = Segments(block, size) /\ n = Len(segments)
        /\ new = AddBlock(st, block, size, overlap) /\ body = FlattenSeq(block.sentences)
  OBVIOUS
<1>2. /\ segments \in Seq(Segment(size)) /\ FlattenSeq(segments) = body
      /\ segments \in Seq(Seq(Tokens))
  BY <1>1, SegmentsAreGood, SegmentsHaveText
<1>3. st \in Packing
  BY DEF Packed
<1>4. body \in Seq(Tokens) /\ text \in Seq(Tokens) /\ Len(body) \in Nat
  BY <1>1, <1>2, FlattenType, TextShape, LenProperties
<1>5. IsNext(text, d, body, c) /\ c = d + Len(body)
  BY <1>1 DEF IsNext
<1>6. CASE block.sentences = <<>>
  <2>1. new = st
    BY <1>1, <1>6 DEF AddBlock
  <2>2. body = <<>>
    BY <1>1, <1>6, FlattenEmpty
  <2>3. c = d
    BY <1>5, <2>2
  <2> QED
    BY <1>1, <2>1, <2>3
<1>7. CASE block.sentences # <<>>
  <2>1. PICK A : A = AfterSegments(st, block, segments, size, overlap)
    OBVIOUS
  <2>2. new = A[n]
    BY <1>1, <1>7, <2>1 DEF AddBlock
  <2>3. /\ A[0] = Started(st, block)
        /\ \A i \in 1 .. n : A[i] = AddSegment(A[i - 1], block, segments[i], size, overlap)
    <3>1. segments \in Seq(Segment(size))
      BY <1>2
    <3>2. /\ AfterSegments(st, block, segments, size, overlap)[0] = Started(st, block)
          /\ \A i \in 1 .. Len(segments) :
               AfterSegments(st, block, segments, size, overlap)[i] =
                 AddSegment(AfterSegments(st, block, segments, size, overlap)[i - 1], block, segments[i], size, overlap)
      BY <1>3, <3>1, SegmentsLoop
    <3> QED
      BY <1>1, <2>1, <3>2
  <2>4. n \in Nat /\ \A i \in 1 .. n : segments[i] \in Segment(size)
    BY <1>1, <1>2, LenProperties
  <2>5. PICK at \in [0 .. n -> Nat] :
          at[0] = 0 /\ at[n] = Len(body) /\ \A i \in 1 .. n : IsNext(body, at[i - 1], segments[i], at[i])
    <3>1. segments \in Seq(Seq(Tokens))
      BY <1>2
    <3>2. \E at \in [0 .. Len(segments) -> Nat] :
            /\ at[0] = 0 /\ at[Len(segments)] = Len(FlattenSeq(segments))
            /\ \A i \in 1 .. Len(segments) : IsNext(FlattenSeq(segments), at[i - 1], segments[i], at[i])
      BY <3>1, PartsAreNext
    <3> QED
      BY <1>1, <1>2, <3>2
  <2> DEFINE G == {i \in 0 .. n : Packed(doc, size, overlap, A[i], d + at[i]) /\ StandsWith(A[i], block)}
  <2>6. 0 \in G
    <3>1. d + at[0] = d /\ 0 \in 0 .. n
      BY <2>4, <2>5
    <3>2. PICK s : s = Started(st, block)
      OBVIOUS
    <3>3. Packed(doc, size, overlap, s, d) /\ StandsWith(s, block)
      <4>1. CASE Boundary(st.open, block)
        <5>1. s = CloseChunk(st)
          BY <3>2, <4>1 DEF Started
        <5>2. s \in Packing /\ s.open.tokens = <<>> /\ CloseChunk(s).chunks = CloseChunk(st).chunks
          BY <1>3, <5>1, CloseChunkFields
        <5> QED
          BY <5>2 DEF Packed, StandsWith
      <4>2. CASE ~ Boundary(st.open, block)
        BY <3>2, <4>2 DEF Started, Continues
      <4> QED
        BY <4>1, <4>2
    <3> QED
      BY <2>3, <3>1, <3>2, <3>3
  <2>7. ASSUME NEW i \in 0 .. n, i # n, i \in G
        PROVE  i + 1 \in G
    <3>1. i + 1 \in 0 .. n /\ i + 1 \in 1 .. n /\ (i + 1) - 1 = i
      BY <2>4, <2>7
    <3>2. PICK s, next, segment, e, f : /\ s = A[i] /\ next = A[i + 1] /\ segment = segments[i + 1]
                                        /\ e = d + at[i] /\ f = d + at[i + 1]
      OBVIOUS
    <3>3. next = AddSegment(s, block, segment, size, overlap)
      BY <2>3, <3>1, <3>2
    <3>4. Packed(doc, size, overlap, s, e) /\ StandsWith(s, block)
      BY <2>7, <3>2
    <3>5. IsNext(body, at[i], segment, at[i + 1])
      BY <2>5, <3>1, <3>2
    <3>6. segment \in Segment(size)
      BY <2>4, <3>1, <3>2
    <3>7. IsNext(text, e, segment, f)
      BY <1>4, <1>5, <3>2, <3>5, NextOfNext
    <3>8. \A token \in Range(segment) : TokenAt(doc, token, block)
      <4>1. PICK a, b : /\ a \in Nat /\ b \in Nat /\ b <= Len(body) /\ segment = SubSeq(body, a + 1, b)
        BY <3>5 DEF IsNext
      <4>2. Range(segment) \subseteq Range(body)
        BY <1>4, <4>1, RangeOfWindow
      <4> QED
        BY <1>1, <4>2
    <3>9. e \in Nat
      BY <3>7 DEF IsNext
    <3>10. Packed(doc, size, overlap, next, f) /\ StandsWith(next, block)
      BY <1>1, <3>3, <3>4, <3>6, <3>7, <3>8, <3>9, AddSegmentKeeps
    <3> QED
      BY <3>1, <3>2, <3>10
  <2> HIDE DEF G
  <2>8. n \in G
    <3>1. n \in 0 .. n
      BY <2>4
    <3> QED
      BY <2>4, <2>6, <2>7, <3>1, LoopInduction
  <2> USE DEF G
  <2>9. Packed(doc, size, overlap, new, c) /\ StandsWith(new, block)
    BY <1>5, <2>2, <2>5, <2>8
  <2> QED
    BY <1>1, <2>9
<1> QED
  BY <1>6, <1>7

LEMMA AddBlockType ==
  ASSUME NEW size \in Nat \ {0}, NEW overlap \in Nat, NEW st \in Packing, NEW block \in BlockSet
  PROVE  AddBlock(st, block, size, overlap) \in Packing
<1>1. PICK segments, n : segments = Segments(block, size) /\ n = Len(segments)
  OBVIOUS
<1>2. segments \in Seq(Segment(size))
  BY <1>1, SegmentsAreGood
<1>3. n \in 0 .. n
  BY <1>1, <1>2, LenProperties
<1>4. AfterSegments(st, block, segments, size, overlap)[n] \in Packing
  BY <1>1, <1>2, <1>3, SegmentsLoop
<1> QED
  BY <1>1, <1>4 DEF AddBlock

Unpacked == [chunks |-> <<>>, open |-> NoChunk]

LEMMA NothingPacked ==
  /\ Unpacked \in Packing /\ Unpacked.open.tokens = <<>>
  /\ \A doc \in Documents : \A size, overlap : Packed(doc, size, overlap, Unpacked, 0)
<1>1. /\ Unpacked \in Packing /\ Unpacked.open.tokens = <<>>
      /\ CloseChunk(Unpacked).chunks = <<>>
  <2>1. NoChunk \in ChunkSet /\ NoChunk.tokens = <<>>
    BY DEF NoChunk, ChunkSet, Sections
  <2>2. Unpacked \in Packing
    BY <2>1 DEF Unpacked, Packing
  <2>3. Unpacked.open = NoChunk /\ Unpacked.chunks = <<>>
    BY DEF Unpacked
  <2> QED
    BY <2>1, <2>2, <2>3 DEF CloseChunk
<1>2. ASSUME NEW doc \in Documents, NEW size, NEW overlap
      PROVE  Packed(doc, size, overlap, Unpacked, 0)
  <2>1. AllPlaced(doc, <<>>)
    BY DEF AllPlaced
  <2>2. Windows(Text(doc), size, overlap, <<>>, 0)
    <3>1. PICK ends : ends = [i \in 0 .. 0 |-> 0]
      OBVIOUS
    <3>2. ends \in [0 .. Len(<<>>) -> Nat] /\ ends[0] = 0 /\ Len(<<>>) = 0
      BY <3>1
    <3>3. \A i \in 1 .. Len(<<>>) : FALSE
      OBVIOUS
    <3> QED
      BY <3>2, <3>3 DEF Windows
  <2> QED
    BY <1>1, <2>1, <2>2 DEF Packed
<1> QED
  BY <1>1, <1>2

LEMMA BlocksLoop ==
  ASSUME NEW size \in Nat \ {0}, NEW overlap \in Nat, NEW blocks \in Seq(BlockSet)
  PROVE  /\ AfterBlocks(blocks, size, overlap)[0] = Unpacked
         /\ \A i \in 0 .. Len(blocks) : AfterBlocks(blocks, size, overlap)[i] \in Packing
         /\ \A i \in 1 .. Len(blocks) :
              AfterBlocks(blocks, size, overlap)[i] =
                AddBlock(AfterBlocks(blocks, size, overlap)[i - 1], blocks[i], size, overlap)
<1>1. PICK n, S, start : n = Len(blocks) /\ S = Packing /\ start = Unpacked
  OBVIOUS
<1>2. n \in Nat /\ \A i \in 1 .. n : blocks[i] \in BlockSet
  BY <1>1, LenProperties
<1>3. start \in S
  BY <1>1, NothingPacked
<1> DEFINE Turn(s, i) == AddBlock(s, blocks[i], size, overlap)
<1>4. \A i \in 1 .. n : \A s \in S : Turn(s, i) \in S
  BY <1>1, <1>2, AddBlockType
<1>5. \A s, i : Turn(s, i) = AddBlock(s, blocks[i], size, overlap)
  OBVIOUS
<1> DEFINE A == AfterBlocks(blocks, size, overlap)
           Rec(f) == f = [i \in 0 .. n |-> IF i = 0 THEN start ELSE Turn(f[i - 1], i)]
           C == CHOOSE g : Rec(g)
<1>6. A = C
  BY <1>1 DEF AfterBlocks, Unpacked
<1> HIDE DEF Turn, A
<1> DEFINE step == [i \in 1 .. n |-> [s \in S |-> Turn(s, i)]]
<1>7. step \in [1 .. n -> [S -> S]]
  BY <1>4
<1>8. \A i \in 1 .. n : \A s \in S : step[i][s] = Turn(s, i)
  OBVIOUS
<1> HIDE DEF step
<1>9. PICK f \in [0 .. n -> S] : Turns(f, n, start, step)
  BY <1>2, <1>3, <1>7, LoopExists
<1>10. \A i \in 0 .. n : i # 0 => i \in 1 .. n /\ i - 1 \in 0 .. n
  BY <1>2
<1>11. \A i \in 0 .. n : f[i] = IF i = 0 THEN start ELSE Turn(f[i - 1], i)
  BY <1>8, <1>9, <1>10 DEF Turns
<1>12. Rec(f)
  BY <1>11
<1>13. Rec(C)
  <2> HIDE DEF Rec
  <2> QED
    BY <1>12
<1> HIDE DEF C
<1>14. \A i \in 0 .. n : C[i] = IF i = 0 THEN start ELSE Turn(C[i - 1], i)
  BY <1>13
<1> HIDE DEF Rec
<1>15. C[0] = start
  BY <1>2, <1>14
<1>16. \A i \in 1 .. n : C[i] = Turn(C[i - 1], i)
  <2>1. \A i \in 1 .. n : i \in 0 .. n /\ i # 0
    BY <1>2
  <2> QED
    BY <1>14, <2>1
<1>17. \A i \in 1 .. n : C[i - 1] \in S => C[i] \in S
  BY <1>4, <1>16
<1>18. \A i \in 0 .. n : C[i] \in S
  BY <1>2, <1>3, <1>15, <1>17, LoopTyped
<1>19. \A i \in 1 .. n : A[i] = AddBlock(A[i - 1], blocks[i], size, overlap)
  BY <1>5, <1>6, <1>16
<1>20. A[0] = Unpacked /\ \A i \in 0 .. n : A[i] \in Packing
  BY <1>1, <1>6, <1>15, <1>18
<1> QED
  BY <1>1, <1>19, <1>20 DEF A

(* The chunk that is open came from an earlier block, so that where it goes *)
(* on with the next one it is from the same section and page: a block with  *)
(* no section comes after such blocks only, and all or none have a page.    *)
LEMMA OrderedContinues ==
  ASSUME NEW blocks \in Seq(BlockSet), Ordered(blocks), NEW b \in DOMAIN blocks, NEW c \in DOMAIN blocks, b < c,
         NEW st, StandsWith(st, blocks[b])
  PROVE  Continues(st, blocks[c])
<1>1. PICK e, f : e = blocks[b] /\ f = blocks[c]
  OBVIOUS
<1>2. e.section # NoSection => f.section # NoSection
  BY <1>1 DEF Ordered, OnceNamed
<1>3. e.page = 0 <=> f.page = 0
  BY <1>1 DEF Ordered
<1>4. st.open.tokens # <<>> => st.open.section = e.section /\ st.open.page = e.page
  BY <1>1 DEF StandsWith
<1>5. ASSUME ~ Boundary(st.open, f), st.open.tokens # <<>>
      PROVE  st.open.section = f.section /\ st.open.page = f.page
  <2>1. f.page = 0 \/ st.open.page = f.page
    BY <1>5 DEF Boundary
  <2>2. f.section = NoSection \/ st.open.section = f.section
    BY <1>5 DEF Boundary
  <2> QED
    BY <1>2, <1>3, <1>4, <1>5, <2>1, <2>2
<1> QED
  BY <1>1, <1>5 DEF Continues, StandsWith

(* Each block is the next part of the text.                                 *)
LEMMA BlocksAreNext ==
  ASSUME NEW blocks \in Seq(BlockSet)
  PROVE  \E at \in [0 .. Len(blocks) -> Nat] :
           /\ at[0] = 0 /\ at[Len(blocks)] = Len(TextOf(blocks))
           /\ \A i \in 1 .. Len(blocks) :
                IsNext(TextOf(blocks), at[i - 1], FlattenSeq(blocks[i].sentences), at[i])
<1>1. PICK n, text, T : n = Len(blocks) /\ text = TextOf(blocks) /\ T = Seq(Tokens)
  OBVIOUS
<1>2. /\ n \in Nat /\ SubSeq(blocks, 1, 0) = <<>> /\ SubSeq(blocks, 1, n) = blocks
      /\ \A i \in 1 .. n : blocks[i] \in BlockSet
  BY <1>1, WholeSeq
<1>3. \A r \in BlockSet : r.sentences \in Seq(Seq(Tokens))
  BY LinesAndBlocksHaveText
<1> DEFINE part == [i \in 1 .. n |-> FlattenSeq(blocks[i].sentences)]
           h == [i \in 0 .. n |-> TextOf(SubSeq(blocks, 1, i))]
<1>4. \A i \in 1 .. n : part[i] \in Seq(Tokens) /\ part[i] = FlattenSeq(blocks[i].sentences)
  <2>1. \A i \in 1 .. n : FlattenSeq(blocks[i].sentences) \in Seq(Tokens)
    <3>1. SUFFICES ASSUME NEW i \in 1 .. n PROVE FlattenSeq(blocks[i].sentences) \in Seq(Tokens)
      OBVIOUS
    <3>2. blocks[i].sentences \in Seq(Seq(Tokens))
      BY <1>2, <1>3
    <3> QED
      BY <3>2, FlattenType
  <2> QED
    BY <2>1
<1>5. \A i \in 0 .. n : h[i] = TextOf(SubSeq(blocks, 1, i))
  OBVIOUS
<1>6. h \in [0 .. n -> Seq(Tokens)]
  <2>1. ASSUME NEW i \in 0 .. n
        PROVE  TextOf(SubSeq(blocks, 1, i)) \in Seq(Tokens)
    <3>1. SubSeq(blocks, 1, i) \in Seq(BlockSet)
      <4>1. CASE i = n
        BY <1>2, <4>1
      <4>2. CASE i # n
        BY <1>1, <4>2, FrontAndLast
      <4> QED
        BY <4>1, <4>2
    <3> QED
      BY <1>3, <3>1, SentencesType
  <2> QED
    BY <2>1
<1> HIDE DEF part, h
<1>7. h[0] = <<>> /\ h[n] = text
  <2>1. 0 \in 0 .. n /\ n \in 0 .. n
    BY <1>2
  <2> QED
    BY <1>1, <1>2, <1>5, <2>1, TextOfNothing
<1>8. ASSUME NEW i \in 1 .. n
      PROVE  h[i] = h[i - 1] \o part[i]
  <2>1. PICK j : j = i - 1
    OBVIOUS
  <2>2. j \in 0 .. n /\ j # n /\ j + 1 = i /\ i \in 0 .. n
    BY <1>2, <2>1
  <2>3. PICK x, r : x = SubSeq(blocks, 1, j) /\ r = blocks[i]
    OBVIOUS
  <2>4. x \in Seq(BlockSet) /\ r \in BlockSet /\ SubSeq(blocks, 1, i) = Append(x, r)
    <3>1. j \in 0 .. Len(blocks) /\ j # Len(blocks)
      BY <1>1, <2>2
    <3> QED
      BY <2>2, <2>3, <3>1, FrontAndLast
  <2>5. TextOf(Append(x, r)) = TextOf(x) \o FlattenSeq(r.sentences)
    BY <1>3, <2>4, TextOfOneMore
  <2> QED
    BY <1>4, <1>5, <2>1, <2>2, <2>3, <2>4, <2>5
<1>9. Joined(h, part, n)
  BY <1>7, <1>8 DEF Joined
<1>10. \A i \in 1 .. n : InOrder(h, part, n, i)
  <2>1. \A i \in 1 .. n : part[i] \in Seq(Tokens)
    BY <1>4
  <2> QED
    BY <1>2, <1>6, <1>9, <2>1, PartsInOrder
<1> DEFINE at == [i \in 0 .. n |-> Len(h[i])]
<1>11. at \in [0 .. n -> Nat]
  <2>1. \A i \in 0 .. n : h[i] \in Seq(Tokens)
    BY <1>6
  <2> QED
    BY <2>1, LenProperties
<1>12. \A i \in 0 .. n : at[i] = Len(h[i])
  OBVIOUS
<1> HIDE DEF at
<1>13. at[0] = 0 /\ at[n] = Len(text)
  <2>1. 0 \in 0 .. n /\ n \in 0 .. n
    BY <1>2
  <2>2. Len(<<>>) = 0
    OBVIOUS
  <2> QED
    BY <1>7, <1>12, <2>1, <2>2
<1>14. ASSUME NEW i \in 1 .. n
       PROVE  IsNext(text, at[i - 1], FlattenSeq(blocks[i].sentences), at[i])
  <2>1. i \in 0 .. n /\ i - 1 \in 0 .. n
    BY <1>2
  <2>2. PICK a, b, p : a = at[i - 1] /\ b = at[i] /\ p = part[i]
    OBVIOUS
  <2>3. a \in Nat /\ b \in Nat /\ a = Len(h[i - 1]) /\ b = Len(h[i])
    BY <1>11, <1>12, <2>1, <2>2
  <2>4. b = a + Len(p) /\ b <= Len(text) /\ p = SubSeq(text, a + 1, b)
    BY <1>7, <1>10, <2>2, <2>3 DEF InOrder
  <2>5. IsNext(text, a, p, b)
    BY <2>3, <2>4 DEF IsNext
  <2> QED
    BY <1>4, <2>2, <2>5
<1> QED
  BY <1>1, <1>11, <1>13, <1>14

(* When every block has been packed, what has been cut covers the text.     *)
LEMMA AllIsPacked ==
  ASSUME NEW doc \in Documents, NEW size \in Nat \ {0}, NEW overlap \in Nat,
         NEW blocks, GoodBlocks(doc, blocks)
  PROVE  Packed(doc, size, overlap, AfterBlocks(blocks, size, overlap)[Len(blocks)], Len(Text(doc)))
<1>1. PICK text, n, A : /\ text = Text(doc) /\ n = Len(blocks)
                        /\ A = AfterBlocks(blocks, size, overlap)
  OBVIOUS
<1>2. /\ blocks \in Seq(BlockSet) /\ TextOf(blocks) = text /\ Ordered(blocks)
      /\ \A b \in DOMAIN blocks : \A token \in Range(FlattenSeq(blocks[b].sentences)) :
           TokenAt(doc, token, blocks[b])
  BY <1>1 DEF GoodBlocks
<1>3. n \in Nat /\ DOMAIN blocks = 1 .. n /\ \A i \in 1 .. n : blocks[i] \in BlockSet
  BY <1>1, <1>2, LenProperties
<1>4. A[0] = Unpacked /\ \A i \in 1 .. n : A[i] = AddBlock(A[i - 1], blocks[i], size, overlap)
  <2>1. blocks \in Seq(BlockSet)
    BY <1>2
  <2> QED
    BY <1>1, <2>1, BlocksLoop
<1>5. PICK at \in [0 .. n -> Nat] :
        /\ at[0] = 0 /\ at[n] = Len(text)
        /\ \A i \in 1 .. n : IsNext(text, at[i - 1], FlattenSeq(blocks[i].sentences), at[i])
  <2>1. blocks \in Seq(BlockSet) /\ TextOf(blocks) = text
    BY <1>2
  <2> QED
    BY <1>1, <2>1, BlocksAreNext
<1> DEFINE Came(i) == A[i].open.tokens # <<>> => \E b \in 1 .. i : StandsWith(A[i], blocks[b])
           G == {i \in 0 .. n : Packed(doc, size, overlap, A[i], at[i]) /\ Came(i)}
<1>6. 0 \in G
  <2>1. Packed(doc, size, overlap, A[0], at[0]) /\ A[0].open.tokens = <<>> /\ 0 \in 0 .. n
    BY <1>3, <1>4, <1>5, NothingPacked
  <2> QED
    BY <2>1
<1>7. ASSUME NEW i \in 0 .. n, i # n, i \in G
      PROVE  i + 1 \in G
  <2>1. PICK j : j = i + 1
    OBVIOUS
  <2>2. j \in 0 .. n /\ j \in 1 .. n /\ j - 1 = i /\ i \in Nat
    <3> HIDE DEF G
    <3> QED
      BY <1>3, <1>7, <2>1
  <2>3. PICK st, next, block, d, c : /\ st = A[i] /\ next = A[j] /\ block = blocks[j]
                                     /\ d = at[i] /\ c = at[j]
    OBVIOUS
  <2>4. next = AddBlock(st, block, size, overlap) /\ block \in BlockSet
    BY <1>3, <1>4, <2>2, <2>3
  <2>5. IsNext(text, d, FlattenSeq(block.sentences), c)
    BY <1>5, <2>2, <2>3
  <2>6. Packed(doc, size, overlap, st, d)
    BY <1>7, <2>3
  <2>7. Continues(st, block)
    <3>1. CASE st.open.tokens = <<>>
      BY <3>1 DEF Continues, StandsWith
    <3>2. CASE st.open.tokens # <<>>
      <4>1. PICK b \in 1 .. i : StandsWith(st, blocks[b])
        BY <1>7, <2>3, <3>2
      <4>2. b \in DOMAIN blocks /\ j \in DOMAIN blocks /\ b < j
        BY <1>3, <2>1, <2>2
      <4>3. blocks \in Seq(BlockSet) /\ Ordered(blocks)
        BY <1>2
      <4> QED
        BY <2>3, <4>1, <4>2, <4>3, OrderedContinues
    <3> QED
      BY <3>1, <3>2
  <2>8. \A token \in Range(FlattenSeq(block.sentences)) : TokenAt(doc, token, block)
    BY <1>2, <1>3, <2>2, <2>3
  <2>9. /\ Packed(doc, size, overlap, next, c)
        /\ next = st \/ StandsWith(next, block)
    <3>1. d \in Nat
      BY <2>5 DEF IsNext
    <3> QED
      BY <1>1, <2>4, <2>5, <2>6, <2>7, <2>8, <3>1, AddBlockKeeps
  <2>10. Came(j)
    <3>1. CASE next = st
      <4>1. \A b \in 1 .. i : b \in 1 .. j
        BY <2>1, <2>2
      <4> QED
        BY <1>7, <2>3, <3>1, <4>1
    <3>2. CASE StandsWith(next, block)
      <4>1. j \in 1 .. j
        BY <2>2
      <4> QED
        BY <2>3, <3>2, <4>1
    <3> QED
      BY <2>9, <3>1, <3>2
  <2>11. j \in G
    BY <2>2, <2>3, <2>9, <2>10
  <2> QED
    BY <2>1, <2>11
<1> HIDE DEF G
<1>8. n \in G
  <2>1. n \in 0 .. n
    BY <1>3
  <2> QED
    BY <1>3, <1>6, <1>7, <2>1, LoopInduction
<1>9. Packed(doc, size, overlap, A[n], at[n])
  BY <1>8 DEF G
<1> QED
  BY <1>1, <1>5, <1>9

Taken(overlap, size) == Clamp(overlap, 0, size - 1)

(* What is cut, whatever size and overlap are configured.                   *)
LEMMA WhatIsBuilt ==
  ASSUME NEW doc \in Documents, NEW chunkSize \in MaxTokens, NEW overlap \in Overlaps,
         NEW chunks, chunks = BuildChunks(Blocks(doc), chunkSize, overlap)
  PROVE  /\ Clamp(chunkSize, Low, High) \in Nat \ {0} /\ overlap \in Nat
         /\ chunks \in Seq(ChunkSet)
         /\ Windows(Text(doc), Clamp(chunkSize, Low, High), overlap, chunks, Len(Text(doc)))
         /\ AllPlaced(doc, chunks)
<1>1. PICK size, taken, blocks : /\ size = Clamp(chunkSize, Low, High) /\ taken = Taken(overlap, size)
                                 /\ blocks = Blocks(doc)
  OBVIOUS
<1>2. size \in Nat \ {0} /\ overlap \in Nat
  BY <1>1, LimitsAssumption DEF Clamp
<1>3. taken \in Nat /\ taken <= overlap
  BY <1>1, <1>2 DEF Taken, Clamp
<1>4. PICK st : st = AfterBlocks(blocks, size, taken)[Len(blocks)]
  OBVIOUS
<1>5. chunks = CloseChunk(st).chunks
  BY <1>1, <1>4 DEF BuildChunks, Taken
<1>6. Packed(doc, size, taken, st, Len(Text(doc)))
  BY <1>1, <1>2, <1>3, <1>4, BlocksAreGood, AllIsPacked
<1>7. chunks \in Seq(ChunkSet)
  <2>1. CloseChunk(st) \in Packing
    BY <1>6, CloseChunkFields DEF Packed
  <2> QED
    BY <1>5, <2>1 DEF Packing
<1>8. Windows(Text(doc), size, overlap, chunks, Len(Text(doc)))
  <2>1. PICK text, n : text = Text(doc) /\ n = Len(text)
    OBVIOUS
  <2>2. Windows(text, size, taken, chunks, n)
    BY <1>5, <1>6, <2>1 DEF Packed
  <2>3. ASSUME NEW chunk, NEW e, NEW d, Window(text, size, taken, chunk, e, d)
        PROVE  Window(text, size, overlap, chunk, e, d)
    <3>1. e \in Nat /\ d \in Nat /\ e < d /\ d <= Len(text)
      BY <2>3 DEF Window
    <3>2. PICK f \in 1 .. d : /\ f \in e + 1 - taken .. e + 1
                              /\ chunk.tokens = SubSeq(text, f, d)
                              /\ d - f + 1 <= size
      BY <2>3 DEF Window
    <3>3. f \in e + 1 - overlap .. e + 1
      BY <1>2, <1>3, <3>1, <3>2
    <3> QED
      BY <3>1, <3>2, <3>3 DEF Window
  <2>4. Windows(text, size, overlap, chunks, n)
    BY <2>2, <2>3 DEF Windows
  <2> QED
    BY <2>1, <2>4
<1>9. AllPlaced(doc, chunks)
  BY <1>5, <1>6 DEF Packed
<1> QED
  BY <1>1, <1>2, <1>7, <1>8, <1>9

(* Where a token is in a text.                                              *)
Where(text, token) == IF token \in Range(text) THEN CHOOSE k \in DOMAIN text : text[k] = token ELSE 0

FromTo(text, overlap, chunk, f, e, d) ==
  /\ e \in Nat /\ d \in Nat /\ e < d /\ d <= Len(text)
  /\ f \in 1 .. d /\ f \in e + 1 - overlap .. e + 1
  /\ chunk.tokens = SubSeq(text, f, d) /\ Len(chunk.tokens) = d - f + 1

LEMMA WindowIsWhere ==
  ASSUME NEW doc \in Documents, NEW size \in Nat \ {0}, NEW overlap \in Nat, NEW chunk, NEW e, NEW d,
         Window(Text(doc), size, overlap, chunk, e, d)
  PROVE  /\ FromTo(Text(doc), overlap, chunk, Where(Text(doc), chunk.tokens[1]), e, d)
         /\ Len(chunk.tokens) \in 1 .. size
<1>1. PICK text : text = Text(doc)
  OBVIOUS
<1>2. text \in Seq(Tokens) /\ IsInjective(text) /\ Len(text) \in Nat /\ DOMAIN text = 1 .. Len(text)
  BY <1>1, TextShape, LenProperties
<1>3. e \in Nat /\ d \in Nat /\ e < d /\ d <= Len(text)
  BY <1>1 DEF Window
<1>4. PICK f \in 1 .. d : /\ f \in e + 1 - overlap .. e + 1
                          /\ chunk.tokens = SubSeq(text, f, d)
                          /\ d - f + 1 <= size
  BY <1>1 DEF Window
<1>5. /\ f \in 1 .. Len(text) /\ f \in 1 .. Len(text) + 1 /\ d \in f - 1 .. Len(text)
      /\ d - f + 1 \in 1 .. size /\ 1 \in 1 .. d - f + 1 /\ f + 1 - 1 = f
  BY <1>2, <1>3, <1>4
<1>6. Len(SubSeq(text, f, d)) = d - f + 1 /\ SubSeq(text, f, d)[1] = text[f]
  <2>1. /\ Len(SubSeq(text, f, d)) = d - f + 1
        /\ \A i \in 1 .. d - f + 1 : SubSeq(text, f, d)[i] = text[f + i - 1]
    BY <1>2, <1>5, SubSeqProperties
  <2> QED
    BY <1>5, <2>1
<1>7. Where(text, text[f]) = f
  <2>1. text[f] \in Range(text) /\ f \in DOMAIN text
    BY <1>2, <1>5 DEF Range
  <2>2. \A k \in DOMAIN text : text[k] = text[f] => k = f
    BY <1>2, <2>1 DEF IsInjective
  <2> QED
    BY <2>1, <2>2 DEF Where
<1>8. f = Where(text, chunk.tokens[1])
  BY <1>4, <1>6, <1>7
<1>9. FromTo(text, overlap, chunk, f, e, d)
  BY <1>3, <1>4, <1>6 DEF FromTo
<1>10. Len(chunk.tokens) \in 1 .. size
  BY <1>4, <1>5, <1>6
<1> QED
  BY <1>1, <1>8, <1>9, <1>10

(* What is in built: a text, the configuration, and what was cut with it.   *)
Cut(b) ==
  /\ b.doc \in Documents /\ b.size \in MaxTokens /\ b.overlap \in Overlaps
  /\ b.chunks = BuildChunks(Blocks(b.doc), b.size, b.overlap)

AllCut == \A b \in built : Cut(b)

LEMMA TextIsCut == TextSpec => []AllCut
<1>1. TextInit => AllCut
  BY DEF TextInit, AllCut
<1>2. AllCut /\ [TextNext]_built => AllCut'
  <2>1. SUFFICES ASSUME AllCut, [TextNext]_built PROVE AllCut'
    OBVIOUS
  <2>2. CASE UNCHANGED built
    BY <2>1, <2>2 DEF AllCut, Cut
  <2>3. ASSUME NEW doc \in Documents, NEW size \in MaxTokens, NEW overlap \in Overlaps,
               ParseAndChunk(doc, size, overlap)
        PROVE  AllCut'
    BY <2>3 DEF ParseAndChunk, AllCut, Cut
  <2> QED
    BY <2>1, <2>2, <2>3 DEF TextNext
<1> QED
  BY <1>1, <1>2, PTL DEF TextSpec

(* What follows for a text that was cut: the ends of its chunks.            *)
LEMMA CutFacts ==
  ASSUME NEW b, Cut(b)
  PROVE  /\ b.doc \in Documents /\ Clamp(b.size, Low, High) \in Nat \ {0} /\ b.overlap \in Nat
         /\ b.chunks \in Seq(ChunkSet) /\ AllPlaced(b.doc, b.chunks)
         /\ Windows(Text(b.doc), Clamp(b.size, Low, High), b.overlap, b.chunks, Len(Text(b.doc)))
BY WhatIsBuilt DEF Cut

LEMMA CutFits ==
  ASSUME NEW b, Cut(b), NEW chunk \in Range(b.chunks)
  PROVE  Len(chunk.tokens) \in 1 .. Clamp(b.size, Low, High)
<1>1. PICK doc, size, overlap, chunks : /\ doc = b.doc /\ size = Clamp(b.size, Low, High)
                                        /\ overlap = b.overlap /\ chunks = b.chunks
  OBVIOUS
<1>2. doc \in Documents /\ size \in Nat \ {0} /\ overlap \in Nat /\ DOMAIN chunks = 1 .. Len(chunks)
  BY <1>1, CutFacts, LenProperties
<1>3. PICK i \in 1 .. Len(chunks) : chunk = chunks[i]
  BY <1>1, <1>2 DEF Range
<1>4. \E e, d : Window(Text(doc), size, overlap, chunk, e, d)
  <2>1. Windows(Text(doc), size, overlap, chunks, Len(Text(doc)))
    BY <1>1, CutFacts
  <2> QED
    BY <1>3, <2>1 DEF Windows
<1>5. Len(chunk.tokens) \in 1 .. size
  BY <1>2, <1>4, WindowIsWhere
<1> QED
  BY <1>1, <1>5

(* Every chunk fits what the embedding is configured for, and none is empty.*)
THEOREM ChunksAlwaysFit == TextSpec => []ChunksFit
<1>1. AllCut => ChunksFit
  BY CutFits DEF AllCut, ChunksFit
<1> QED
  BY <1>1, TextIsCut, PTL

FirstOf(text, chunks) == [i \in DOMAIN chunks |-> Where(text, chunks[i].tokens[1])]

(* The ends of the chunks are those of the windows on the text.             *)
LEMMA CutEnds ==
  ASSUME NEW b, Cut(b)
  PROVE  \E ends \in [0 .. Len(b.chunks) -> Nat] :
           /\ ends[0] = 0 /\ ends[Len(b.chunks)] = Len(Text(b.doc))
           /\ \A i \in 1 .. Len(b.chunks) :
                FromTo(Text(b.doc), b.overlap, b.chunks[i], FirstOf(Text(b.doc), b.chunks)[i], ends[i - 1], ends[i])
<1>1. PICK doc, size, overlap, chunks : /\ doc = b.doc /\ size = Clamp(b.size, Low, High)
                                        /\ overlap = b.overlap /\ chunks = b.chunks
  OBVIOUS
<1>2. doc \in Documents /\ size \in Nat \ {0} /\ overlap \in Nat /\ DOMAIN chunks = 1 .. Len(chunks)
  BY <1>1, CutFacts, LenProperties
<1>3. Windows(Text(doc), size, overlap, chunks, Len(Text(doc)))
  BY <1>1, CutFacts
<1>4. PICK ends \in [0 .. Len(chunks) -> Nat] :
        /\ ends[0] = 0 /\ ends[Len(chunks)] = Len(Text(doc))
        /\ \A i \in 1 .. Len(chunks) : Window(Text(doc), size, overlap, chunks[i], ends[i - 1], ends[i])
  BY <1>3 DEF Windows
<1>5. \A i \in 1 .. Len(chunks) : FirstOf(Text(doc), chunks)[i] = Where(Text(doc), chunks[i].tokens[1])
  BY <1>2 DEF FirstOf
<1>6. ASSUME NEW i \in 1 .. Len(chunks)
      PROVE  FromTo(Text(doc), overlap, chunks[i], FirstOf(Text(doc), chunks)[i], ends[i - 1], ends[i])
  <2>1. PICK chunk, e, d : chunk = chunks[i] /\ e = ends[i - 1] /\ d = ends[i]
    OBVIOUS
  <2>2. Window(Text(doc), size, overlap, chunk, e, d)
    BY <1>4, <2>1
  <2>3. FromTo(Text(doc), overlap, chunk, Where(Text(doc), chunk.tokens[1]), e, d)
    BY <1>2, <2>2, WindowIsWhere
  <2> QED
    BY <1>5, <2>1, <2>3
<1> QED
  BY <1>1, <1>4, <1>6

LastOf(text, chunks) == [i \in DOMAIN chunks |-> FirstOf(text, chunks)[i] + Len(chunks[i].tokens) - 1]

Covered(text, chunks, overlap, first, last) ==
  /\ \A i \in DOMAIN chunks :
       /\ first[i] > 0 /\ last[i] <= Len(text)
       /\ chunks[i].tokens = SubSeq(text, first[i], last[i])
  /\ \A i \in DOMAIN chunks \ {1} :
       /\ last[i - 1] < last[i]
       /\ first[i] \in last[i - 1] + 1 - overlap .. last[i - 1] + 1
  /\ IF chunks = <<>> THEN text = <<>> ELSE first[1] = 1 /\ last[Len(chunks)] = Len(text)

LEMMA CutCovers ==
  ASSUME NEW b, Cut(b)
  PROVE  Covered(Text(b.doc), b.chunks, b.overlap, FirstOf(Text(b.doc), b.chunks), LastOf(Text(b.doc), b.chunks))
<1>1. PICK text, chunks, n, overlap : /\ text = Text(b.doc) /\ chunks = b.chunks
                                      /\ n = Len(chunks) /\ overlap = b.overlap
  OBVIOUS
<1>2. /\ n \in Nat /\ DOMAIN chunks = 1 .. n /\ overlap \in Nat /\ (n = 0 <=> chunks = <<>>)
      /\ text \in Seq(Tokens) /\ Len(text) \in Nat /\ (Len(text) = 0 => text = <<>>)
  BY <1>1, CutFacts, TextShape, LenProperties, EmptySeq
<1>3. PICK first, last : first = FirstOf(text, chunks) /\ last = LastOf(text, chunks)
  OBVIOUS
<1>4. \A i \in 1 .. n : last[i] = first[i] + Len(chunks[i].tokens) - 1
  BY <1>2, <1>3 DEF LastOf
<1>5. PICK ends \in [0 .. n -> Nat] :
        /\ ends[0] = 0 /\ ends[n] = Len(text)
        /\ \A i \in 1 .. n : FromTo(text, overlap, chunks[i], first[i], ends[i - 1], ends[i])
  BY <1>1, <1>3, CutEnds
<1>6. ASSUME NEW i \in 1 .. n
      PROVE  /\ FromTo(text, overlap, chunks[i], first[i], ends[i - 1], ends[i])
             /\ last[i] = ends[i]
  <2>1. PICK chunk, f, e, d, l : /\ chunk = chunks[i] /\ f = first[i] /\ e = ends[i - 1] /\ d = ends[i]
                                 /\ l = Len(chunk.tokens)
    OBVIOUS
  <2>2. FromTo(text, overlap, chunk, f, e, d)
    BY <1>5, <2>1
  <2>3. f \in Nat /\ d \in Nat /\ l = d - f + 1
    BY <2>1, <2>2 DEF FromTo
  <2>4. f + l - 1 = d
    BY <2>3
  <2> QED
    BY <1>4, <2>1, <2>2, <2>4
<1>7. ASSUME NEW i \in DOMAIN chunks
      PROVE  /\ first[i] > 0 /\ last[i] <= Len(text)
             /\ chunks[i].tokens = SubSeq(text, first[i], last[i])
  <2>1. PICK f, e, d : f = first[i] /\ e = ends[i - 1] /\ d = ends[i]
    OBVIOUS
  <2>2. FromTo(text, overlap, chunks[i], f, e, d) /\ last[i] = d
    BY <1>2, <1>6, <2>1
  <2>3. f > 0 /\ d <= Len(text) /\ chunks[i].tokens = SubSeq(text, f, d)
    BY <2>2 DEF FromTo
  <2> QED
    BY <2>1, <2>2, <2>3
<1>8. ASSUME NEW i \in DOMAIN chunks \ {1}
      PROVE  /\ last[i - 1] < last[i]
             /\ first[i] \in last[i - 1] + 1 - overlap .. last[i - 1] + 1
  <2>1. i \in 1 .. n /\ i - 1 \in 1 .. n
    BY <1>2
  <2>2. last[i] = ends[i] /\ last[i - 1] = ends[i - 1]
    BY <1>6, <2>1
  <2> QED
    BY <1>6, <2>1, <2>2 DEF FromTo
<1>9. ASSUME chunks # <<>>
      PROVE  first[1] = 1 /\ last[n] = Len(text)
  <2>1. 1 \in 1 .. n /\ n \in 1 .. n /\ 1 - 1 = 0
    BY <1>2, <1>9
  <2>2. FromTo(text, overlap, chunks[1], first[1], 0, ends[1])
    BY <1>5, <1>6, <2>1
  <2>3. first[1] = 1
    BY <1>2, <2>2 DEF FromTo
  <2>4. last[n] = ends[n]
    BY <1>6, <2>1
  <2> QED
    BY <1>5, <2>3, <2>4
<1>10. chunks = <<>> => text = <<>>
  BY <1>2, <1>5
<1>11. Covered(text, chunks, overlap, first, last)
  BY <1>1, <1>7, <1>8, <1>9, <1>10 DEF Covered
<1> QED
  BY <1>1, <1>3, <1>11

(* No token of a text is lost, moved or found in a chunk it is not in.      *)
THEOREM ChunksCoverEveryText == TextSpec => []ChunksCoverTheText
<1>1. AllCut => ChunksCoverTheText
  <2>1. SUFFICES ASSUME AllCut
                 PROVE  \A b \in built :
                          Covered(Text(b.doc), b.chunks, b.overlap,
                                  FirstOf(Text(b.doc), b.chunks), LastOf(Text(b.doc), b.chunks))
    BY Zenon DEF ChunksCoverTheText, Covered, FirstOf, LastOf, Where
  <2> QED
    BY <2>1, CutCovers DEF AllCut
<1> QED
  BY <1>1, TextIsCut, PTL

LEMMA CutIsPlaced ==
  ASSUME NEW b, Cut(b), NEW chunk \in Range(b.chunks), NEW token \in Range(chunk.tokens),
         NEW i, i = LineOf(b.doc, token)
  PROVE  IF b.doc.type = "pdf" THEN chunk.page = i ELSE chunk.section = SectionOf(b.doc, i)
<1>1. PICK doc : doc = b.doc
  OBVIOUS
<1>2. doc \in Documents /\ AllPlaced(doc, b.chunks)
  BY <1>1, CutFacts
<1>3. TokenAt(doc, token, chunk)
  BY <1>2 DEF AllPlaced, Range
<1>4. PICK k \in DOMAIN doc.lines :
        /\ token \in Range(LineText(doc.lines[k]))
        /\ IF doc.type = "pdf" THEN chunk.page = k ELSE chunk.section = SectionOf(doc, k)
  BY <1>3 DEF TokenAt
<1>5. i = k
  BY <1>1, <1>2, <1>4, LineOfToken
<1> QED
  BY <1>1, <1>4, <1>5

(* What a citation says of the place of a chunk is so for all of its text.  *)
THEOREM ChunksTellTheirPlace == TextSpec => []ChunksKeepTheirPlace
<1>1. AllCut => ChunksKeepTheirPlace
  <2>1. SUFFICES ASSUME AllCut, NEW b \in built, NEW chunk \in Range(b.chunks), NEW token \in Range(chunk.tokens),
                        NEW i, i = LineOf(b.doc, token)
                 PROVE  IF b.doc.type = "pdf" THEN chunk.page = i ELSE chunk.section = SectionOf(b.doc, i)
    BY DEF ChunksKeepTheirPlace
  <2>2. Cut(b)
    BY <2>1 DEF AllCut
  <2> QED
    BY <2>1, <2>2, CutIsPlaced
<1> QED
  BY <1>1, TextIsCut, PTL

-----------------------------------------------------------------------------
(* The queue on RabbitMQ. *)

(* Publishing one copy, and removing one that is there, keep a queue a bag. *)
LEMMA PutTake ==
  ASSUME NEW q \in [Message -> Nat], NEW m \in Message
  PROVE  /\ Put(q, m) \in [Message -> Nat]
         /\ Put(q, m)[m] = q[m] + 1
         /\ \A k \in Message : k # m => Put(q, m)[k] = q[k]
         /\ q[m] > 0 => Take(q, m) \in [Message -> Nat]
         /\ Take(q, m)[m] = q[m] - 1
         /\ \A k \in Message : k # m => Take(q, m)[k] = q[k]
  BY DEF Put, Take

(* A worker that is not idle holds a message. *)
LEMMA Busy ==
  ASSUME TypeOK, NEW w \in Workers, phase[w] # "idle"
  PROVE  /\ msg[w] \in Message
         /\ msg[w].job \in Jobs
         /\ msg[w].retry \in 0 .. MaxRetries
  BY NoMessageAssumption DEF TypeOK, Message

(* The copy PublishRetry queues is a message of the same job. *)
LEMMA NextCopy ==
  ASSUME NEW m \in Message, CanRetry(m)
  PROVE  /\ RetryCopy(m) \in Message
         /\ RetryCopy(m).job = m.job
         /\ RetryCopy(m).retry = m.retry + 1
  BY RetriesAssumption DEF Message, CanRetry, RetryCopy

LEMMA TypeInit == Init => TypeOK
  BY BoundsAssumption DEF Init, TypeOK, Phases

(* What Init and the steps keep: every variable has its type and a worker   *)
(* holds a message exactly while it is busy.                               *)
LEMMA TypeStep == TypeOK /\ [Next]_vars => TypeOK'
<1> SUFFICES ASSUME TypeOK, [Next]_vars PROVE TypeOK'
  OBVIOUS
<1> USE BoundsAssumption, NoMessageAssumption
<1>1. ASSUME NEW j \in Jobs, Offer(j) PROVE TypeOK'
  <2>1. CASE Enqueue(j)
    <3>1. FirstCopy(j) \in Message
      BY RetriesAssumption DEF FirstCopy, Message
    <3>2. main' \in [Message -> Nat]
      BY <2>1, <3>1, PutTake DEF Enqueue, TypeOK
    <3>3. QED
      BY <2>1, <3>2 DEF Enqueue, TypeOK, consumer
  <2>2. CASE EnqueueFails(j)
    BY <2>2 DEF EnqueueFails, TypeOK, broker, consumer, ledger
  <2>3. CASE EnqueueLost(j)
    BY <2>3 DEF EnqueueLost, TypeOK, broker, consumer
  <2>4. QED
    BY <1>1, <2>1, <2>2, <2>3 DEF Offer
<1>2. ASSUME NEW w \in Workers, Consume(w) PROVE TypeOK'
  <2>1. ASSUME NEW m \in Message, Deliver(w, m) PROVE TypeOK'
    <3>1. main' \in [Message -> Nat]
      BY <2>1, PutTake DEF Deliver, TypeOK
    <3>2. QED
      BY <2>1, <3>1 DEF Deliver, TypeOK, Phases, ledger
  <2>2. CASE HandlerOk(w)
    BY <2>2, Busy DEF HandlerOk, TypeOK, Phases, broker
  <2>3. CASE HandlerErr(w)
    BY <2>3, Busy DEF HandlerErr, TypeOK, Phases, broker
  <2>4. CASE PublishRetry(w)
    <3>1. retryq' \in [Message -> Nat]
      BY <2>4, Busy, NextCopy, PutTake DEF PublishRetry, TypeOK
    <3>2. QED
      BY <2>4, <3>1 DEF PublishRetry, TypeOK, Phases, ledger
  <2>5. CASE PublishDLQ(w)
    <3>1. dlq' \in [Message -> Nat]
      BY <2>5, Busy, PutTake DEF PublishDLQ, TypeOK
    <3>2. QED
      BY <2>5, <3>1 DEF PublishDLQ, TypeOK, Phases, ledger
  <2>6. CASE Ack(w)
    BY <2>6 DEF Ack, BackToIdle, TypeOK, Phases, broker, ledger
  <2>7. CASE GiveUp(w)
    BY <2>7 DEF GiveUp, BackToIdle, TypeOK, Phases, broker, ledger
  <2>8. QED
    BY <1>2, <2>1, <2>2, <2>3, <2>4, <2>5, <2>6, <2>7 DEF Consume
<1>3. ASSUME NEW w \in Workers, Disrupt(w) PROVE TypeOK'
  <2>1. CASE PublishFails(w)
    <3>1. main' \in [Message -> Nat]
      BY <2>1, Busy, PutTake DEF PublishFails, TypeOK
    <3>2. QED
      BY <2>1, <3>1 DEF PublishFails, BackToIdle, TypeOK, Phases, ledger
  <2>2. CASE Crash(w)
    <3>1. main' \in [Message -> Nat]
      BY <2>2, Busy, PutTake DEF Crash, Requeued, TypeOK
    <3>2. QED
      BY <2>2, <3>1 DEF Crash, BackToIdle, TypeOK, Phases, ledger
  <2>3. CASE ConnectionLost(w)
    <3>1. main' \in [Message -> Nat]
      BY <2>3, Busy, PutTake DEF ConnectionLost, Requeued, TypeOK
    <3>2. QED
      BY <2>3, <3>1 DEF ConnectionLost, TypeOK, ledger
  <2>4. CASE Restart(w)
    BY <2>4 DEF Restart, TypeOK, broker, ledger
  <2>5. QED
    BY <1>3, <2>1, <2>2, <2>3, <2>4 DEF Disrupt
<1>4. ASSUME NEW m \in Message, Expire(m) PROVE TypeOK'
  <2>1. main' \in [Message -> Nat] /\ retryq' \in [Message -> Nat]
    BY <1>4, PutTake DEF Expire, TypeOK
  <2>2. QED
    BY <1>4, <2>1 DEF Expire, TypeOK, consumer, ledger
<1>5. CASE UNCHANGED vars
  BY <1>5 DEF TypeOK, vars
<1>6. QED
  BY <1>1, <1>2, <1>3, <1>4, <1>5 DEF Next

(* Type correctness: queues stay bags, the retry header of a message stays  *)
(* within the budget, and busy workers are exactly those with a message.    *)
THEOREM TypeCorrect == Spec => []TypeOK
<1>1. Init => TypeOK
  BY TypeInit
<1>2. TypeOK /\ [Next]_vars => TypeOK'
  BY TypeStep
<1>3. QED
  BY <1>1, <1>2, PTL DEF Spec

-----------------------------------------------------------------------------
(* Custody: who answers for job j.  NoJobLost says it is never nobody. *)
Kept(j) == j \in handled \/ Parked(j) \/ Waiting(j) \/ InHand(j)

(* Adding a copy to a queue empties no slot and fills its own. *)
LEMMA PutGrows ==
  ASSUME NEW q \in [Message -> Nat], NEW m \in Message
  PROVE  /\ Put(q, m)[m] > 0
         /\ \A k \in Message : q[k] > 0 => Put(q, m)[k] > 0
  BY DEF Put

(* A copy put into main answers for its job. *)
LEMMA MainKeeps ==
  ASSUME TypeOK, NEW m \in Message, main' = Put(main, m), retryq' = retryq,
         NEW j \in Jobs, Waiting(j) \/ j = m.job
  PROVE  Waiting(j)'
  <1>1. main \in [Message -> Nat]
    BY DEF TypeOK
  <1>2. main'[m] > 0 /\ \A k \in Message : main[k] > 0 => main'[k] > 0
    BY <1>1, PutGrows
  <1>3. QED
    BY <1>2 DEF Waiting

(* Custody is inductive: a message leaves a queue for a worker's hands, and *)
(* leaves those only once the job is handled, published again or requeued.  *)
LEMMA CustodyStep == TypeOK /\ NoJobLost /\ [Next]_vars => NoJobLost'
<1> SUFFICES ASSUME TypeOK, NoJobLost, [Next]_vars,
                    NEW j \in accepted' \ unconfirmed'
             PROVE  Kept(j)'
  BY DEF NoJobLost, Kept
<1>a. ASSUME accepted' = accepted, unconfirmed' = unconfirmed
      PROVE  j \in Jobs /\ Kept(j)
  BY <1>a DEF NoJobLost, Kept, TypeOK
<1>b. ASSUME NEW i \in Jobs, Offer(i) PROVE Kept(j)'
  <2>1. CASE Enqueue(i)
    <3>1. FirstCopy(i) \in Message /\ FirstCopy(i).job = i
      BY RetriesAssumption DEF FirstCopy, Message
    <3>2. Waiting(i)' /\ \A k \in Jobs : Waiting(k) => Waiting(k)'
      BY <2>1, <3>1, MainKeeps DEF Enqueue
    <3>3. CASE j = i
      BY <3>2, <3>3 DEF Kept
    <3>4. CASE j # i
      <4>1. j \in Jobs /\ Kept(j)
        BY <2>1, <3>4 DEF Enqueue, NoJobLost, Kept, TypeOK
      <4>2. QED
        BY <2>1, <3>2, <4>1 DEF Enqueue, Kept, Parked, InHand, consumer
    <3>5. QED
      BY <3>3, <3>4
  <2>2. CASE EnqueueFails(i)
    BY <2>2, <1>a DEF EnqueueFails, Kept, Parked, Waiting, InHand, broker, consumer, ledger
  <2>3. CASE EnqueueLost(i)
    <3>1. Kept(j)
      BY <2>3 DEF EnqueueLost, NoJobLost, Kept
    <3>2. QED
      BY <2>3, <3>1 DEF EnqueueLost, Kept, Parked, Waiting, InHand, broker, consumer
  <2>4. QED
    BY <1>b, <2>1, <2>2, <2>3 DEF Offer
<1>c. ASSUME NEW w \in Workers, Consume(w) PROVE Kept(j)'
  <2>1. ASSUME NEW m \in Message, Deliver(w, m) PROVE Kept(j)'
    <3>1. j \in Jobs /\ Kept(j)
      BY <2>1, <1>a DEF Deliver, ledger
    <3>2. \A k \in Message : k # m /\ main[k] > 0 => main'[k] > 0
      BY <2>1, PutTake DEF Deliver, TypeOK
    <3>3. m.job = j => InHand(j)'
      BY <2>1 DEF Deliver, InHand, TypeOK
    <3>4. m.job # j /\ Waiting(j) => Waiting(j)'
      BY <2>1, <3>2 DEF Deliver, Waiting
    <3>5. InHand(j) => InHand(j)'
      BY <2>1 DEF Deliver, InHand, TypeOK
    <3>6. QED
      BY <2>1, <3>1, <3>3, <3>4, <3>5 DEF Deliver, Kept, Parked, ledger
  <2>2. CASE HandlerOk(w)
    <3>1. j \in Jobs /\ Kept(j)
      BY <2>2, <1>a DEF HandlerOk
    <3>2. InHand(j) => InHand(j)' \/ j \in handled'
      BY <2>2 DEF HandlerOk, InHand, TypeOK
    <3>3. QED
      BY <2>2, <3>1, <3>2 DEF HandlerOk, Kept, Parked, Waiting, broker
  <2>3. CASE HandlerErr(w)
    <3>1. j \in Jobs /\ Kept(j)
      BY <2>3, <1>a DEF HandlerErr
    <3>2. InHand(j) => InHand(j)'
      BY <2>3 DEF HandlerErr, InHand, TypeOK
    <3>3. QED
      BY <2>3, <3>1, <3>2 DEF HandlerErr, Kept, Parked, Waiting, broker
  <2>4. CASE PublishRetry(w)
    <3>1. j \in Jobs /\ Kept(j)
      BY <2>4, <1>a DEF PublishRetry, ledger
    <3>2. /\ RetryCopy(msg[w]) \in Message
          /\ RetryCopy(msg[w]).job = msg[w].job
      BY <2>4, Busy, NextCopy DEF PublishRetry
    <3>3. /\ Put(retryq, RetryCopy(msg[w]))[RetryCopy(msg[w])] > 0
          /\ \A k \in Message : retryq[k] > 0 => Put(retryq, RetryCopy(msg[w]))[k] > 0
      BY <3>2, PutGrows DEF TypeOK
    <3>4. Waiting(j) => Waiting(j)'
      BY <2>4, <3>3 DEF PublishRetry, Waiting
    <3>5. InHand(j) => InHand(j)' \/ Waiting(j)'
      BY <2>4, <3>2, <3>3 DEF PublishRetry, InHand, Waiting, TypeOK
    <3>6. QED
      BY <2>4, <3>1, <3>4, <3>5 DEF PublishRetry, Kept, Parked, ledger
  <2>5. CASE PublishDLQ(w)
    <3>1. j \in Jobs /\ Kept(j)
      BY <2>5, <1>a DEF PublishDLQ, ledger
    <3>2. msg[w] \in Message
      BY <2>5, Busy DEF PublishDLQ
    <3>3. /\ Put(dlq, msg[w])[msg[w]] > 0
          /\ \A k \in Message : dlq[k] > 0 => Put(dlq, msg[w])[k] > 0
      BY <3>2, PutGrows DEF TypeOK
    <3>4. Parked(j) => Parked(j)'
      BY <2>5, <3>3 DEF PublishDLQ, Parked
    <3>5. InHand(j) => InHand(j)' \/ Parked(j)'
      BY <2>5, <3>2, <3>3 DEF PublishDLQ, InHand, Parked, TypeOK
    <3>6. QED
      BY <2>5, <3>1, <3>4, <3>5 DEF PublishDLQ, Kept, Waiting, ledger
  <2>6. CASE Ack(w)
    <3>1. j \in Jobs /\ Kept(j)
      BY <2>6, <1>a DEF Ack, ledger
    <3>2. InHand(j) => InHand(j)'
      BY <2>6 DEF Ack, BackToIdle, InHand, TypeOK
    <3>3. QED
      BY <2>6, <3>1, <3>2 DEF Ack, Kept, Parked, Waiting, broker, ledger
  <2>7. CASE GiveUp(w)
    <3>1. j \in Jobs /\ Kept(j)
      BY <2>7, <1>a DEF GiveUp, ledger
    <3>2. InHand(j) => InHand(j)'
      BY <2>7 DEF GiveUp, BackToIdle, InHand, TypeOK
    <3>3. QED
      BY <2>7, <3>1, <3>2 DEF GiveUp, Kept, Parked, Waiting, broker, ledger
  <2>8. QED
    BY <1>c, <2>1, <2>2, <2>3, <2>4, <2>5, <2>6, <2>7 DEF Consume
<1>d. ASSUME NEW w \in Workers, Disrupt(w) PROVE Kept(j)'
  <2>0. j \in Jobs /\ Kept(j)
    BY <1>d, <1>a DEF Disrupt, PublishFails, Crash, ConnectionLost, Restart, ledger
  <2>1. CASE PublishFails(w)
    <3>0. PICK m \in Message : m = msg[w]
      BY <2>1, Busy DEF PublishFails
    <3>1. Waiting(j) \/ j = m.job => Waiting(j)'
      BY <2>0, <2>1, <3>0, MainKeeps DEF PublishFails
    <3>2. InHand(j) => InHand(j)' \/ j = m.job
      BY <2>1, <3>0 DEF PublishFails, BackToIdle, InHand, TypeOK
    <3>3. QED
      BY <2>0, <2>1, <3>1, <3>2 DEF PublishFails, Kept, Parked, ledger
  <2>2. CASE Crash(w)
    <3>1. CASE link[w] = "up"
      <4>0. PICK m \in Message : m = msg[w]
        BY <2>2, Busy DEF Crash
      <4>1. Waiting(j) \/ j = m.job => Waiting(j)'
        BY <2>0, <2>2, <3>1, <4>0, MainKeeps DEF Crash, Requeued
      <4>2. InHand(j) => InHand(j)' \/ j = m.job
        BY <2>2, <4>0 DEF Crash, BackToIdle, InHand, TypeOK
      <4>3. QED
        BY <2>0, <2>2, <4>1, <4>2 DEF Crash, Kept, Parked, ledger
    <3>2. CASE link[w] # "up"
      <4>1. InHand(j) => InHand(j)'
        BY <2>2, <3>2 DEF Crash, BackToIdle, InHand, TypeOK
      <4>2. QED
        BY <2>0, <2>2, <3>2, <4>1 DEF Crash, Kept, Parked, Waiting, ledger
    <3>3. QED
      BY <3>1, <3>2
  <2>3. CASE ConnectionLost(w)
    <3>1. CASE phase[w] = "idle"
      <4>1. InHand(j) => InHand(j)'
        BY <2>3, <3>1 DEF ConnectionLost, InHand, TypeOK
      <4>2. QED
        BY <2>0, <2>3, <3>1, <4>1 DEF ConnectionLost, Requeued, Kept, Parked, Waiting, ledger
    <3>2. CASE phase[w] # "idle"
      <4>0. PICK m \in Message : m = msg[w]
        BY <3>2, Busy
      <4>1. Waiting(j) \/ j = m.job => Waiting(j)'
        BY <2>0, <2>3, <3>2, <4>0, MainKeeps DEF ConnectionLost, Requeued
      <4>2. InHand(j) => InHand(j)' \/ j = m.job
        BY <2>3, <4>0 DEF ConnectionLost, InHand, TypeOK
      <4>3. QED
        BY <2>0, <2>3, <4>1, <4>2 DEF ConnectionLost, Kept, Parked, ledger
    <3>3. QED
      BY <3>1, <3>2
  <2>4. CASE Restart(w)
    <3>1. InHand(j) => InHand(j)'
      BY <2>4 DEF Restart, InHand, TypeOK
    <3>2. QED
      BY <2>0, <2>4, <3>1 DEF Restart, Kept, Parked, Waiting, broker, ledger
  <2>5. QED
    BY <1>d, <2>1, <2>2, <2>3, <2>4 DEF Disrupt
<1>e. ASSUME NEW m \in Message, Expire(m) PROVE Kept(j)'
  <2>1. j \in Jobs /\ Kept(j)
    BY <1>e, <1>a DEF Expire, ledger
  <2>2. /\ main'[m] > 0
        /\ \A k \in Message : main[k] > 0 => main'[k] > 0
        /\ \A k \in Message : k # m /\ retryq[k] > 0 => retryq'[k] > 0
    <3>1. /\ main \in [Message -> Nat] /\ main' = Put(main, m)
          /\ retryq \in [Message -> Nat] /\ retryq' = Take(retryq, m)
      BY <1>e DEF Expire, TypeOK
    <3>2. /\ main'[m] = main[m] + 1
          /\ \A k \in Message : k # m => main'[k] = main[k]
      BY <3>1, PutTake
    <3>3. \A k \in Message : k # m => retryq'[k] = retryq[k]
      BY <3>1, PutTake
    <3>4. QED
      BY <3>1, <3>2, <3>3
  <2>3. Waiting(j) => Waiting(j)'
    BY <2>2 DEF Waiting
  <2>4. QED
    BY <1>e, <2>1, <2>3 DEF Expire, Kept, Parked, InHand, consumer, ledger
<1>f. CASE UNCHANGED vars
  BY <1>f, <1>a DEF vars, Kept, Parked, Waiting, InHand
<1>g. QED
  BY <1>b, <1>c, <1>d, <1>e, <1>f DEF Next

(* No ingestion job is forgotten: in every reachable state an accepted job  *)
(* that reached the broker is handled, parked, waiting or in hand, however  *)
(* many crashes, disconnections, failed publishes and retries came before.  *)
THEOREM NeverForgotten == Spec => []NoJobLost
<1>1. Init => TypeOK /\ NoJobLost
  BY TypeInit DEF Init, NoJobLost
<1>2. TypeOK /\ NoJobLost /\ [Next]_vars => (TypeOK /\ NoJobLost)'
  BY TypeStep, CustodyStep
<1>3. QED
  BY <1>1, <1>2, PTL DEF Spec

-----------------------------------------------------------------------------
(* The strengthening that makes DeadLetterEarned inductive: a copy with     *)
(* retry number r, wherever it is, was paid for by r failed runs of its     *)
(* handler, and by one more while its holder is about to republish it.      *)
RetriesPaid ==
  /\ \A m \in Message : main[m] > 0 => failures[m.job] >= m.retry
  /\ \A m \in Message : retryq[m] > 0 => failures[m.job] >= m.retry
  /\ \A w \in Workers : phase[w] # "idle" => failures[msg[w].job] >= msg[w].retry
  /\ \A w \in Workers : phase[w] = "erred" => failures[msg[w].job] > msg[w].retry
  /\ DeadLetterEarned

(* A queue only grows at the slot a publish names. *)
LEMMA PutOnly ==
  ASSUME NEW q \in [Message -> Nat], NEW m \in Message
  PROVE  \A k \in Message : Put(q, m)[k] > 0 => k = m \/ q[k] > 0
  BY DEF Put

(* Taking a copy fills no slot. *)
LEMMA TakeOnly ==
  ASSUME NEW q \in [Message -> Nat], NEW m \in Message
  PROVE  \A k \in Message : Take(q, m)[k] > 0 => q[k] > 0
  BY DEF Take

LEMMA PaidStep == TypeOK /\ RetriesPaid /\ [Next]_vars => RetriesPaid'
<1> SUFFICES ASSUME TypeOK, RetriesPaid, [Next]_vars PROVE RetriesPaid'
  OBVIOUS
<1>0. /\ main \in [Message -> Nat] /\ retryq \in [Message -> Nat]
      /\ dlq \in [Message -> Nat] /\ failures \in [Jobs -> Nat]
  BY DEF TypeOK
<1>m. \A m \in Message : m.job \in Jobs /\ m.retry \in Nat /\ m.retry <= MaxRetries
  BY RetriesAssumption DEF Message
<1>a. ASSUME NEW j \in Jobs, Offer(j) PROVE RetriesPaid'
  <2>1. CASE Enqueue(j)
    <3>1. FirstCopy(j) \in Message /\ FirstCopy(j).retry = 0
      BY RetriesAssumption DEF FirstCopy, Message
    <3>2. \A m \in Message : main'[m] > 0 => m = FirstCopy(j) \/ main[m] > 0
      BY <1>0, <2>1, <3>1, PutOnly DEF Enqueue
    <3>3. \A m \in Message : main'[m] > 0 => failures[m.job] >= m.retry
      BY <1>0, <1>m, <3>1, <3>2 DEF RetriesPaid
    <3>4. QED
      BY <2>1, <3>3 DEF Enqueue, RetriesPaid, DeadLetterEarned, consumer
  <2>2. CASE EnqueueFails(j)
    BY <2>2 DEF EnqueueFails, RetriesPaid, DeadLetterEarned, broker, consumer, ledger
  <2>3. CASE EnqueueLost(j)
    BY <2>3 DEF EnqueueLost, RetriesPaid, DeadLetterEarned, broker, consumer
  <2>4. QED
    BY <1>a, <2>1, <2>2, <2>3 DEF Offer
<1>b. ASSUME NEW w \in Workers, Consume(w) PROVE RetriesPaid'
  <2>1. ASSUME NEW m \in Message, Deliver(w, m) PROVE RetriesPaid'
    <3>1. \A k \in Message : main'[k] > 0 => main[k] > 0
      BY <1>0, <2>1, TakeOnly DEF Deliver
    <3>2. failures[m.job] >= m.retry
      BY <2>1 DEF Deliver, RetriesPaid
    <3>3. QED
      BY <2>1, <3>1, <3>2 DEF Deliver, RetriesPaid, DeadLetterEarned, TypeOK, ledger
  <2>2. CASE HandlerOk(w)
    BY <2>2 DEF HandlerOk, RetriesPaid, DeadLetterEarned, TypeOK, broker
  <2>3. CASE HandlerErr(w)
    <3>0. /\ msg[w].job \in Jobs /\ msg[w].retry \in Nat
          /\ failures[msg[w].job] >= msg[w].retry
      BY <2>3, <1>m, Busy DEF HandlerErr, RetriesPaid
    <3>1. /\ failures'[msg[w].job] = failures[msg[w].job] + 1
          /\ \A j \in Jobs : failures[j] \in Nat /\ failures'[j] >= failures[j]
          /\ \A j \in Jobs : failures'[j] \in Nat
      BY <1>0, <2>3, <3>0 DEF HandlerErr
    <3>2. \A m \in Message :
            /\ main'[m] > 0 => failures'[m.job] >= m.retry
            /\ retryq'[m] > 0 => failures'[m.job] >= m.retry
            /\ dlq'[m] > 0 => m.retry = MaxRetries /\ failures'[m.job] > MaxRetries
      BY <2>3, <1>m, <3>1, RetriesAssumption DEF HandlerErr, RetriesPaid, DeadLetterEarned, broker
    <3>3. ASSUME NEW v \in Workers, phase'[v] # "idle"
          PROVE  /\ failures'[msg'[v].job] >= msg'[v].retry
                 /\ phase'[v] = "erred" => failures'[msg'[v].job] > msg'[v].retry
      <4>1. phase[v] # "idle" /\ msg'[v] = msg[v]
        BY <2>3, <3>3 DEF HandlerErr, TypeOK
      <4>2. msg[v].job \in Jobs /\ msg[v].retry \in Nat
        BY <4>1, <1>m, Busy
      <4>3. failures[msg[v].job] >= msg[v].retry
        BY <4>1 DEF RetriesPaid
      <4>4. CASE v = w
        BY <3>0, <3>1, <4>1, <4>4
      <4>5. CASE v # w
        <5>1. phase'[v] = phase[v]
          BY <2>3, <4>5 DEF HandlerErr, TypeOK
        <5>2. QED
          BY <3>1, <4>1, <4>2, <4>3, <5>1 DEF RetriesPaid
      <4>6. QED
        BY <4>4, <4>5
    <3>4. QED
      BY <3>2, <3>3 DEF RetriesPaid, DeadLetterEarned
  <2>4. CASE PublishRetry(w)
    <3>1. /\ RetryCopy(msg[w]) \in Message
          /\ RetryCopy(msg[w]).job = msg[w].job
          /\ RetryCopy(msg[w]).retry = msg[w].retry + 1
          /\ msg[w].job \in Jobs /\ msg[w].retry \in Nat
      BY <2>4, <1>m, Busy, NextCopy DEF PublishRetry
    <3>2. failures[msg[w].job] > msg[w].retry
      BY <2>4 DEF PublishRetry, RetriesPaid
    <3>3. \A k \in Message : retryq'[k] > 0 => k = RetryCopy(msg[w]) \/ retryq[k] > 0
      BY <1>0, <2>4, <3>1, PutOnly DEF PublishRetry
    <3>4. \A k \in Message : retryq'[k] > 0 => failures[k.job] >= k.retry
      BY <1>0, <3>1, <3>2, <3>3 DEF RetriesPaid
    <3>5. QED
      BY <2>4, <3>4 DEF PublishRetry, RetriesPaid, DeadLetterEarned, TypeOK, ledger
  <2>5. CASE PublishDLQ(w)
    <3>1. msg[w] \in Message /\ msg[w].retry = MaxRetries
      BY <2>5, <1>m, Busy, RetriesAssumption DEF PublishDLQ, CanRetry
    <3>2. failures[msg[w].job] > msg[w].retry
      BY <2>5 DEF PublishDLQ, RetriesPaid
    <3>3. \A k \in Message : dlq'[k] > 0 => k = msg[w] \/ dlq[k] > 0
      BY <1>0, <2>5, <3>1, PutOnly DEF PublishDLQ
    <3>4. \A k \in Message : dlq'[k] > 0 => k.retry = MaxRetries /\ failures[k.job] > MaxRetries
      BY <3>1, <3>2, <3>3 DEF RetriesPaid, DeadLetterEarned
    <3>5. QED
      BY <2>5, <3>4 DEF PublishDLQ, RetriesPaid, DeadLetterEarned, TypeOK, ledger
  <2>6. CASE Ack(w)
    BY <2>6 DEF Ack, BackToIdle, RetriesPaid, DeadLetterEarned, TypeOK, broker, ledger
  <2>7. CASE GiveUp(w)
    BY <2>7 DEF GiveUp, BackToIdle, RetriesPaid, DeadLetterEarned, TypeOK, broker, ledger
  <2>8. QED
    BY <1>b, <2>1, <2>2, <2>3, <2>4, <2>5, <2>6, <2>7 DEF Consume
<1>c. ASSUME NEW w \in Workers, Disrupt(w) PROVE RetriesPaid'
  <2>0. ASSUME phase[w] # "idle"
        PROVE  \A k \in Message : Put(main, msg[w])[k] > 0 => failures[k.job] >= k.retry
    BY <1>0, <2>0, Busy, PutOnly DEF RetriesPaid
  <2>1. CASE PublishFails(w)
    BY <2>0, <2>1 DEF PublishFails, BackToIdle, RetriesPaid, DeadLetterEarned, TypeOK, ledger
  <2>2. CASE Crash(w)
    <3>1. \A k \in Message : main'[k] > 0 => failures[k.job] >= k.retry
      BY <2>0, <2>2 DEF Crash, Requeued, RetriesPaid
    <3>2. QED
      BY <2>2, <3>1 DEF Crash, BackToIdle, RetriesPaid, DeadLetterEarned, TypeOK, ledger
  <2>3. CASE ConnectionLost(w)
    <3>1. \A k \in Message : main'[k] > 0 => failures[k.job] >= k.retry
      BY <2>0, <2>3 DEF ConnectionLost, Requeued, RetriesPaid
    <3>2. QED
      BY <2>3, <3>1 DEF ConnectionLost, RetriesPaid, DeadLetterEarned, ledger
  <2>4. CASE Restart(w)
    BY <2>4 DEF Restart, RetriesPaid, DeadLetterEarned, broker, ledger
  <2>5. QED
    BY <1>c, <2>1, <2>2, <2>3, <2>4 DEF Disrupt
<1>d. ASSUME NEW m \in Message, Expire(m) PROVE RetriesPaid'
  <2>1. /\ \A k \in Message : main'[k] > 0 => k = m \/ main[k] > 0
        /\ \A k \in Message : retryq'[k] > 0 => retryq[k] > 0
    BY <1>0, <1>d, PutOnly, TakeOnly DEF Expire
  <2>2. \A k \in Message : main'[k] > 0 => failures[k.job] >= k.retry
    BY <1>d, <2>1 DEF Expire, RetriesPaid
  <2>3. QED
    BY <1>d, <2>1, <2>2 DEF Expire, RetriesPaid, DeadLetterEarned, consumer, ledger
<1>e. CASE UNCHANGED vars
  BY <1>e DEF vars, RetriesPaid, DeadLetterEarned
<1>f. QED
  BY <1>a, <1>b, <1>c, <1>d, <1>e DEF Next

(* The dead-letter queue holds only jobs whose retries are spent: crashes,  *)
(* disconnections, redeliveries and failed publishes never use one up.      *)
THEOREM DeadLettersEarned == Spec => []DeadLetterEarned
<1>1. Init => TypeOK /\ RetriesPaid
  BY TypeInit DEF Init, RetriesPaid, DeadLetterEarned
<1>2. TypeOK /\ RetriesPaid /\ [Next]_vars => (TypeOK /\ RetriesPaid)'
  BY TypeStep, PaidStep
<1>3. RetriesPaid => DeadLetterEarned
  BY DEF RetriesPaid
<1>4. QED
  BY <1>1, <1>2, <1>3, PTL DEF Spec

-----------------------------------------------------------------------------
(* The queue implements JobDelivery.  Only jobs the broker received have    *)
(* copies anywhere; with NoJobLost, the status of a job is then decided by  *)
(* whether it was handled and, if not, whether it is parked.                *)
Received == accepted \ unconfirmed
CopiesReceived ==
  /\ unconfirmed \subseteq accepted /\ handled \subseteq Received
  /\ \A m \in Message : main[m] > 0 \/ retryq[m] > 0 \/ dlq[m] > 0 => m.job \in Received
  /\ \A w \in Workers : phase[w] # "idle" => msg[w].job \in Received

LEMMA ReceivedInit == Init => CopiesReceived
BY DEF Init, CopiesReceived

LEMMA ReceivedStep == TypeOK /\ CopiesReceived /\ [Next]_vars => CopiesReceived'
<1> SUFFICES ASSUME TypeOK, CopiesReceived, [Next]_vars PROVE CopiesReceived'
  OBVIOUS
<1>0. /\ main \in [Message -> Nat] /\ retryq \in [Message -> Nat] /\ dlq \in [Message -> Nat]
      /\ phase \in [Workers -> Phases] /\ msg \in [Workers -> Message \cup {NoMessage}]
      /\ unconfirmed \subseteq accepted /\ handled \subseteq Received
      /\ \A m \in Message : main[m] > 0 \/ retryq[m] > 0 \/ dlq[m] > 0 => m.job \in Received
      /\ \A w \in Workers : phase[w] # "idle" => msg[w].job \in Received
  BY DEF TypeOK, CopiesReceived
<1>1. ASSUME NEW j \in Jobs, Offer(j) PROVE CopiesReceived'
  <2>1. CASE Enqueue(j)
    <3>1. FirstCopy(j) \in Message /\ FirstCopy(j).job = j
      BY RetriesAssumption DEF FirstCopy, Message
    <3>2. \A m \in Message : main'[m] > 0 => m = FirstCopy(j) \/ main[m] > 0
      BY <1>0, <2>1, <3>1, PutOnly DEF Enqueue
    <3>3. Received' = Received \cup {j}
      BY <1>0, <2>1 DEF Enqueue, Received
    <3> QED
      BY <1>0, <2>1, <3>1, <3>2, <3>3 DEF Enqueue, CopiesReceived, consumer, Received
  <2>2. CASE EnqueueFails(j)
    BY <1>0, <2>2 DEF EnqueueFails, CopiesReceived, broker, consumer, ledger, Received
  <2>3. CASE EnqueueLost(j)
    <3>1. Received' = Received
      BY <1>0, <2>3 DEF EnqueueLost, Received
    <3> QED
      BY <1>0, <2>3, <3>1 DEF EnqueueLost, CopiesReceived, broker, consumer
  <2> QED
    BY <1>1, <2>1, <2>2, <2>3 DEF Offer
<1>2. ASSUME Received' = Received, unconfirmed' \subseteq accepted', handled' \subseteq Received,
             \A m \in Message : main'[m] > 0 \/ retryq'[m] > 0 \/ dlq'[m] > 0 => m.job \in Received,
             \A w \in Workers : phase'[w] # "idle" => msg'[w].job \in Received
      PROVE  CopiesReceived'
  BY <1>2 DEF CopiesReceived
<1>3. ASSUME NEW w \in Workers, Consume(w) PROVE CopiesReceived'
  <2>1. ASSUME NEW m \in Message, Deliver(w, m) PROVE CopiesReceived'
    <3>1. \A k \in Message : main'[k] > 0 => main[k] > 0
      BY <1>0, <2>1, TakeOnly DEF Deliver
    <3>2. \A x \in Workers : phase'[x] # "idle" => msg'[x].job \in Received
      BY <1>0, <2>1 DEF Deliver
    <3> QED
      BY <1>0, <1>2, <2>1, <3>1, <3>2 DEF Deliver, ledger, Received
  <2>2. CASE HandlerOk(w)
    <3>1. msg[w].job \in Received
      BY <1>0, <2>2 DEF HandlerOk
    <3> QED
      BY <1>0, <1>2, <2>2, <3>1 DEF HandlerOk, broker, Received
  <2>3. CASE HandlerErr(w)
    BY <1>0, <1>2, <2>3 DEF HandlerErr, broker, Received
  <2>4. CASE PublishRetry(w)
    <3>1. RetryCopy(msg[w]) \in Message /\ RetryCopy(msg[w]).job = msg[w].job /\ msg[w].job \in Received
      BY <1>0, <2>4, Busy, NextCopy DEF PublishRetry
    <3>2. \A k \in Message : retryq'[k] > 0 => k = RetryCopy(msg[w]) \/ retryq[k] > 0
      BY <1>0, <2>4, <3>1, PutOnly DEF PublishRetry
    <3> QED
      BY <1>0, <1>2, <2>4, <3>1, <3>2 DEF PublishRetry, ledger, Received
  <2>5. CASE PublishDLQ(w)
    <3>1. msg[w] \in Message /\ msg[w].job \in Received
      BY <1>0, <2>5, Busy DEF PublishDLQ
    <3>2. \A k \in Message : dlq'[k] > 0 => k = msg[w] \/ dlq[k] > 0
      BY <1>0, <2>5, <3>1, PutOnly DEF PublishDLQ
    <3> QED
      BY <1>0, <1>2, <2>5, <3>1, <3>2 DEF PublishDLQ, ledger, Received
  <2>6. CASE Ack(w) \/ GiveUp(w)
    BY <1>0, <1>2, <2>6 DEF Ack, GiveUp, BackToIdle, broker, ledger, Received
  <2> QED
    BY <1>3, <2>1, <2>2, <2>3, <2>4, <2>5, <2>6 DEF Consume
<1>4. ASSUME NEW w \in Workers, Disrupt(w) PROVE CopiesReceived'
  <2>1. phase[w] # "idle" => msg[w] \in Message /\ msg[w].job \in Received
    BY <1>0, Busy
  <2>2. ASSUME phase[w] # "idle", main' = Put(main, msg[w])
        PROVE  \A k \in Message : main'[k] > 0 => k.job \in Received
    BY <1>0, <2>1, <2>2, PutOnly
  <2>3. Received' = Received /\ accepted' = accepted /\ unconfirmed' = unconfirmed /\ handled' = handled
        /\ retryq' = retryq /\ dlq' = dlq
    BY <1>4 DEF Disrupt, PublishFails, Crash, ConnectionLost, Restart, broker, ledger, Received
  <2>4. \A k \in Message : main'[k] > 0 => k.job \in Received
    BY <1>0, <1>4, <2>2 DEF Disrupt, PublishFails, Crash, ConnectionLost, Restart, Requeued, broker
  <2>5. \A x \in Workers : phase'[x] # "idle" => msg'[x].job \in Received
    BY <1>0, <1>4 DEF Disrupt, PublishFails, Crash, ConnectionLost, Restart, BackToIdle
  <2> QED
    BY <1>0, <1>2, <2>3, <2>4, <2>5
<1>5. ASSUME NEW m \in Message, Expire(m) PROVE CopiesReceived'
  <2>1. \A k \in Message : main'[k] > 0 => k = m \/ main[k] > 0
    BY <1>0, <1>5, PutOnly DEF Expire
  <2>2. \A k \in Message : retryq'[k] > 0 => retryq[k] > 0
    BY <1>0, <1>5, TakeOnly DEF Expire
  <2> QED
    BY <1>0, <1>2, <1>5, <2>1, <2>2 DEF Expire, consumer, ledger, Received
<1>6. CASE UNCHANGED vars
  BY <1>0, <1>2, <1>6 DEF vars, Received
<1> QED
  BY <1>1, <1>3, <1>4, <1>5, <1>6 DEF Next

DeliveryInv == TypeOK /\ NoJobLost /\ CopiesReceived

StatusOf(j) ==
  IF j \notin Received THEN "unknown"
  ELSE IF j \in handled THEN "done" ELSE IF Parked(j) THEN "dead" ELSE "pending"

LEMMA StatusIs == DeliveryInv => [j \in Jobs |-> JobStatus(j)] = [j \in Jobs |-> StatusOf(j)]
<1> SUFFICES ASSUME DeliveryInv, NEW j \in Jobs PROVE JobStatus(j) = StatusOf(j)
  OBVIOUS
<1>1. CASE j \in Received
  BY <1>1 DEF DeliveryInv, NoJobLost, Received, JobStatus, StatusOf
<1>2. CASE j \notin Received
  <2>1. j \notin handled /\ ~ Parked(j) /\ ~ Waiting(j) /\ ~ InHand(j)
    BY <1>2 DEF DeliveryInv, CopiesReceived, Parked, Waiting, InHand
  <2> QED
    BY <1>2, <2>1 DEF JobStatus, StatusOf, Received
<1> QED
  BY <1>1, <1>2

(* Three steps change the status of a job, each in the way JobDelivery      *)
(* allows and of one job only.                                              *)
LEMMA StatusStep ==
  ASSUME DeliveryInv, DeliveryInv', [Next]_vars
  PROVE  [Delivery!Next]_[j \in Jobs |-> JobStatus(j)]
<1> DEFINE S == [j \in Jobs |-> StatusOf(j)]
<1>0. /\ [j \in Jobs |-> JobStatus(j)] = S /\ [j \in Jobs |-> JobStatus(j)]' = S'
  <2>1. (DeliveryInv => [j \in Jobs |-> JobStatus(j)] = S)'
    BY StatusIs, PTL
  <2> QED
    BY <2>1, StatusIs
<1>1. /\ dlq \in [Message -> Nat] /\ unconfirmed \subseteq accepted /\ handled \subseteq Received
      /\ \A j \in Jobs : Parked(j) => j \in Received
  BY DEF DeliveryInv, TypeOK, CopiesReceived, Parked
<1>2. ASSUME Received' = Received, handled' = handled, dlq' = dlq PROVE S' = S
  BY <1>2 DEF StatusOf, Parked
<1>3. ASSUME NEW i \in Jobs, Offer(i) PROVE S' = S \/ Delivery!Accept(i)
  <2>1. CASE Enqueue(i)
    <3>1. Received' = Received \cup {i} /\ i \notin Received /\ handled' = handled /\ dlq' = dlq
      BY <1>1, <2>1 DEF Enqueue, Received
    <3>2. S[i] = "unknown" /\ S' = [S EXCEPT ![i] = "pending"]
      BY <1>1, <3>1 DEF StatusOf, Parked
    <3> QED
      BY <1>0, <3>2 DEF Delivery!Accept
  <2>2. CASE EnqueueFails(i) \/ EnqueueLost(i)
    BY <1>1, <1>2, <2>2 DEF EnqueueFails, EnqueueLost, Received, broker, ledger
  <2> QED
    BY <1>3, <2>1, <2>2 DEF Offer
<1>4. ASSUME NEW w \in Workers, HandlerOk(w) PROVE S' = S \/ Delivery!Complete(msg[w].job)
  <2>1. PICK i \in Jobs : i = msg[w].job /\ i \in Received
    BY <1>4, Busy DEF HandlerOk, DeliveryInv, CopiesReceived
  <2>2. Received' = Received /\ handled' = handled \cup {i} /\ dlq' = dlq
    BY <1>4, <2>1 DEF HandlerOk, Received, broker
  <2>3. CASE i \in handled
    BY <1>2, <2>2, <2>3
  <2>4. CASE i \notin handled
    <3>1. S[i] \in {"pending", "dead"} /\ S' = [S EXCEPT ![i] = "done"]
      BY <2>1, <2>2, <2>4 DEF StatusOf, Parked
    <3> QED
      BY <1>0, <2>1, <3>1 DEF Delivery!Complete
  <2> QED
    BY <2>3, <2>4
<1>5. ASSUME NEW w \in Workers, PublishDLQ(w) PROVE S' = S \/ Delivery!DeadLetter(msg[w].job)
  <2>1. PICK i \in Jobs : i = msg[w].job /\ i \in Received /\ msg[w] \in Message
    BY <1>5, Busy DEF PublishDLQ, DeliveryInv, CopiesReceived
  <2>2. Received' = Received /\ handled' = handled /\ dlq' = Put(dlq, msg[w])
    BY <1>5 DEF PublishDLQ, Received, ledger
  <2>3. Parked(i)' /\ \A j \in Jobs \ {i} : Parked(j)' <=> Parked(j)
    <3>1. dlq'[msg[w]] > 0 /\ \A k \in Message \ {msg[w]} : dlq'[k] = dlq[k]
      BY <1>1, <2>1, <2>2, PutTake
    <3> QED
      BY <2>1, <3>1 DEF Parked
  <2>4. CASE i \in handled \/ Parked(i)
    BY <2>1, <2>2, <2>3, <2>4 DEF StatusOf
  <2>5. CASE i \notin handled /\ ~ Parked(i)
    <3>1. S[i] = "pending" /\ S' = [S EXCEPT ![i] = "dead"]
      BY <2>1, <2>2, <2>3, <2>5 DEF StatusOf
    <3> QED
      BY <1>0, <2>1, <3>1 DEF Delivery!DeadLetter
  <2> QED
    BY <2>4, <2>5
<1>6. ASSUME NEW w \in Workers, Consume(w), ~ HandlerOk(w), ~ PublishDLQ(w) PROVE S' = S
  <2>1. Received' = Received /\ handled' = handled /\ dlq' = dlq
    BY <1>6 DEF Consume, Deliver, HandlerErr, PublishRetry, Ack, GiveUp, Received, broker, ledger
  <2> QED
    BY <1>2, <2>1
<1>7. ASSUME NEW w \in Workers, Disrupt(w) PROVE S' = S
  <2>1. Received' = Received /\ handled' = handled /\ dlq' = dlq
    BY <1>7 DEF Disrupt, PublishFails, Crash, ConnectionLost, Restart, Received, broker, ledger
  <2> QED
    BY <1>2, <2>1
<1>8. ASSUME NEW m \in Message, Expire(m) PROVE S' = S
  BY <1>2, <1>8 DEF Expire, Received, ledger
<1>9. ASSUME UNCHANGED vars PROVE S' = S
  BY <1>2, <1>9 DEF vars, Received
<1>10. \A w \in Workers : phase[w] # "idle" => msg[w].job \in Jobs
  BY Busy DEF DeliveryInv
<1> HIDE DEF S
<1> QED
  BY <1>0, <1>3, <1>4, <1>5, <1>6, <1>7, <1>8, <1>9, <1>10
     DEF Next, Delivery!Next, Consume, HandlerOk, PublishDLQ

(* Through every crash, lost connection, failed publish, retry and          *)
(* redelivery the queue is what its users take it for: a job, once          *)
(* accepted, is pending until it is done or dead, a dead one can only       *)
(* become done, and nothing undoes a done one.                              *)
THEOREM ImplementsDelivery == Spec => DeliversAtLeastOnce
<1>1. Init => DeliveryInv
  BY TypeInit, ReceivedInit DEF Init, DeliveryInv, NoJobLost
<1>2. DeliveryInv /\ [Next]_vars => DeliveryInv'
  BY TypeStep, CustodyStep, ReceivedStep DEF DeliveryInv
<1>3. Init => Delivery!Init
  BY <1>1, StatusIs DEF Init, Delivery!Init, StatusOf, Received
<1>4. DeliveryInv /\ DeliveryInv' /\ [Next]_vars => [Delivery!Next]_[j \in Jobs |-> JobStatus(j)]
  BY StatusStep
<1> QED
  BY <1>1, <1>2, <1>3, <1>4, PTL DEF Spec, DeliversAtLeastOnce, Delivery!Spec

-----------------------------------------------------------------------------
(* The queue on Redis, which stands in for the one on RabbitMQ: what it     *)
(* keeps besides is in variables of its own.                                *)

CONSTANT Backoffs
VARIABLES backoff, list, failed, timers, asking, offered, resent
Redis == INSTANCE RedisIngestionQueue

RedisTypes ==
  /\ list \in Seq(Message)
  /\ dlq \in [Message -> Nat]
  /\ msg \in [Workers -> Message \cup {NoMessage}]
  /\ \A w \in failed : w \in Workers /\ msg[w] # NoMessage
  /\ timers \in [Workers -> [Message -> Nat]]
  /\ asking \subseteq offered
  /\ handled \in [Jobs -> Nat]
  /\ resent \in [Jobs -> Nat]

(* The places that hold copies of j.                                        *)
Asked(j)   == {<<"asked", k>> : k \in asking \cap {j}}
InList(j)  == {<<"list", i>> : i \in {k \in 1 .. Len(list) : list[k].job = j}}
InHands(j) == {<<"hand", w>> : w \in {v \in Workers : msg[v] # NoMessage /\ msg[v].job = j}}
Timed(j)   == UNION {{<<"timer", w, m, i>> : i \in 1 .. timers[w][m]} : w \in Workers, m \in Redis!Of(j)}
Dead(j)    == UNION {{<<"dlq", m, i>> : i \in 1 .. dlq[m]} : m \in Redis!Of(j)}
Held(j)    == Asked(j) \cup InList(j) \cup InHands(j) \cup Timed(j) \cup Dead(j)

(* The books of j are squared.  One that was never offered has no copy.    *)
Squared(j) ==
  /\ IsFiniteSet(Held(j))
  /\ Cardinality(Held(j)) + handled[j] <= 1 + resent[j]
  /\ j \notin offered => Held(j) = {} /\ handled[j] = 0
RedisInv == RedisTypes /\ \A j \in Jobs : Squared(j)

LEMMA SameMessages == Redis!Message = Message
BY DEF Redis!Message, Message

LEMMA JobsMessages ==
  /\ \A m \in Message : m.job \in Jobs
  /\ \A j : Redis!Of(j) = {m \in Message : m.job = j}
  /\ \A j \in Jobs : Redis!First(j) \in Message /\ Redis!First(j).job = j
  /\ \A m \in Message : Redis!CanRetry(m) =>
       Redis!RetryCopy(m) \in Message /\ Redis!RetryCopy(m).job = m.job
<1>1. \A m \in Message : m.job \in Jobs
  BY DEF Message
<1>2. \A j : Redis!Of(j) = {m \in Message : m.job = j}
  BY SameMessages DEF Redis!Of
<1>3. \A j \in Jobs : Redis!First(j) \in Message /\ Redis!First(j).job = j
  BY RetriesAssumption DEF Message, Redis!First
<1>4. \A m \in Message : Redis!CanRetry(m) =>
        Redis!RetryCopy(m) \in Message /\ Redis!RetryCopy(m).job = m.job
  BY RetriesAssumption DEF Message, Redis!CanRetry, Redis!RetryCopy
<1> QED
  BY <1>1, <1>2, <1>3, <1>4

(* No two places can have the same copy.                                    *)
LEMMA Tags ==
  ASSUME NEW j
  PROVE  /\ \A c \in Asked(j) : c[1] = "asked"
         /\ \A c \in InList(j) : c[1] = "list"
         /\ \A c \in InHands(j) : c[1] = "hand"
         /\ \A c \in Timed(j) : c[1] = "timer"
         /\ \A c \in Dead(j) : c[1] = "dlq"
<1>1. \A c \in Asked(j) : c[1] = "asked"
  BY DEF Asked
<1>2. \A c \in InList(j) : c[1] = "list"
  BY DEF InList
<1>3. \A c \in InHands(j) : c[1] = "hand"
  BY DEF InHands
<1>4. ASSUME NEW c \in Timed(j) PROVE c[1] = "timer"
  <2>1. PICK w \in Workers, m \in Redis!Of(j) : c \in {<<"timer", w, m, i>> : i \in 1 .. timers[w][m]}
    BY DEF Timed
  <2> QED
    BY <2>1
<1>5. ASSUME NEW c \in Dead(j) PROVE c[1] = "dlq"
  <2>1. PICK m \in Redis!Of(j) : c \in {<<"dlq", m, i>> : i \in 1 .. dlq[m]}
    BY DEF Dead
  <2> QED
    BY <2>1
<1> QED
  BY <1>1, <1>2, <1>3, <1>4, <1>5

-----------------------------------------------------------------------------
(* What a statement does to each place.                                     *)

LEMMA Pushed ==
  ASSUME NEW m \in Message, list \in Seq(Message), list' = Append(list, m)
  PROVE  /\ list' \in Seq(Message)
         /\ InList(m.job)' \subseteq InList(m.job) \cup {<<"list", Len(list) + 1>>}
         /\ \A k : k # m.job => InList(k)' = InList(k)
<1>1. /\ list' \in Seq(Message) /\ Len(list') = Len(list) + 1 /\ Len(list) \in Nat
      /\ list'[Len(list) + 1] = m /\ \A i \in 1 .. Len(list) : list'[i] = list[i]
  OBVIOUS
<1>2. \A i : i \in 1 .. Len(list') <=> i \in 1 .. Len(list) \/ i = Len(list) + 1
  BY <1>1
<1>3. ~ (Len(list) + 1 \in 1 .. Len(list))
  BY <1>1
<1> DEFINE At(k)  == {i \in 1 .. Len(list) : list[i].job = k}
           New(k) == {i \in 1 .. Len(list') : list'[i].job = k}
<1>4. New(m.job) = At(m.job) \cup {Len(list) + 1} /\ \A k : k # m.job => New(k) = At(k)
  BY <1>1, <1>2, <1>3
<1>5. \A k : InList(k) = {<<"list", i>> : i \in At(k)} /\ InList(k)' = {<<"list", i>> : i \in New(k)}
  BY DEF InList
<1> HIDE DEF At, New
<1> QED
  BY <1>1, <1>4, <1>5

LEMMA Popped ==
  ASSUME list \in Seq(Message), list # <<>>, list' = SubSeq(list, 1, Len(list) - 1)
  PROVE  /\ list' \in Seq(Message) /\ list[Len(list)] \in Message
         /\ <<"list", Len(list)>> \in InList(list[Len(list)].job)
         /\ \A k : InList(k)' \subseteq InList(k) \ {<<"list", Len(list)>>}
<1> DEFINE n == Len(list)
<1>1. n \in Nat /\ n >= 1 /\ list[n] \in Message
  OBVIOUS
<1>2. list' \in Seq(Message) /\ Len(list') = n - 1 /\ \A i \in 1 .. (n - 1) : list'[i] = list[i]
  <2>1. \A i \in 1 .. (n - 1) : list[i] \in Message
    OBVIOUS
  <2>2. list' = [i \in 1 .. (n - 1) |-> list[i]]
    BY <1>1
  <2>3. n - 1 \in Nat
    BY <1>1
  <2> HIDE DEF n
  <2> QED
    BY <2>1, <2>2, <2>3
<1> HIDE DEF n
<1>3. \A i : i \in 1 .. (n - 1) <=> i \in 1 .. n /\ i # n
  BY <1>1
<1>4. n \in 1 .. n
  BY <1>1
<1>5. <<"list", n>> \in InList(list[n].job)
  BY <1>4 DEF InList, n
<1>6. ASSUME NEW k, NEW c \in InList(k)' PROVE c \in InList(k) /\ c # <<"list", n>>
  <2>1. PICK i \in 1 .. Len(list') : list'[i].job = k /\ c = <<"list", i>>
    BY DEF InList
  <2>2. i \in 1 .. n /\ i # n /\ list[i].job = k
    BY <1>2, <1>3, <2>1
  <2> QED
    BY <2>1, <2>2 DEF InList, n
<1> QED
  BY <1>1, <1>2, <1>5, <1>6 DEF n

LEMMA LetsGo ==
  ASSUME RedisTypes, NEW w \in Workers, msg[w] # NoMessage, Redis!LetGo(w)
  PROVE  /\ msg' \in [Workers -> Message \cup {NoMessage}]
         /\ \A v \in failed' : v \in Workers /\ msg'[v] # NoMessage
         /\ msg[w] \in Message
         /\ <<"hand", w>> \in InHands(msg[w].job)
         /\ \A k : InHands(k)' \subseteq InHands(k) \ {<<"hand", w>>}
<1>1. msg' = [msg EXCEPT ![w] = NoMessage] /\ failed' = failed \ {w}
  BY DEF Redis!LetGo
<1>2. /\ msg' \in [Workers -> Message \cup {NoMessage}] /\ msg[w] \in Message
      /\ \A v \in Workers : msg'[v] = IF v = w THEN NoMessage ELSE msg[v]
  BY <1>1 DEF RedisTypes
<1>3. \A v \in failed' : v \in Workers /\ msg'[v] # NoMessage
  BY <1>1, <1>2 DEF RedisTypes
<1>4. <<"hand", w>> \in InHands(msg[w].job)
  BY DEF InHands
<1>5. ASSUME NEW k, NEW c \in InHands(k)' PROVE c \in InHands(k) /\ c # <<"hand", w>>
  <2>1. PICK v \in Workers : msg'[v] # NoMessage /\ msg'[v].job = k /\ c = <<"hand", v>>
    BY DEF InHands
  <2>2. v # w /\ msg[v] = msg'[v]
    BY <1>2, <2>1
  <2> QED
    BY <2>1, <2>2 DEF InHands
<1> QED
  BY <1>2, <1>3, <1>4, <1>5

(* A timer more, or a timer less; a dead letter more.                       *)
LEMMA Waits ==
  ASSUME NEW j, NEW c
  PROVE  c \in Timed(j) <=> \E w \in Workers, m \in Message :
           m.job = j /\ \E i \in 1 .. timers[w][m] : c = <<"timer", w, m, i>>
<1>1. c \in Timed(j) <=> \E w \in Workers, m \in Redis!Of(j) :
        c \in {<<"timer", w, m, i>> : i \in 1 .. timers[w][m]}
  <2> DEFINE F(w, m) == {<<"timer", w, m, i>> : i \in 1 .. timers[w][m]}
  <2>1. Timed(j) = UNION {F(w, m) : w \in Workers, m \in Redis!Of(j)}
    BY DEF Timed
  <2> HIDE DEF F
  <2>2. c \in Timed(j) <=> \E w \in Workers, m \in Redis!Of(j) : c \in F(w, m)
    BY <2>1
  <2> QED
    BY <2>2 DEF F
<1> QED
  BY <1>1, JobsMessages

LEMMA WaitsThen ==
  ASSUME NEW j, NEW c
  PROVE  c \in Timed(j)' <=> \E w \in Workers, m \in Message :
           m.job = j /\ \E i \in 1 .. timers'[w][m] : c = <<"timer", w, m, i>>
<1>1. c \in Timed(j)' <=> \E w \in Workers, m \in Redis!Of(j) :
        c \in {<<"timer", w, m, i>> : i \in 1 .. timers'[w][m]}
  <2> DEFINE F(w, m) == {<<"timer", w, m, i>> : i \in 1 .. timers'[w][m]}
  <2>1. Timed(j)' = UNION {F(w, m) : w \in Workers, m \in Redis!Of(j)}
    BY DEF Timed, Redis!Of, Redis!Message
  <2> HIDE DEF F
  <2>2. c \in Timed(j)' <=> \E w \in Workers, m \in Redis!Of(j) : c \in F(w, m)
    BY <2>1
  <2> QED
    BY <2>2 DEF F
<1> QED
  BY <1>1, JobsMessages

LEMMA TimerSet ==
  ASSUME timers \in [Workers -> [Message -> Nat]], NEW w \in Workers, NEW m \in Message,
         timers' = [timers EXCEPT ![w] = Redis!One(@, m)]
  PROVE  /\ timers' \in [Workers -> [Message -> Nat]]
         /\ Timed(m.job)' \subseteq Timed(m.job) \cup {<<"timer", w, m, timers[w][m] + 1>>}
         /\ \A k : k # m.job => Timed(k)' \subseteq Timed(k)
<1>1. timers[w] \in [Message -> Nat] /\ timers[w][m] \in Nat
  OBVIOUS
<1>2. timers' = [timers EXCEPT ![w] = [timers[w] EXCEPT ![m] = timers[w][m] + 1]]
  BY DEF Redis!One
<1>3. [timers[w] EXCEPT ![m] = timers[w][m] + 1] \in [Message -> Nat]
  BY <1>1
<1>4. /\ timers' \in [Workers -> [Message -> Nat]]
      /\ \A v \in Workers : \A n \in Message :
           timers'[v][n] = IF v = w /\ n = m THEN timers[w][m] + 1 ELSE timers[v][n]
  BY <1>1, <1>2, <1>3
<1>5. ASSUME NEW k, NEW c \in Timed(k)'
      PROVE  c \in Timed(k) \/ (k = m.job /\ c = <<"timer", w, m, timers[w][m] + 1>>)
  <2>1. PICK v \in Workers, n \in Message :
          n.job = k /\ \E i \in 1 .. timers'[v][n] : c = <<"timer", v, n, i>>
    BY WaitsThen
  <2>2. PICK i \in 1 .. timers'[v][n] : c = <<"timer", v, n, i>>
    BY <2>1
  <2>3. i \in 1 .. timers[v][n] \/ (v = w /\ n = m /\ i = timers[w][m] + 1)
    BY <1>1, <1>4, <2>2
  <2> QED
    BY <2>1, <2>2, <2>3, Waits
<1> QED
  BY <1>4, <1>5

LEMMA TimerGone ==
  ASSUME timers \in [Workers -> [Message -> Nat]], NEW w \in Workers, NEW m \in Message,
         timers[w][m] > 0, timers' = [timers EXCEPT ![w] = Redis!Less(@, m)]
  PROVE  /\ timers' \in [Workers -> [Message -> Nat]]
         /\ <<"timer", w, m, timers[w][m]>> \in Timed(m.job)
         /\ \A k : Timed(k)' \subseteq Timed(k) \ {<<"timer", w, m, timers[w][m]>>}
<1>1. timers[w] \in [Message -> Nat] /\ timers[w][m] \in Nat /\ timers[w][m] - 1 \in Nat
  OBVIOUS
<1>2. timers' = [timers EXCEPT ![w] = [timers[w] EXCEPT ![m] = timers[w][m] - 1]]
  BY DEF Redis!Less
<1>3. [timers[w] EXCEPT ![m] = timers[w][m] - 1] \in [Message -> Nat]
  BY <1>1
<1>4. /\ timers' \in [Workers -> [Message -> Nat]]
      /\ \A v \in Workers : \A n \in Message :
           timers'[v][n] = IF v = w /\ n = m THEN timers[w][m] - 1 ELSE timers[v][n]
  BY <1>1, <1>2, <1>3
<1>5. timers[w][m] \in 1 .. timers[w][m]
  BY <1>1
<1>6. <<"timer", w, m, timers[w][m]>> \in Timed(m.job)
  BY <1>5, Waits
<1>7. ASSUME NEW k, NEW c \in Timed(k)'
      PROVE  c \in Timed(k) /\ c # <<"timer", w, m, timers[w][m]>>
  <2>1. PICK v \in Workers, n \in Message :
          n.job = k /\ \E i \in 1 .. timers'[v][n] : c = <<"timer", v, n, i>>
    BY WaitsThen
  <2>2. PICK i \in 1 .. timers'[v][n] : c = <<"timer", v, n, i>>
    BY <2>1
  <2>3. i \in 1 .. timers[v][n] /\ (v = w /\ n = m => i # timers[w][m])
    BY <1>1, <1>4, <2>2
  <2> QED
    BY <2>1, <2>2, <2>3, Waits
<1> QED
  BY <1>4, <1>6, <1>7

LEMMA DeadLetter ==
  ASSUME dlq \in [Message -> Nat], NEW m \in Message, dlq' = Redis!One(dlq, m)
  PROVE  /\ dlq' \in [Message -> Nat]
         /\ Dead(m.job)' \subseteq Dead(m.job) \cup {<<"dlq", m, dlq[m] + 1>>}
         /\ \A k : k # m.job => Dead(k)' \subseteq Dead(k)
<1>1. /\ dlq[m] \in Nat /\ dlq' \in [Message -> Nat]
      /\ \A n \in Message : dlq'[n] = IF n = m THEN dlq[m] + 1 ELSE dlq[n]
  BY DEF Redis!One
<1>2. ASSUME NEW k, NEW c \in Dead(k)'
      PROVE  c \in Dead(k) \/ (k = m.job /\ c = <<"dlq", m, dlq[m] + 1>>)
  <2>1. PICK n \in {x \in Message : x.job = k} : c \in {<<"dlq", n, i>> : i \in 1 .. dlq'[n]}
    BY JobsMessages DEF Dead, Redis!Of, Redis!Message
  <2>2. PICK i \in 1 .. dlq'[n] : c = <<"dlq", n, i>>
    BY <2>1
  <2>3. i \in 1 .. dlq[n] \/ (n = m /\ i = dlq[m] + 1)
    BY <1>1, <2>1, <2>2
  <2>4. CASE i \in 1 .. dlq[n]
    <3>1. n \in Redis!Of(k) /\ c \in {<<"dlq", n, x>> : x \in 1 .. dlq[n]}
      BY <2>1, <2>2, <2>4, JobsMessages
    <3> QED
      BY <3>1 DEF Dead
  <2> QED
    BY <2>1, <2>2, <2>3, <2>4
<1> QED
  BY <1>1, <1>2

-----------------------------------------------------------------------------
(* What a step does to the books of a job: it moves a copy or loses some    *)
(* (Moves), makes one and has the push sent again, or ends one in a run.    *)

LEMMA Counting ==
  ASSUME NEW S, IsFiniteSet(S), NEW T, NEW x, NEW y
  PROVE  /\ T \subseteq S => IsFiniteSet(T) /\ Cardinality(T) <= Cardinality(S)
         /\ T \subseteq S \cup {y} => IsFiniteSet(T) /\ Cardinality(T) <= Cardinality(S) + 1
         /\ x \in S /\ T \subseteq S \ {x} => IsFiniteSet(T) /\ Cardinality(T) <= Cardinality(S) - 1
         /\ x \in S /\ T \subseteq (S \ {x}) \cup {y} => IsFiniteSet(T) /\ Cardinality(T) <= Cardinality(S)
         /\ Cardinality(S) \in Nat
<1> DEFINE A == S \cup {y}
           R == S \ {x}
           B == R \cup {y}
<1>1. Cardinality(S) \in Nat
  BY FS_CardinalityType
<1>2. IsFiniteSet(A) /\ Cardinality(A) <= Cardinality(S) + 1
  BY <1>1, FS_AddElement
<1>3. IsFiniteSet(R) /\ (x \in S => Cardinality(R) = Cardinality(S) - 1) /\ Cardinality(R) \in Nat
  <2>1. IsFiniteSet(R) /\ (x \in S => Cardinality(R) = Cardinality(S) - 1)
    BY FS_RemoveElement
  <2> HIDE DEF R
  <2> QED
    BY <2>1, FS_CardinalityType
<1> HIDE DEF A, R
<1>4. IsFiniteSet(B) /\ Cardinality(B) <= Cardinality(R) + 1
  <2>1. IsFiniteSet(B) /\ Cardinality(B) = IF y \in R THEN Cardinality(R) ELSE Cardinality(R) + 1
    BY <1>3, FS_AddElement
  <2> HIDE DEF B
  <2> QED
    BY <1>3, <2>1
<1>5. IsFiniteSet(T) => Cardinality(T) \in Nat
  BY FS_CardinalityType
<1> HIDE DEF B
<1>6. Cardinality(A) \in Nat /\ Cardinality(B) \in Nat
  BY <1>2, <1>4, FS_CardinalityType
<1>7. T \subseteq S => IsFiniteSet(T) /\ Cardinality(T) <= Cardinality(S)
  BY FS_Subset
<1>8. T \subseteq A => IsFiniteSet(T) /\ Cardinality(T) <= Cardinality(S) + 1
  <2>1. SUFFICES ASSUME T \subseteq A PROVE IsFiniteSet(T) /\ Cardinality(T) <= Cardinality(S) + 1
    OBVIOUS
  <2>2. IsFiniteSet(T) /\ Cardinality(T) <= Cardinality(A)
    BY <1>2, <2>1, FS_Subset
  <2> QED
    BY <1>1, <1>2, <1>5, <1>6, <2>2
<1>9. x \in S /\ T \subseteq R => IsFiniteSet(T) /\ Cardinality(T) <= Cardinality(S) - 1
  <2>1. SUFFICES ASSUME x \in S, T \subseteq R PROVE IsFiniteSet(T) /\ Cardinality(T) <= Cardinality(S) - 1
    OBVIOUS
  <2>2. IsFiniteSet(T) /\ Cardinality(T) <= Cardinality(R)
    BY <1>3, <2>1, FS_Subset
  <2> QED
    BY <1>3, <2>1, <2>2
<1>10. x \in S /\ T \subseteq B => IsFiniteSet(T) /\ Cardinality(T) <= Cardinality(S)
  <2>1. SUFFICES ASSUME x \in S, T \subseteq B PROVE IsFiniteSet(T) /\ Cardinality(T) <= Cardinality(S)
    OBVIOUS
  <2>2. IsFiniteSet(T) /\ Cardinality(T) <= Cardinality(B)
    BY <1>4, <2>1, FS_Subset
  <2> QED
    BY <1>1, <1>3, <1>4, <1>5, <1>6, <2>1, <2>2
<1> QED
  BY <1>1, <1>5, <1>7, <1>8, <1>9, <1>10 DEF A, R, B

Moves(j) ==
  /\ \/ Held(j)' \subseteq Held(j)
     \/ \E x \in Held(j) : \E y : Held(j)' \subseteq (Held(j) \ {x}) \cup {y}
  /\ handled'[j] = handled[j] /\ resent'[j] = resent[j]
Again(j) ==
  /\ Held(j) # {}
  /\ \E y : Held(j)' \subseteq Held(j) \cup {y}
  /\ handled'[j] = handled[j] /\ resent'[j] = resent[j] + 1
Done(j) ==
  /\ \E x \in Held(j) : Held(j)' \subseteq Held(j) \ {x}
  /\ handled'[j] = handled[j] + 1 /\ resent'[j] = resent[j]

LEMMA BooksKept ==
  ASSUME RedisTypes, NEW j \in Jobs, Squared(j), offered' = offered,
         Moves(j) \/ Again(j) \/ Done(j)
  PROVE  Squared(j)'
<1> DEFINE n == Cardinality(Held(j))
           k == Cardinality(Held(j)')
<1>1. handled[j] \in Nat /\ resent[j] \in Nat
  BY DEF RedisTypes
<1>2. IsFiniteSet(Held(j)) /\ n \in Nat /\ n + handled[j] <= 1 + resent[j]
  BY FS_CardinalityType DEF Squared
<1>3. /\ IsFiniteSet(Held(j)') /\ k \in Nat /\ handled'[j] \in Nat /\ resent'[j] \in Nat
      /\ k + handled'[j] <= 1 + resent'[j]
  <2>1. CASE Moves(j)
    <3>1. IsFiniteSet(Held(j)') /\ k <= n
      BY <1>2, <2>1, Counting DEF Moves
    <3>2. k \in Nat
      BY <3>1, FS_CardinalityType
    <3> HIDE DEF n, k
    <3> QED
      BY <1>1, <1>2, <2>1, <3>1, <3>2 DEF Moves
  <2>2. CASE Again(j)
    <3>1. IsFiniteSet(Held(j)') /\ k <= n + 1
      BY <1>2, <2>2, Counting DEF Again
    <3>2. k \in Nat
      BY <3>1, FS_CardinalityType
    <3> HIDE DEF n, k
    <3> QED
      BY <1>1, <1>2, <2>2, <3>1, <3>2 DEF Again
  <2>3. CASE Done(j)
    <3>1. IsFiniteSet(Held(j)') /\ k <= n - 1
      BY <1>2, <2>3, Counting DEF Done
    <3>2. k \in Nat
      BY <3>1, FS_CardinalityType
    <3> HIDE DEF n, k
    <3> QED
      BY <1>1, <1>2, <2>3, <3>1, <3>2 DEF Done
  <2> QED
    BY <2>1, <2>2, <2>3
<1>4. ASSUME j \notin offered PROVE Held(j)' = {} /\ handled'[j] = 0
  <2>1. Held(j) = {} /\ handled[j] = 0 /\ n = 0
    BY <1>4, FS_EmptySet DEF Squared
  <2>2. CASE Moves(j)
    BY <2>1, <2>2 DEF Moves
  <2>3. CASE Done(j)
    BY <2>1, <2>3 DEF Done
  <2>4. CASE Again(j)
    BY <2>1, <2>4 DEF Again
  <2> QED
    BY <2>2, <2>3, <2>4
<1> QED
  BY <1>3, <1>4 DEF Squared

LEMMA StepKept ==
  ASSUME RedisInv, RedisTypes', offered' = offered,
         \A k \in Jobs : Moves(k) \/ Again(k) \/ Done(k)
  PROVE  RedisInv'
<1>1. RedisTypes /\ \A k \in Jobs : Squared(k)
  BY DEF RedisInv
<1>2. ASSUME NEW k \in Jobs PROVE Squared(k)'
  BY <1>1, BooksKept
<1> QED
  BY <1>2 DEF RedisInv

(* A place whose variable stays as it is.                                   *)
LEMMA Frames ==
  /\ asking' = asking => \A k : Asked(k)' = Asked(k)
  /\ list' = list => \A k : InList(k)' = InList(k)
  /\ msg' = msg => \A k : InHands(k)' = InHands(k)
  /\ timers' = timers => \A k : Timed(k)' = Timed(k)
  /\ dlq' = dlq => \A k : Dead(k)' = Dead(k)
<1>1. asking' = asking => \A k : Asked(k)' = Asked(k)
  BY DEF Asked
<1>2. list' = list => \A k : InList(k)' = InList(k)
  BY DEF InList
<1>3. msg' = msg => \A k : InHands(k)' = InHands(k)
  BY DEF InHands
<1>4. timers' = timers => \A k : Timed(k)' = Timed(k)
  BY DEF Timed, Redis!Of, Redis!Message
<1>5. dlq' = dlq => \A k : Dead(k)' = Dead(k)
  BY DEF Dead, Redis!Of, Redis!Message
<1> QED
  BY <1>1, <1>2, <1>3, <1>4, <1>5

LEMMA Untouched ==
  ASSUME NEW k, Asked(k)' \subseteq Asked(k), InList(k)' \subseteq InList(k), InHands(k)' \subseteq InHands(k),
         Timed(k)' \subseteq Timed(k), Dead(k)' \subseteq Dead(k),
         handled'[k] = handled[k], resent'[k] = resent[k]
  PROVE  Moves(k)
BY DEF Moves, Held

(* What j has outside the list.                                             *)
Rest(j) == Asked(j) \cup InHands(j) \cup Timed(j) \cup Dead(j)

LEMMA Leaves ==
  ASSUME NEW k, NEW x, x[1] \in {"asked", "hand", "timer"},
         Asked(k)' \subseteq Asked(k), InHands(k)' \subseteq InHands(k),
         Timed(k)' \subseteq Timed(k), Dead(k)' \subseteq Dead(k),
         x[1] = "asked" => x \notin Asked(k)',
         x[1] = "hand" => x \notin InHands(k)',
         x[1] = "timer" => x \notin Timed(k)'
  PROVE  Rest(k)' \subseteq Rest(k) \ {x}
<1>1. x \notin Asked(k)' /\ x \notin InHands(k)' /\ x \notin Timed(k)' /\ x \notin Dead(k)'
  BY Tags
<1> QED
  BY <1>1 DEF Rest

(* RPUSH by whoever holds the copy x: it ends, and x is given up; or it is  *)
(* sent again, and x kept.                                                  *)
LEMMA PushStep ==
  ASSUME RedisTypes, NEW m \in Message, NEW x \in Rest(m.job), x[1] # "list",
         list' = list \/ list' = Append(list, m),
         \/ resent' = resent /\ \A k : Rest(k)' \subseteq Rest(k) \ {x}
         \/ /\ resent' = [resent EXCEPT ![m.job] = @ + 1]
            /\ \A k : Rest(k)' \subseteq Rest(k),
         handled' = handled
  PROVE  /\ list' \in Seq(Message) /\ resent' \in [Jobs -> Nat]
         /\ \A k \in Jobs : Moves(k) \/ Again(k) \/ Done(k)
<1>1. PICK y : /\ list' \in Seq(Message)
               /\ InList(m.job)' \subseteq InList(m.job) \cup {y}
               /\ \A k : k # m.job => InList(k)' = InList(k)
  <2>1. CASE list' = list
    <3>1. list' \in Seq(Message)
      BY <2>1 DEF RedisTypes
    <3> QED
      BY <2>1, <3>1, Frames
  <2>2. CASE list' = Append(list, m)
    BY <2>2, Pushed DEF RedisTypes
  <2> QED
    BY <2>1, <2>2
<1>2. m.job \in Jobs /\ resent \in [Jobs -> Nat]
  BY JobsMessages DEF RedisTypes
<1>3. \A k : Held(k) = Rest(k) \cup InList(k) /\ Held(k)' = Rest(k)' \cup InList(k)'
  BY DEF Held, Rest
<1>4. x \notin InList(m.job)
  BY Tags
<1>5. CASE resent' = resent /\ \A k : Rest(k)' \subseteq Rest(k) \ {x}
  <2>1. Held(m.job)' \subseteq (Held(m.job) \ {x}) \cup {y} /\ x \in Held(m.job)
    BY <1>1, <1>3, <1>4, <1>5
  <2>2. Moves(m.job)
    BY <1>5, <2>1 DEF Moves
  <2>3. ASSUME NEW k, k # m.job PROVE Moves(k)
    <3>1. Held(k)' \subseteq Held(k)
      BY <1>1, <1>3, <1>5, <2>3
    <3> QED
      BY <1>5, <3>1 DEF Moves
  <2> QED
    BY <1>1, <1>2, <1>5, <2>2, <2>3
<1>6. CASE /\ resent' = [resent EXCEPT ![m.job] = @ + 1]
           /\ \A k : Rest(k)' \subseteq Rest(k)
  <2>1. Held(m.job)' \subseteq Held(m.job) \cup {y} /\ x \in Held(m.job)
    BY <1>1, <1>3, <1>6
  <2>2. /\ resent' \in [Jobs -> Nat] /\ resent'[m.job] = resent[m.job] + 1
        /\ \A k \in Jobs : k # m.job => resent'[k] = resent[k]
    BY <1>2, <1>6
  <2>3. Again(m.job)
    BY <2>1, <2>2 DEF Again
  <2>4. ASSUME NEW k \in Jobs, k # m.job PROVE Moves(k)
    <3>1. Held(k)' \subseteq Held(k)
      BY <1>1, <1>3, <1>6, <2>4
    <3> QED
      BY <2>2, <2>4, <3>1 DEF Moves
  <2> QED
    BY <1>1, <2>2, <2>3, <2>4
<1> QED
  BY <1>5, <1>6

-----------------------------------------------------------------------------
LEMMA RedisInit == Redis!Init => RedisInv
<1> SUFFICES ASSUME Redis!Init PROVE RedisInv
  OBVIOUS
<1>1. /\ list = <<>> /\ asking = {} /\ failed = {} /\ offered = {}
      /\ msg = [w \in Workers |-> NoMessage]
      /\ dlq = [m \in Message |-> 0] /\ timers = [w \in Workers |-> [m \in Message |-> 0]]
      /\ handled = [j \in Jobs |-> 0] /\ resent = [j \in Jobs |-> 0]
  BY SameMessages DEF Redis!Init, Redis!NoneOfThem
<1>2. RedisTypes
  BY <1>1 DEF RedisTypes
<1>3. ASSUME NEW j \in Jobs PROVE Squared(j)
  <2>1. Asked(j) = {} /\ InList(j) = {} /\ InHands(j) = {}
    BY <1>1 DEF Asked, InList, InHands
  <2>2. Timed(j) = {}
    <3> SUFFICES ASSUME NEW c \in Timed(j) PROVE FALSE
      OBVIOUS
    <3>1. PICK w \in Workers, m \in Message : \E i \in 1 .. timers[w][m] : c = <<"timer", w, m, i>>
      BY Waits
    <3> QED
      BY <1>1, <3>1
  <2>3. Dead(j) = {}
    BY <1>1, JobsMessages DEF Dead
  <2>4. Held(j) = {}
    BY <2>1, <2>2, <2>3 DEF Held
  <2>5. IsFiniteSet(Held(j)) /\ Cardinality(Held(j)) = 0
    BY <2>4, FS_EmptySet
  <2>6. handled[j] = 0 /\ resent[j] = 0
    BY <1>1
  <2> QED
    BY <2>4, <2>5, <2>6 DEF Squared
<1> QED
  BY <1>2, <1>3 DEF RedisInv

(* A job is offered: the call that is to push it is its one copy.           *)
LEMMA EnqueueKeeps ==
  ASSUME RedisInv, NEW j \in Jobs, Redis!Enqueue(j)
  PROVE  RedisInv'
<1>1. /\ j \notin offered /\ offered' = offered \cup {j} /\ asking' = asking \cup {j}
      /\ list' = list /\ dlq' = dlq /\ msg' = msg /\ failed' = failed /\ timers' = timers
      /\ handled' = handled /\ resent' = resent
  BY DEF Redis!Enqueue
<1>2. RedisTypes /\ \A k \in Jobs : Squared(k)
  BY DEF RedisInv
<1>3. RedisTypes'
  BY <1>1, <1>2 DEF RedisTypes
<1>4. \A k : InList(k)' = InList(k) /\ InHands(k)' = InHands(k) /\ Timed(k)' = Timed(k) /\ Dead(k)' = Dead(k)
  BY <1>1, Frames
<1>5. \A k : k # j => Asked(k)' = Asked(k)
  BY <1>1 DEF Asked
<1>6. Asked(j)' \subseteq {<<"asked", j>>}
  BY DEF Asked
<1>7. Squared(j)'
  <2>1. Held(j) = {} /\ handled[j] = 0 /\ resent[j] \in Nat
    BY <1>1, <1>2 DEF Squared, RedisTypes
  <2>2. Held(j)' \subseteq {<<"asked", j>>}
    BY <1>4, <1>6, <2>1 DEF Held
  <2>3. IsFiniteSet({<<"asked", j>>}) /\ Cardinality({<<"asked", j>>}) = 1
    BY FS_Singleton
  <2>4. IsFiniteSet(Held(j)') /\ Cardinality(Held(j)') <= 1
    BY <2>2, <2>3, FS_Subset
  <2>5. Cardinality(Held(j)') \in Nat
    BY <2>4, FS_CardinalityType
  <2>6. j \in offered' /\ handled'[j] = 0 /\ resent'[j] = resent[j]
    BY <1>1, <2>1
  <2>7. Cardinality(Held(j)') + handled'[j] <= 1 + resent'[j]
    BY <2>1, <2>4, <2>5, <2>6
  <2> QED
    BY <2>4, <2>6, <2>7 DEF Squared
<1>8. ASSUME NEW k \in Jobs, k # j PROVE Squared(k)'
  <2>1. Held(k)' = Held(k) /\ handled'[k] = handled[k] /\ resent'[k] = resent[k] /\ (k \notin offered' => k \notin offered)
    BY <1>1, <1>4, <1>5, <1>8 DEF Held
  <2> QED
    BY <1>2, <2>1 DEF Squared
<1> QED
  BY <1>3, <1>7, <1>8 DEF RedisInv

LEMMA EnqueuePushKeeps ==
  ASSUME RedisInv, NEW j \in Jobs, Redis!EnqueuePush(j)
  PROVE  RedisInv'
<1>1. RedisTypes
  BY DEF RedisInv
<1>2. PICK m \in Message : m = Redis!First(j) /\ m.job = j
  BY JobsMessages
<1>3. /\ j \in asking
      /\ dlq' = dlq /\ msg' = msg /\ failed' = failed /\ timers' = timers
      /\ offered' = offered /\ handled' = handled
  BY DEF Redis!EnqueuePush
<1>4. /\ list' = list \/ list' = Append(list, m)
      /\ \/ resent' = resent /\ asking' = asking \ {j}
         \/ resent' = [resent EXCEPT ![m.job] = @ + 1] /\ asking' = asking
  BY <1>2 DEF Redis!EnqueuePush, Redis!RPush, Redis!SentAgain, Redis!GivenUp
<1> DEFINE x == <<"asked", j>>
<1>5. x = <<"asked", j>> /\ x[1] = "asked"
  OBVIOUS
<1> HIDE DEF x
<1>6. x \in Rest(m.job)
  BY <1>2, <1>3, <1>5 DEF Rest, Asked
<1>7. \A k : InHands(k)' = InHands(k) /\ Timed(k)' = Timed(k) /\ Dead(k)' = Dead(k)
  BY <1>3, Frames
<1>8. \A k : Asked(k)' \subseteq Asked(k)
  BY <1>4 DEF Asked
<1>9. \/ resent' = resent /\ \A k : Rest(k)' \subseteq Rest(k) \ {x}
      \/ /\ resent' = [resent EXCEPT ![m.job] = @ + 1]
         /\ \A k : Rest(k)' \subseteq Rest(k)
  <2>1. \A k : Rest(k)' \subseteq Rest(k)
    BY <1>7, <1>8 DEF Rest
  <2>2. ASSUME asking' = asking \ {j}, NEW k PROVE Rest(k)' \subseteq Rest(k) \ {x}
    <3>1. x \notin Asked(k)'
      BY <1>5, <2>2 DEF Asked
    <3> QED
      BY <1>5, <1>7, <1>8, <3>1, Leaves
  <2> QED
    BY <1>4, <2>1, <2>2
<1>10. /\ list' \in Seq(Message) /\ resent' \in [Jobs -> Nat]
       /\ \A k \in Jobs : Moves(k) \/ Again(k) \/ Done(k)
  BY <1>1, <1>3, <1>4, <1>5, <1>6, <1>9, PushStep
<1>11. RedisTypes'
  BY <1>1, <1>3, <1>4, <1>10 DEF RedisTypes
<1> QED
  BY <1>3, <1>10, <1>11, StepKept

(* A pop takes the copy from the list into a worker's hands, or into none.  *)
LEMMA PopKeeps ==
  ASSUME RedisInv, NEW w \in Workers, Redis!BRPop(w) \/ Redis!ReplyLost(w)
  PROVE  RedisInv'
<1> DEFINE n == Len(list)
<1>1. /\ msg[w] = NoMessage /\ list # <<>>
      /\ msg' = [msg EXCEPT ![w] = list[n]] \/ msg' = msg
      /\ list' = SubSeq(list, 1, n - 1)
      /\ dlq' = dlq /\ failed' = failed /\ timers' = timers /\ asking' = asking
      /\ offered' = offered /\ handled' = handled /\ resent' = resent
  BY DEF Redis!BRPop, Redis!ReplyLost, Redis!ledger
<1>2. RedisTypes
  BY DEF RedisInv
<1>3. /\ list' \in Seq(Message) /\ list[n] \in Message
      /\ <<"list", n>> \in InList(list[n].job)
      /\ \A k : InList(k)' \subseteq InList(k) \ {<<"list", n>>}
  BY <1>1, <1>2, Popped DEF RedisTypes
<1>4. PICK m \in Message : m = list[n] /\ m.job \in Jobs
  BY <1>3, JobsMessages
<1> DEFINE x == <<"list", n>>
<1>5. x = <<"list", n>> /\ x[1] = "list"
  OBVIOUS
<1> HIDE DEF x
<1> HIDE DEF n
<1>6. m # NoMessage
  BY NoMessageAssumption
<1>7. /\ msg' \in [Workers -> Message \cup {NoMessage}]
      /\ \A v \in failed : v \in Workers /\ msg'[v] # NoMessage
      /\ InHands(m.job)' \subseteq InHands(m.job) \cup {<<"hand", w>>}
      /\ \A k : k # m.job => InHands(k)' \subseteq InHands(k)
  <2>1. CASE msg' = msg
    BY <1>2, <2>1, Frames DEF RedisTypes
  <2>2. CASE msg' = [msg EXCEPT ![w] = m]
    <3>1. /\ msg' \in [Workers -> Message \cup {NoMessage}]
          /\ \A v \in Workers : msg'[v] = IF v = w THEN m ELSE msg[v]
      BY <1>2, <2>2 DEF RedisTypes
    <3>2. \A v \in failed : v \in Workers /\ msg'[v] # NoMessage
      BY <1>1, <1>2, <3>1 DEF RedisTypes
    <3>3. ASSUME NEW k, NEW c \in InHands(k)' PROVE c \in InHands(k) \/ (k = m.job /\ c = <<"hand", w>>)
      <4>1. PICK v \in Workers : msg'[v] # NoMessage /\ msg'[v].job = k /\ c = <<"hand", v>>
        BY DEF InHands
      <4> QED
        BY <3>1, <4>1 DEF InHands
    <3> QED
      BY <3>1, <3>2, <3>3
  <2> QED
    BY <1>1, <1>4, <2>1, <2>2
<1>8. \A k : Asked(k)' = Asked(k) /\ Timed(k)' = Timed(k) /\ Dead(k)' = Dead(k)
  BY <1>1, Frames
<1>9. RedisTypes'
  BY <1>1, <1>2, <1>3, <1>7 DEF RedisTypes
<1>10. Moves(m.job)
  <2>1. x \in Held(m.job)
    BY <1>3, <1>4, <1>5 DEF Held
  <2>2. x \notin Asked(m.job) /\ x \notin InHands(m.job) /\ x \notin Timed(m.job) /\ x \notin Dead(m.job)
    BY <1>5, Tags
  <2>3. Held(m.job)' \subseteq (Held(m.job) \ {x}) \cup {<<"hand", w>>}
    BY <1>3, <1>5, <1>7, <1>8, <2>2 DEF Held
  <2> QED
    BY <1>1, <2>1, <2>3 DEF Moves
<1>11. ASSUME NEW k, k # m.job PROVE Moves(k)
  BY <1>1, <1>3, <1>7, <1>8, <1>11, Untouched
<1> QED
  BY <1>1, <1>9, <1>10, <1>11, StepKept

(* A run that succeeds ends the copy; one that fails hands it to a timer.   *)
LEMMA RunKeeps ==
  ASSUME RedisInv, NEW w \in Workers, Redis!HandlerOk(w) \/ Redis!RetryLater(w)
  PROVE  RedisInv'
<1>1. /\ msg[w] # NoMessage /\ Redis!LetGo(w)
      /\ list' = list /\ dlq' = dlq /\ asking' = asking /\ offered' = offered /\ resent' = resent
  BY DEF Redis!HandlerOk, Redis!RetryLater, Redis!Running, Redis!ledger
<1>2. RedisTypes
  BY DEF RedisInv
<1>3. /\ msg' \in [Workers -> Message \cup {NoMessage}]
      /\ \A v \in failed' : v \in Workers /\ msg'[v] # NoMessage
      /\ msg[w] \in Message
      /\ <<"hand", w>> \in InHands(msg[w].job)
      /\ \A k : InHands(k)' \subseteq InHands(k) \ {<<"hand", w>>}
  BY <1>1, <1>2, LetsGo
<1>4. PICK m \in Message : m = msg[w] /\ m.job \in Jobs
  BY <1>3, JobsMessages
<1> DEFINE x == <<"hand", w>>
<1>5. x = <<"hand", w>> /\ x[1] = "hand"
  OBVIOUS
<1> HIDE DEF x
<1>6. x \in Held(m.job)
  BY <1>3, <1>4, <1>5 DEF Held
<1>7. \A k : Asked(k)' = Asked(k) /\ InList(k)' = InList(k) /\ Dead(k)' = Dead(k)
  BY <1>1, Frames
<1>8. x \notin Asked(m.job) /\ x \notin InList(m.job) /\ x \notin Timed(m.job) /\ x \notin Dead(m.job)
  BY <1>5, Tags
<1>9. CASE Redis!HandlerOk(w)
  <2>1. handled' = [handled EXCEPT ![m.job] = @ + 1] /\ timers' = timers
    BY <1>4, <1>9 DEF Redis!HandlerOk
  <2>2. /\ handled' \in [Jobs -> Nat] /\ handled'[m.job] = handled[m.job] + 1
        /\ \A k \in Jobs : k # m.job => handled'[k] = handled[k]
    BY <1>2, <1>4, <2>1 DEF RedisTypes
  <2>3. RedisTypes'
    BY <1>1, <1>2, <1>3, <2>1, <2>2 DEF RedisTypes
  <2>4. \A k : Timed(k)' = Timed(k)
    BY <2>1, Frames
  <2>5. Held(m.job)' \subseteq Held(m.job) \ {x}
    BY <1>3, <1>5, <1>7, <1>8, <2>4 DEF Held
  <2>6. Done(m.job)
    BY <1>1, <1>6, <2>2, <2>5 DEF Done
  <2>7. ASSUME NEW k \in Jobs, k # m.job PROVE Moves(k)
    BY <1>1, <1>3, <1>7, <2>2, <2>4, <2>7, Untouched
  <2> QED
    BY <1>1, <2>3, <2>6, <2>7, StepKept
<1>10. CASE Redis!RetryLater(w)
  <2>1. PICK r \in Message : r = Redis!RetryCopy(msg[w]) /\ r.job = m.job
    BY <1>4, <1>10, JobsMessages DEF Redis!RetryLater
  <2>2. timers' = [timers EXCEPT ![w] = Redis!One(@, r)] /\ handled' = handled
    BY <1>10, <2>1 DEF Redis!RetryLater, Redis!ledger
  <2>3. PICK y : /\ timers' \in [Workers -> [Message -> Nat]]
                 /\ Timed(m.job)' \subseteq Timed(m.job) \cup {y}
                 /\ \A k : k # m.job => Timed(k)' \subseteq Timed(k)
    BY <1>2, <2>1, <2>2, TimerSet DEF RedisTypes
  <2>4. RedisTypes'
    BY <1>1, <1>2, <1>3, <2>2, <2>3 DEF RedisTypes
  <2>5. Held(m.job)' \subseteq (Held(m.job) \ {x}) \cup {y}
    BY <1>3, <1>5, <1>7, <1>8, <2>3 DEF Held
  <2>6. Moves(m.job)
    BY <1>1, <1>6, <2>2, <2>5 DEF Moves
  <2>7. ASSUME NEW k \in Jobs, k # m.job PROVE Moves(k)
    BY <1>1, <1>3, <1>7, <2>2, <2>3, <2>7, Untouched
  <2> QED
    BY <1>1, <2>4, <2>6, <2>7, StepKept
<1> QED
  BY <1>9, <1>10

LEMMA RetryNowKeeps ==
  ASSUME RedisInv, NEW w \in Workers, Redis!RetryNow(w)
  PROVE  RedisInv'
<1>1. /\ w \in failed /\ Redis!CanRetry(msg[w])
      /\ dlq' = dlq /\ timers' = timers /\ asking' = asking
      /\ offered' = offered /\ handled' = handled
  BY DEF Redis!RetryNow, Redis!ledger
<1>2. RedisTypes /\ msg[w] # NoMessage
  BY <1>1 DEF RedisInv, RedisTypes
<1>3. msg[w] \in Message
  BY <1>2 DEF RedisTypes
<1>4. PICK m \in Message : m = Redis!RetryCopy(msg[w]) /\ m.job = msg[w].job
  BY <1>1, <1>3, JobsMessages
<1>5. /\ list' = list \/ list' = Append(list, m)
      /\ \/ resent' = resent /\ Redis!LetGo(w)
         \/ resent' = [resent EXCEPT ![m.job] = @ + 1] /\ msg' = msg /\ failed' = failed
  BY <1>4 DEF Redis!RetryNow, Redis!RPush, Redis!SentAgain, Redis!GivenUp
<1> DEFINE x == <<"hand", w>>
<1>6. x = <<"hand", w>> /\ x[1] = "hand"
  OBVIOUS
<1> HIDE DEF x
<1>7. x \in Rest(m.job)
  BY <1>2, <1>4, <1>6 DEF Rest, InHands
<1>8. \A k : Asked(k)' = Asked(k) /\ Timed(k)' = Timed(k) /\ Dead(k)' = Dead(k)
  BY <1>1, Frames
<1>9. /\ msg' \in [Workers -> Message \cup {NoMessage}]
      /\ \A v \in failed' : v \in Workers /\ msg'[v] # NoMessage
      /\ \/ resent' = resent /\ \A k : Rest(k)' \subseteq Rest(k) \ {x}
         \/ /\ resent' = [resent EXCEPT ![m.job] = @ + 1]
            /\ \A k : Rest(k)' \subseteq Rest(k)
  <2>1. CASE resent' = resent /\ Redis!LetGo(w)
    <3>1. /\ msg' \in [Workers -> Message \cup {NoMessage}]
          /\ \A v \in failed' : v \in Workers /\ msg'[v] # NoMessage
          /\ \A k : InHands(k)' \subseteq InHands(k) \ {x}
      BY <1>2, <1>6, <2>1, LetsGo
    <3>2. ASSUME NEW k PROVE Rest(k)' \subseteq Rest(k) \ {x}
      <4>1. x \notin InHands(k)' /\ InHands(k)' \subseteq InHands(k)
        BY <3>1
      <4> QED
        BY <1>6, <1>8, <4>1, Leaves
    <3> QED
      BY <2>1, <3>1, <3>2
  <2>2. CASE resent' = [resent EXCEPT ![m.job] = @ + 1] /\ msg' = msg /\ failed' = failed
    <3>1. \A k : InHands(k)' = InHands(k)
      BY <2>2, Frames
    <3>2. \A k : Rest(k)' \subseteq Rest(k)
      BY <1>8, <3>1 DEF Rest
    <3> QED
      BY <1>2, <2>2, <3>2 DEF RedisTypes
  <2> QED
    BY <1>5, <2>1, <2>2
<1>10. /\ list' \in Seq(Message) /\ resent' \in [Jobs -> Nat]
       /\ \A k \in Jobs : Moves(k) \/ Again(k) \/ Done(k)
  BY <1>1, <1>2, <1>5, <1>6, <1>7, <1>9, PushStep
<1>11. RedisTypes'
  BY <1>1, <1>2, <1>9, <1>10 DEF RedisTypes
<1> QED
  BY <1>1, <1>10, <1>11, StepKept

LEMMA PushDLQKeeps ==
  ASSUME RedisInv, NEW w \in Workers, Redis!PushDLQ(w)
  PROVE  RedisInv'
<1>1. /\ w \in failed /\ list' = list /\ timers' = timers /\ asking' = asking
      /\ offered' = offered /\ handled' = handled
  BY DEF Redis!PushDLQ, Redis!ledger
<1>2. RedisTypes /\ msg[w] # NoMessage /\ w \in Workers
  BY <1>1 DEF RedisInv, RedisTypes
<1>3. PICK m \in Message : m = msg[w] /\ m.job \in Jobs
  BY <1>2, JobsMessages DEF RedisTypes
<1>4. /\ dlq' = dlq \/ dlq' = Redis!One(dlq, m)
      /\ \/ resent' = resent /\ Redis!LetGo(w)
         \/ resent' = [resent EXCEPT ![m.job] = @ + 1] /\ msg' = msg /\ failed' = failed
  BY <1>3 DEF Redis!PushDLQ, Redis!SentAgain
<1>5. PICK y : /\ dlq' \in [Message -> Nat]
               /\ Dead(m.job)' \subseteq Dead(m.job) \cup {y}
               /\ \A k : k # m.job => Dead(k)' \subseteq Dead(k)
  <2>1. CASE dlq' = dlq
    BY <1>2, <2>1, Frames DEF RedisTypes
  <2>2. CASE dlq' = Redis!One(dlq, m)
    BY <1>2, <2>2, DeadLetter DEF RedisTypes
  <2> QED
    BY <1>4, <2>1, <2>2
<1> DEFINE x == <<"hand", w>>
<1>6. x = <<"hand", w>> /\ x[1] = "hand"
  OBVIOUS
<1> HIDE DEF x
<1>7. x \in Held(m.job)
  BY <1>2, <1>3, <1>6 DEF Held, InHands
<1>8. \A k : Asked(k)' = Asked(k) /\ Timed(k)' = Timed(k) /\ InList(k)' = InList(k)
  BY <1>1, Frames
<1>9. x \notin Asked(m.job) /\ x \notin InList(m.job) /\ x \notin Timed(m.job) /\ x \notin Dead(m.job)
  BY <1>6, Tags
<1>10. CASE resent' = resent /\ Redis!LetGo(w)
  <2>1. /\ msg' \in [Workers -> Message \cup {NoMessage}]
        /\ \A v \in failed' : v \in Workers /\ msg'[v] # NoMessage
        /\ \A k : InHands(k)' \subseteq InHands(k) \ {x}
    BY <1>2, <1>6, <1>10, LetsGo
  <2>2. RedisTypes'
    BY <1>1, <1>2, <1>5, <1>10, <2>1 DEF RedisTypes
  <2>3. Held(m.job)' \subseteq (Held(m.job) \ {x}) \cup {y}
    BY <1>5, <1>8, <1>9, <2>1 DEF Held
  <2>4. Moves(m.job)
    BY <1>1, <1>7, <1>10, <2>3 DEF Moves
  <2>5. ASSUME NEW k \in Jobs, k # m.job PROVE Moves(k)
    BY <1>1, <1>5, <1>8, <1>10, <2>1, <2>5, Untouched
  <2> QED
    BY <1>1, <2>2, <2>4, <2>5, StepKept
<1>11. CASE resent' = [resent EXCEPT ![m.job] = @ + 1] /\ msg' = msg /\ failed' = failed
  <2>1. \A k : InHands(k)' = InHands(k)
    BY <1>11, Frames
  <2>2. /\ resent' \in [Jobs -> Nat] /\ resent'[m.job] = resent[m.job] + 1
        /\ \A k \in Jobs : k # m.job => resent'[k] = resent[k]
    BY <1>2, <1>3, <1>11 DEF RedisTypes
  <2>3. RedisTypes'
    BY <1>1, <1>2, <1>5, <1>11, <2>2 DEF RedisTypes
  <2>4. Held(m.job)' \subseteq Held(m.job) \cup {y}
    BY <1>5, <1>8, <2>1 DEF Held
  <2>5. Again(m.job)
    BY <1>1, <1>7, <2>2, <2>4 DEF Again
  <2>6. ASSUME NEW k \in Jobs, k # m.job PROVE Moves(k)
    BY <1>1, <1>5, <1>8, <2>1, <2>2, <2>6, Untouched
  <2> QED
    BY <1>1, <2>3, <2>5, <2>6, StepKept
<1> QED
  BY <1>4, <1>10, <1>11

LEMMA TimerKeeps ==
  ASSUME RedisInv, NEW w \in Workers, NEW m \in Message, Redis!TimerFires(w, m)
  PROVE  RedisInv'
<1>1. /\ timers[w][m] > 0
      /\ dlq' = dlq /\ msg' = msg /\ failed' = failed /\ asking' = asking
      /\ offered' = offered /\ handled' = handled
  BY DEF Redis!TimerFires, Redis!ledger
<1>2. RedisTypes
  BY DEF RedisInv
<1>3. /\ list' = list \/ list' = Append(list, m)
      /\ \/ resent' = resent /\ timers' = [timers EXCEPT ![w] = Redis!Less(@, m)]
         \/ resent' = [resent EXCEPT ![m.job] = @ + 1] /\ timers' = timers
  BY DEF Redis!TimerFires, Redis!RPush, Redis!SentAgain, Redis!GivenUp
<1> DEFINE x == <<"timer", w, m, timers[w][m]>>
<1>4. x = <<"timer", w, m, timers[w][m]>> /\ x[1] = "timer"
  OBVIOUS
<1> HIDE DEF x
<1>5. x \in Rest(m.job)
  <2>1. timers[w][m] \in 1 .. timers[w][m]
    BY <1>1, <1>2 DEF RedisTypes
  <2>2. x \in Timed(m.job)
    BY <1>4, <2>1, Waits
  <2> QED
    BY <2>2 DEF Rest
<1>6. \A k : Asked(k)' = Asked(k) /\ InHands(k)' = InHands(k) /\ Dead(k)' = Dead(k)
  BY <1>1, Frames
<1>7. /\ timers' \in [Workers -> [Message -> Nat]]
      /\ \/ resent' = resent /\ \A k : Rest(k)' \subseteq Rest(k) \ {x}
         \/ /\ resent' = [resent EXCEPT ![m.job] = @ + 1]
            /\ \A k : Rest(k)' \subseteq Rest(k)
  <2>1. CASE resent' = resent /\ timers' = [timers EXCEPT ![w] = Redis!Less(@, m)]
    <3>1. /\ timers' \in [Workers -> [Message -> Nat]]
          /\ \A k : Timed(k)' \subseteq Timed(k) \ {x}
      BY <1>1, <1>2, <1>4, <2>1, TimerGone DEF RedisTypes
    <3>2. ASSUME NEW k PROVE Rest(k)' \subseteq Rest(k) \ {x}
      <4>1. x \notin Timed(k)' /\ Timed(k)' \subseteq Timed(k)
        BY <3>1
      <4> QED
        BY <1>4, <1>6, <4>1, Leaves
    <3> QED
      BY <2>1, <3>1, <3>2
  <2>2. CASE resent' = [resent EXCEPT ![m.job] = @ + 1] /\ timers' = timers
    <3>1. \A k : Timed(k)' = Timed(k)
      BY <2>2, Frames
    <3>2. \A k : Rest(k)' \subseteq Rest(k)
      BY <1>6, <3>1 DEF Rest
    <3> QED
      BY <1>2, <2>2, <3>2 DEF RedisTypes
  <2> QED
    BY <1>3, <2>1, <2>2
<1>8. /\ list' \in Seq(Message) /\ resent' \in [Jobs -> Nat]
      /\ \A k \in Jobs : Moves(k) \/ Again(k) \/ Done(k)
  BY <1>1, <1>2, <1>3, <1>4, <1>5, <1>7, PushStep
<1>9. RedisTypes'
  BY <1>1, <1>2, <1>7, <1>8 DEF RedisTypes
<1> QED
  BY <1>1, <1>8, <1>9, StepKept

(* What is in memory dies with its process.                                 *)
LEMMA CrashKeeps ==
  ASSUME RedisInv, NEW w \in Workers, Redis!Crash(w)
  PROVE  RedisInv'
<1>1. /\ msg' = [msg EXCEPT ![w] = NoMessage] /\ failed' = failed \ {w}
      /\ timers' = [timers EXCEPT ![w] = [m \in Message |-> 0]]
      /\ list' = list /\ dlq' = dlq /\ asking' = asking
      /\ offered' = offered /\ handled' = handled /\ resent' = resent
  BY SameMessages DEF Redis!Crash, Redis!LetGo, Redis!ledger, Redis!NoneOfThem
<1>2. RedisTypes
  BY DEF RedisInv
<1>3. /\ msg' \in [Workers -> Message \cup {NoMessage}]
      /\ \A v \in Workers : msg'[v] = IF v = w THEN NoMessage ELSE msg[v]
  BY <1>1, <1>2 DEF RedisTypes
<1>4. [m \in Message |-> 0] \in [Message -> Nat]
  OBVIOUS
<1>5. /\ timers' \in [Workers -> [Message -> Nat]]
      /\ \A v \in Workers : timers'[v] = IF v = w THEN [m \in Message |-> 0] ELSE timers[v]
  BY <1>1, <1>2, <1>4 DEF RedisTypes
<1>6. RedisTypes'
  <2>1. \A v \in failed' : v \in Workers /\ msg'[v] # NoMessage
    BY <1>1, <1>2, <1>3 DEF RedisTypes
  <2> QED
    BY <1>1, <1>2, <1>3, <1>5, <2>1 DEF RedisTypes
<1>7. \A k : Asked(k)' = Asked(k) /\ InList(k)' = InList(k) /\ Dead(k)' = Dead(k)
  BY <1>1, Frames
<1>8. \A k : InHands(k)' \subseteq InHands(k)
  BY <1>3 DEF InHands
<1>9. ASSUME NEW k, NEW c \in Timed(k)' PROVE c \in Timed(k)
  <2>1. PICK v \in Workers, n \in Message : n.job = k /\ \E i \in 1 .. timers'[v][n] : c = <<"timer", v, n, i>>
    BY WaitsThen
  <2>2. PICK i \in 1 .. timers'[v][n] : c = <<"timer", v, n, i>>
    BY <2>1
  <2>3. timers'[v] = timers[v]
    <3>1. CASE v = w
      <4>1. timers'[v][n] = 0
        BY <1>5, <3>1
      <4> QED
        BY <2>2, <4>1
    <3>2. CASE v # w
      BY <1>5, <3>2
    <3> QED
      BY <3>1, <3>2
  <2> QED
    BY <2>1, <2>2, <2>3, Waits
<1>10. \A k \in Jobs : Moves(k)
  BY <1>1, <1>7, <1>8, <1>9, Untouched
<1> QED
  BY <1>1, <1>6, <1>10, StepKept

(* A step that touches no copy: nothing happens, or a handler fails.        *)
LEMMA StillKeeps ==
  ASSUME RedisInv, UNCHANGED <<list, dlq, msg, timers, asking, offered, handled, resent>>,
         \A v \in failed' : v \in Workers /\ msg[v] # NoMessage
  PROVE  RedisInv'
<1>1. RedisTypes
  BY DEF RedisInv
<1>2. RedisTypes'
  BY <1>1 DEF RedisTypes
<1>3. \A k : /\ Asked(k)' = Asked(k) /\ InList(k)' = InList(k) /\ InHands(k)' = InHands(k)
             /\ Timed(k)' = Timed(k) /\ Dead(k)' = Dead(k)
  BY Frames
<1>4. \A k \in Jobs : Moves(k)
  BY <1>3, Untouched
<1> QED
  BY <1>2, <1>4, StepKept

LEMMA RedisStep == RedisInv /\ [Redis!Next]_(Redis!vars) => RedisInv'
<1> SUFFICES ASSUME RedisInv, [Redis!Next]_(Redis!vars) PROVE RedisInv'
  OBVIOUS
<1>1. ASSUME NEW j \in Jobs, Redis!Enqueue(j) \/ Redis!EnqueuePush(j) PROVE RedisInv'
  BY <1>1, EnqueueKeeps, EnqueuePushKeeps
<1>2. ASSUME NEW w \in Workers, Redis!HandlerErr(w) PROVE RedisInv'
  <2>1. /\ UNCHANGED <<list, dlq, msg, timers, asking, offered, handled, resent>>
        /\ msg[w] # NoMessage /\ failed' = failed \cup {w}
    BY <1>2 DEF Redis!HandlerErr, Redis!Running, Redis!ledger
  <2>2. \A v \in failed' : v \in Workers /\ msg[v] # NoMessage
    BY <2>1 DEF RedisInv, RedisTypes
  <2> QED
    BY <2>1, <2>2, StillKeeps
<1>3. ASSUME NEW w \in Workers, Redis!Consume(w) PROVE RedisInv'
  BY <1>2, <1>3, PopKeeps, RunKeeps, RetryNowKeeps, PushDLQKeeps DEF Redis!Consume
<1>4. ASSUME NEW w \in Workers, Redis!ReplyLost(w) \/ Redis!Crash(w) PROVE RedisInv'
  BY <1>4, PopKeeps, CrashKeeps
<1>5. ASSUME NEW w \in Workers, NEW m \in Redis!Message, Redis!TimerFires(w, m) PROVE RedisInv'
  BY <1>5, SameMessages, TimerKeeps
<1>6. CASE UNCHANGED Redis!vars
  <2>1. UNCHANGED <<list, dlq, msg, failed, timers, asking, offered, handled, resent>>
    BY <1>6 DEF Redis!vars, Redis!ledger
  <2>2. \A v \in failed' : v \in Workers /\ msg[v] # NoMessage
    BY <2>1 DEF RedisInv, RedisTypes
  <2> QED
    BY <2>1, <2>2, StillKeeps
<1> QED
  BY <1>1, <1>3, <1>4, <1>5, <1>6 DEF Redis!Next

(* On Redis a job has no more copies and successful runs than one and as    *)
(* many as its pushes were sent again: a pop takes the copy out of the list *)
(* before the handler runs, and a retry is pushed by the process that has   *)
(* the copy (queue.go, redisQueue).                                         *)
THEOREM RedisAccountsForCopies == Redis!Spec => []Redis!CopiesArePaidFor
<1>1. ASSUME NEW j PROVE Redis!Copies(j) = Held(j)
  BY DEF Redis!Copies, Held, Asked, InList, InHands, Timed, Dead
<1>2. ASSUME NEW S PROVE Redis!Cardinality(S) = Cardinality(S)
  BY DEF Redis!Cardinality, Cardinality
<1>3. ASSUME RedisInv PROVE Redis!CopiesArePaidFor
  <2>1. ASSUME NEW j \in Jobs
        PROVE  Redis!Cardinality(Redis!Copies(j)) + handled[j] <= 1 + resent[j]
    <3>1. Cardinality(Held(j)) + handled[j] <= 1 + resent[j]
      BY <1>3 DEF RedisInv, Squared
    <3>2. Redis!Cardinality(Redis!Copies(j)) = Cardinality(Held(j))
      BY <1>1, <1>2
    <3> QED
      BY <3>1, <3>2
  <2> QED
    BY <2>1 DEF Redis!CopiesArePaidFor
<1> QED
  BY <1>3, RedisInit, RedisStep, PTL DEF Redis!Spec
=============================================================================
