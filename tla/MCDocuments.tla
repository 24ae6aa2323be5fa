---------------------------- MODULE MCDocuments ----------------------------
(***************************************************************************)
(* An instance of KnowledgeIngestion, and the texts it may be given.  A    *)
(* text is cut without a look at any store and before anything is written, *)
(* so it is enough to cut it while nothing else goes on.  The tokens of a  *)
(* sentence are numbered by line, sentence and place.                      *)
(***************************************************************************)
EXTENDS KnowledgeIngestion, DocumentText

Lengths == {<<0>>, <<1>>, <<2, 1>>, <<5>>}
Shapes  == {[kind |-> "blank", name |-> NoSection, lengths |-> <<>>],
            [kind |-> "heading", name |-> "Intro", lengths |-> <<1>>],
            [kind |-> "heading", name |-> "Usage", lengths |-> <<1>>]}
             \cup [kind : {"text"}, name : {NoSection}, lengths : Lengths]
Pages   == [kind : {"text"}, name : {NoSection}, lengths : Lengths \cup {<<>>}]

Line(shape, i) ==
  [kind |-> shape.kind, name |-> shape.name,
   sentences |-> [j \in DOMAIN shape.lengths |-> [k \in 1 .. shape.lengths[j] |-> 100 * i + 10 * j + k]]]
Lines(S, n) == {[i \in DOMAIN s |-> Line(s[i], i)] : s \in SeqOf(S, n) \ {<<>>}}

MCTokens    == 1 .. 999
MCNames     == {"Intro", "Usage"}
MCDocuments == [type : {"text", "markdown"}, lines : Lines(Shapes, 4)]
                 \cup [type : {"pdf"}, lines : Lines(Pages, 3)]

MCInit == Init /\ TextInit
MCNext ==
  \/ built = {} /\ Next /\ UNCHANGED built
  \/ Init /\ TextNext /\ UNCHANGED vars
MCSpec == MCInit /\ [][MCNext]_<<vars, built>> /\ Fairness
=============================================================================
