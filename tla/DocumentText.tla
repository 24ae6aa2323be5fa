---------------------------- MODULE DocumentText ----------------------------
(***************************************************************************)
(* From the text of a document to its chunks (internal/knowledge/biz,      *)
(* parsing.go and chunking.go): lines are gathered into blocks under their *)
(* headings, blocks are cut into segments at the ends of sentences, and    *)
(* segments are packed into chunks of at most chunkSize tokens, each one   *)
(* beginning with the end of the one before.                               *)
(*                                                                         *)
(* A token stands for the place in a document where a word is, so that     *)
(* every token is different from all others.  A sentence is a sequence of  *)
(* them, empty when the sentence has no letter and no digit.  A line is    *)
(* [kind, name, sentences], of kind "blank", "text" or "heading", and only *)
(* a heading has a name; a page of a PDF is a line of text.                *)
(***************************************************************************)
EXTENDS Integers, SequencesExt

CONSTANTS
  Low, High,   \* what chunk sizes are clamped to: 64 and 8192 in the code
  MaxTokens,   \* values of RAGODESK_CHUNK_SIZE_TOKENS, positive
  Overlaps,    \* values of RAGODESK_CHUNK_OVERLAP_TOKENS, not negative
  Tokens,      \* the tokens of all documents
  Names,       \* what headings say
  Documents    \* [type, lines], of type "text", "markdown" or "pdf"

VARIABLE built \* what was cut: [doc, size, overlap, chunks]

ASSUME LimitsAssumption ==
  /\ Low \in Nat \ {0} /\ High \in Nat /\ Low <= High
  /\ MaxTokens \subseteq Nat \ {0} /\ Overlaps \subseteq Nat

Clamp(v, lo, hi) == IF v < lo THEN lo ELSE IF v > hi THEN hi ELSE v

NoSection == ""

LineText(line) == FlattenSeq(line.sentences)

(* parseMarkdownBlocks and detectHeading take a line for a heading only     *)
(* where something is left of it when the marks are gone.                   *)
BlankLine == [kind |-> "blank", name |-> NoSection, sentences |-> <<>>]
TextLines == [kind : {"text"}, name : {NoSection}, sentences : Seq(Seq(Tokens))]
Headings  == [kind : {"heading"}, name : Names, sentences : Seq(Seq(Tokens))]
AnyLine   == {BlankLine} \cup TextLines \cup Headings

ASSUME DocumentsAssumption ==
  /\ NoSection \notin Names
  /\ \A doc \in Documents :
       /\ \/ doc \in [type : {"text", "markdown"}, lines : Seq(AnyLine)]
          \/ doc \in [type : {"pdf"}, lines : Seq(TextLines)]
       /\ \A i, j \in DOMAIN doc.lines :
            \A k \in DOMAIN LineText(doc.lines[i]), l \in DOMAIN LineText(doc.lines[j]) :
              LineText(doc.lines[i])[k] = LineText(doc.lines[j])[l] => i = j /\ k = l

-----------------------------------------------------------------------------
(* From lines to blocks [section, page, sentences]. *)

Sentences(lines) == FlattenSeq([i \in DOMAIN lines |-> lines[i].sentences])

(* flush: what was gathered becomes a block of the section it stands in. *)
CloseBlock(st) ==
  IF st.buf = <<>> THEN st
  ELSE [st EXCEPT !.blocks = Append(@, [section |-> st.section, page |-> 0, sentences |-> Sentences(st.buf)]),
                  !.buf = <<>>]

Heading(st, line) == [CloseBlock(st) EXCEPT !.section = line.name]
Gather(st, line)  == [st EXCEPT !.buf = Append(@, line)]

(* splitTextBlocks: a blank line ends a block, a heading a section. *)
TextLine(st, line) ==
  CASE line.kind = "blank"   -> CloseBlock(st)
    [] line.kind = "heading" -> Heading(st, line)
    [] line.kind = "text"    -> Gather(st, line)

(* A plausible slip: the heading counts for what stands above it. *)
MarkdownLineEarly(st, line) ==
  IF line.kind = "heading" THEN CloseBlock([st EXCEPT !.section = line.name]) ELSE Gather(st, line)

(* parseMarkdownBlocks: only a heading ends a block. *)
MarkdownLine(st, line) ==
  IF line.kind = "heading" THEN Heading(st, line) ELSE Gather(st, line)

(* What was gathered when a number of lines have been read.                *)
TakeLine(type, st, line) == IF type = "markdown" THEN MarkdownLine(st, line) ELSE TextLine(st, line)

AfterLines(doc) ==
  LET after[i \in 0 .. Len(doc.lines)] ==
        IF i = 0 THEN [blocks |-> <<>>, section |-> NoSection, buf |-> <<>>]
                 ELSE TakeLine(doc.type, after[i - 1], doc.lines[i])
  IN after

(* Where no block came out, the raw text is one, headings and all. *)
LineBlocks(doc) ==
  LET end == CloseBlock(AfterLines(doc)[Len(doc.lines)])
  IN IF end.blocks # <<>> THEN end.blocks
     ELSE <<[section |-> NoSection, page |-> 0, sentences |-> Sentences(doc.lines)]>>

(* parsePDFBlocksPlain and enrichParsedDocument: a block for each page, in  *)
(* the section "Page n".                                                    *)
PageBlocks(pages) ==
  [n \in DOMAIN pages |-> [section |-> "Page", page |-> n, sentences |-> pages[n].sentences]]

(* normalizeParsedDocument drops the blocks that are blank; so does the     *)
(* chunker, which is where they go here.                                    *)
Blocks(doc) == IF doc.type = "pdf" THEN PageBlocks(doc.lines) ELSE LineBlocks(doc)

-----------------------------------------------------------------------------
(* From a block to segments of at most size tokens. *)

(* splitByTokens, without an overlap. *)
Pieces(s, size) ==
  [i \in 1 .. (Len(s) + size - 1) \div size |->
     SubSeq(s, (i - 1) * size + 1, Clamp(i * size, 0, Len(s)))]

CloseSegment(st) ==
  IF st.buf = <<>> THEN st ELSE [segments |-> Append(st.segments, st.buf), buf |-> <<>>]

(* A plausible slip: what was gathered stays behind the long sentence. *)
AddSentenceUnflushed(st, s, size) ==
  IF Len(s) > size THEN [st EXCEPT !.segments = @ \o Pieces(s, size)]
  ELSE LET open == IF Len(st.buf) + Len(s) > size THEN CloseSegment(st) ELSE st
       IN [open EXCEPT !.buf = @ \o s]

(* splitBlockSegments: a sentence that is too long is cut on its own.       *)
AddSentence(st, s, size) ==
  IF Len(s) > size
    THEN [segments |-> CloseSegment(st).segments \o Pieces(s, size), buf |-> <<>>]
    ELSE LET open == IF Len(st.buf) + Len(s) > size THEN CloseSegment(st) ELSE st
         IN [open EXCEPT !.buf = @ \o s]

AfterSentences(sentences, size) ==
  LET after[i \in 0 .. Len(sentences)] ==
        IF i = 0 THEN [segments |-> <<>>, buf |-> <<>>]
                 ELSE AddSentence(after[i - 1], sentences[i], size)
  IN after

Segments(block, size) ==
  CloseSegment(AfterSentences(block.sentences, size)[Len(block.sentences)]).segments

-----------------------------------------------------------------------------
(* From segments to chunks [section, page, tokens], chunkState included. *)

NoChunk == [section |-> NoSection, page |-> 0, tokens |-> <<>>]

(* isStructureBoundary *)
Boundary(open, block) ==
  /\ open.tokens # <<>>
  /\ \/ block.page # 0 /\ open.page # block.page
     \/ block.section # NoSection /\ open.section # block.section

(* flushChunk *)
CloseChunk(st) ==
  IF st.open.tokens = <<>> THEN st ELSE [chunks |-> Append(st.chunks, st.open), open |-> NoChunk]

(* tailByTokens *)
TailByTokens(s, n) == SubSeq(s, Clamp(Len(s) - n + 1, 1, Len(s) + 1), Len(s))

(* A plausible slip: the carried text is added whatever the room. *)
CarriedAlways(open, segment, size, overlap) == [open EXCEPT !.tokens = TailByTokens(@, overlap)]

(* After a full chunk the next one begins with its end, if the segment      *)
(* leaves room for it, and keeps its section and page.                      *)
Carried(open, segment, size, overlap) ==
  LET tail == TailByTokens(open.tokens, overlap)
  IN IF overlap > 0 /\ Len(tail) + Len(segment) <= size
       THEN [open EXCEPT !.tokens = tail] ELSE NoChunk

(* An empty chunk takes section and page from the block it begins with.     *)
AddSegment(st, block, segment, size, overlap) ==
  LET full == st.open.tokens # <<>> /\ Len(st.open.tokens) + Len(segment) > size
      kept == IF full THEN [CloseChunk(st) EXCEPT !.open = Carried(st.open, segment, size, overlap)]
                      ELSE st
      open == IF kept.open.tokens = <<>>
                THEN [section |-> block.section, page |-> block.page, tokens |-> <<>>] ELSE kept.open
  IN [kept EXCEPT !.open = [open EXCEPT !.tokens = @ \o segment]]

AfterSegments(st, block, segments, size, overlap) ==
  LET after[i \in 0 .. Len(segments)] ==
        IF i = 0 THEN IF Boundary(st.open, block) THEN CloseChunk(st) ELSE st
                 ELSE AddSegment(after[i - 1], block, segments[i], size, overlap)
  IN after

AddBlock(st, block, size, overlap) ==
  LET segments == Segments(block, size)
  IN IF block.sentences = <<>> THEN st
     ELSE AfterSegments(st, block, segments, size, overlap)[Len(segments)]

AfterBlocks(blocks, size, overlap) ==
  LET after[i \in 0 .. Len(blocks)] ==
        IF i = 0 THEN [chunks |-> <<>>, open |-> NoChunk]
                 ELSE AddBlock(after[i - 1], blocks[i], size, overlap)
  IN after

(* buildChunksFromBlocks *)
BuildChunks(blocks, chunkSize, overlapTokens) ==
  LET size == Clamp(chunkSize, Low, High)
  IN CloseChunk(AfterBlocks(blocks, size, Clamp(overlapTokens, 0, size - 1))[Len(blocks)]).chunks

ParseAndChunk(doc, size, overlap) ==
  built' = {[doc |-> doc, size |-> size, overlap |-> overlap,
             chunks |-> BuildChunks(Blocks(doc), size, overlap)]}

(* Each text is looked at by itself: one is cut, with one configuration.   *)
TextInit == built = {}
TextNext ==
  /\ built = {}
  /\ \E doc \in Documents, size \in MaxTokens, overlap \in Overlaps : ParseAndChunk(doc, size, overlap)

TextSpec == TextInit /\ [][TextNext]_built

-----------------------------------------------------------------------------
(* A document of headings only is indexed as it is; a blank line in        *)
(* markdown counts as a block, and then nothing is indexed.                *)
HeadingsOnly(doc) ==
  IF doc.type = "markdown" THEN \A l \in Range(doc.lines) : l.kind = "heading"
                           ELSE \A l \in Range(doc.lines) : l.kind # "text"

(* The text a document is searched by: that of the lines under its         *)
(* headings, which are kept as sections.                                   *)
BodySentences(doc) ==
  [i \in DOMAIN doc.lines |->
     IF doc.lines[i].kind = "heading" /\ ~ HeadingsOnly(doc) THEN <<>> ELSE doc.lines[i].sentences]

Text(doc) == FlattenSeq(FlattenSeq(BodySentences(doc)))

(* The line, or page, a token is in, and the section that line is in. *)
LineOf(doc, token) == CHOOSE i \in DOMAIN doc.lines : token \in Range(LineText(doc.lines[i]))

SectionOf(doc, i) ==
  LET above == {h \in 1 .. i : doc.lines[h].kind = "heading"}
  IN IF above = {} \/ HeadingsOnly(doc) THEN NoSection
     ELSE doc.lines[CHOOSE h \in above : \A k \in above : k <= h].name

(* Every chunk has some text and never more than the embedding was          *)
(* configured for, carried text included, whatever size and overlap are set.*)
ChunksFit ==
  \A b \in built : \A chunk \in Range(b.chunks) :
    Len(chunk.tokens) \in 1 .. Clamp(b.size, Low, High)

(* The chunks are windows on the text, in its order and with no gap: the    *)
(* first begins where it begins, each other one ends later than the one     *)
(* before and begins in the overlap with it or right after it, and the last *)
(* one ends where the text ends (splitBlockSegments, buildChunksFromBlocks).*)
ChunksCoverTheText ==
  \A b \in built :
    LET text   == Text(b.doc)
        chunks == b.chunks
        At(token) == IF token \in Range(text) THEN CHOOSE k \in DOMAIN text : text[k] = token ELSE 0
        first  == [i \in DOMAIN chunks |-> At(chunks[i].tokens[1])]
        last   == [i \in DOMAIN chunks |-> first[i] + Len(chunks[i].tokens) - 1]
    IN /\ \A i \in DOMAIN chunks :
            /\ first[i] > 0 /\ last[i] <= Len(text)
            /\ chunks[i].tokens = SubSeq(text, first[i], last[i])
       /\ \A i \in DOMAIN chunks \ {1} :
            /\ last[i - 1] < last[i]
            /\ first[i] \in last[i - 1] + 1 - b.overlap .. last[i - 1] + 1
       /\ IF chunks = <<>> THEN text = <<>> ELSE first[1] = 1 /\ last[Len(chunks)] = Len(text)

(* What a citation says of a chunk is true of all of its text: the section  *)
(* is the last heading above, the page the one the text is on, for carried  *)
(* text too (isStructureBoundary, enrichParsedDocument).                    *)
ChunksKeepTheirPlace ==
  \A b \in built : \A chunk \in Range(b.chunks) : \A token \in Range(chunk.tokens) :
    LET i == LineOf(b.doc, token)
    IN IF b.doc.type = "pdf" THEN chunk.page = i ELSE chunk.section = SectionOf(b.doc, i)
=============================================================================
