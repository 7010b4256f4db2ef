------------------------------- MODULE Chunker -------------------------------
(***************************************************************************)
(* The chunker of the embedding worker: a filing is split at the headers   *)
(* of its 10-K items, the paragraphs of each section are packed greedily   *)
(* into groups of about MaxTokens, and a group whose joined text comes to  *)
(* more is cut into overlapping windows.  One action per iteration         *)
(* of a loop.                                                              *)
(*                                                                         *)
(* A document is a sequence of paragraphs, set apart by blank lines, each  *)
(* a number of tokens.  One that reads as an item header has the item's    *)
(* number, another 0.  The tokenizer is not additive: a paragraph joined   *)
(* to the one before it adds its tokens and joint more, which is none when *)
(* the newlines merge with the end before them, one when they are a token, *)
(* or several when that end is split anew.                                 *)
(***************************************************************************)
EXTENDS Integers, Sequences, FiniteSets, SequencesExt

CONSTANTS
  MaxTokens,  \* DEFAULT_CHUNK_SIZE
  Overlap,    \* DEFAULT_OVERLAP
  Radix,      \* the base chunk indexes are written in: ten
  Docs        \* documents

ASSUME ChunkerAssumption ==
  /\ MaxTokens \in Nat /\ Overlap \in Nat /\ Overlap < MaxTokens
  /\ Radix \in Nat \ {0, 1}
  /\ Docs \subseteq Seq([item : Nat, tokens : Nat \ {0}, joint : Nat])

VARIABLES
  doc,
  phase,     \* "scan", "split", "section", "pack", "emit" or "done"
  best,      \* best[item]: the header kept so far
  scanned,   \* the last header looked at
  cut,       \* the header the next section begins after, 0 for "Preamble"
  sections,  \* of [name, text]
  section,   \* the one at hand
  paras,     \* its paragraphs not yet packed
  groups,    \* its groups not yet emitted
  current, currentTokens,
  start,     \* of the next window
  chunks

splitVars == <<best, scanned, cut, sections>>
packVars == <<paras, groups, current, currentTokens>>
chunkerVars == <<doc, phase, splitVars, section, packVars, start, chunks>>

-----------------------------------------------------------------------------
(* Headers are named by their place in the document. *)

Headers == {m \in DOMAIN doc : doc[m].item # 0}
End == Len(doc) + 1
NextOf(S, m) == Min({n \in S : n > m} \cup {End})

(* The text after place b up to place e. *)
Between(b, e) ==
  [k \in 1..e - b - 1 |-> [at |-> b + k, tokens |-> doc[b + k].tokens, joint |-> doc[b + k].joint]]

Total(s) ==
  LET upTo[k \in 0..Len(s)] == IF k = 0 THEN 0 ELSE upTo[k - 1] + s[k]
  IN  upTo[Len(s)]

(* What the packing counts for a group: a joiner with each paragraph. *)
Counted(g) == Total([k \in DOMAIN g |-> g[k].tokens + 1])

(* What its joined text comes to when it is tokenised. *)
Joined(g) == Total([k \in DOMAIN g |-> g[k].tokens + IF k = 1 THEN 0 ELSE g[k].joint])

(* What a header owns is the text up to the next one. *)
Span(m) == Counted(Between(m, NextOf(Headers, m)))

-----------------------------------------------------------------------------
ChunkerInit ==
  /\ doc \in Docs
  /\ phase = "scan" /\ scanned = 0 /\ best = <<>>
  /\ cut = 0 /\ sections = <<>> /\ section = 0
  /\ paras = <<>> /\ groups = <<>> /\ current = <<>> /\ currentTokens = 0
  /\ start = 0
  /\ chunks = <<>>

(* Faulty variant: the earlier header wins at a tie. *)
BeatsStrictly(m, n) == Span(m) > Span(n)

(* _select_section_boundaries: the longest text wins, the later at a tie. *)
Beats(m, n) == Span(m) >= Span(n)

ScanMatch ==
  LET m == NextOf(Headers, scanned)  item == doc[m].item IN
  /\ phase = "scan" /\ m # End
  /\ scanned' = m
  /\ best' = IF item \in DOMAIN best => Beats(m, best[item])
               THEN [i \in DOMAIN best \cup {item} |-> IF i = item THEN m ELSE best[i]]
               ELSE best
  /\ UNCHANGED <<doc, phase, cut, sections, section, packVars, start, chunks>>

EndScan ==
  /\ phase = "scan" /\ NextOf(Headers, scanned) = End
  /\ phase' = "split"
  /\ UNCHANGED <<doc, splitVars, section, packVars, start, chunks>>

(* The headers that lost are text.  Sections are named by their item's     *)
(* number; "Preamble" is 0 and, when there is no header, so is             *)
(* "Full Document".                                                        *)
SplitSection ==
  LET e == NextOf({best[i] : i \in DOMAIN best}, cut)
      name == IF cut = 0 THEN 0 ELSE doc[cut].item
  IN
  /\ phase = "split" /\ cut # End
  /\ sections' = IF Between(cut, e) = <<>> THEN sections
                   ELSE Append(sections, [name |-> name, text |-> Between(cut, e)])
  /\ cut' = e
  /\ UNCHANGED <<doc, phase, best, scanned, section, packVars, start, chunks>>

EndSplit ==
  /\ phase = "split" /\ cut = End
  /\ phase' = "section"
  /\ UNCHANGED <<doc, splitVars, section, packVars, start, chunks>>

NextSection ==
  /\ phase = "section" /\ section < Len(sections)
  /\ section' = section + 1
  /\ paras' = sections[section + 1].text
  /\ groups' = <<>> /\ current' = <<>> /\ currentTokens' = 0
  /\ phase' = "pack"
  /\ UNCHANGED <<doc, splitVars, start, chunks>>

Finish ==
  /\ phase = "section" /\ section = Len(sections)
  /\ phase' = "done"
  /\ UNCHANGED <<doc, splitVars, section, packVars, start, chunks>>

-----------------------------------------------------------------------------
(* pack_paragraphs *)

Packing == phase = "pack" /\ paras # <<>>
Packed == UNCHANGED <<doc, phase, splitVars, section, start, chunks>>
Closed == IF current = <<>> THEN groups ELSE Append(groups, current)
Overflows(n) == current # <<>> /\ currentTokens + n + 1 > MaxTokens

PackOversize ==
  /\ Packing /\ Head(paras).tokens > MaxTokens
  /\ groups' = Append(Closed, <<Head(paras)>>)
  /\ current' = <<>> /\ currentTokens' = 0
  /\ paras' = Tail(paras)
  /\ Packed

(* Faulty variant: current_tokens is not reset. *)
PackNewGroupKeepsCount ==
  /\ Packing /\ Head(paras).tokens <= MaxTokens /\ Overflows(Head(paras).tokens)
  /\ groups' = Closed
  /\ current' = <<Head(paras)>> /\ currentTokens' = currentTokens + Head(paras).tokens + 1
  /\ paras' = Tail(paras)
  /\ Packed

PackNewGroup ==
  /\ Packing /\ Head(paras).tokens <= MaxTokens /\ Overflows(Head(paras).tokens)
  /\ groups' = Closed
  /\ current' = <<Head(paras)>> /\ currentTokens' = Head(paras).tokens + 1
  /\ paras' = Tail(paras)
  /\ Packed

PackAppend ==
  /\ Packing /\ Head(paras).tokens <= MaxTokens /\ ~Overflows(Head(paras).tokens)
  /\ current' = Append(current, Head(paras))
  /\ currentTokens' = currentTokens + Head(paras).tokens + 1
  /\ paras' = Tail(paras)
  /\ Packed /\ UNCHANGED groups

EndPacking ==
  /\ phase = "pack" /\ paras = <<>>
  /\ groups' = Closed
  /\ phase' = "emit"
  /\ UNCHANGED <<doc, splitVars, section, paras, current, currentTokens, start, chunks>>

-----------------------------------------------------------------------------
(* split_by_token_window, and the chunks of chunk_filing *)

Emitting == phase = "emit" /\ groups # <<>>
Emitted == UNCHANGED <<doc, phase, splitVars, section, paras, current, currentTokens>>

(* Faulty variant: chunks are numbered within their section. *)
ChunkIndexInSection == Cardinality({i \in DOMAIN chunks : chunks[i].section = sections[section].name})

ChunkIndex == Len(chunks)

(* Faulty variant: the end is taken as the last token of the window. *)
WindowEndInclusive(n) == IF start + MaxTokens < n THEN start + MaxTokens + 1 ELSE n

WindowEnd(n) == IF start + MaxTokens < n THEN start + MaxTokens ELSE n

Emit(from, to) ==
  chunks' = Append(chunks, [section |-> sections[section].name, index |-> ChunkIndex,
                            group |-> Head(groups), from |-> from, to |-> to])

WholeGroup ==
  /\ Emitting /\ Joined(Head(groups)) <= MaxTokens
  /\ Emit(0, Joined(Head(groups)))
  /\ groups' = Tail(groups)
  /\ Emitted /\ UNCHANGED start

Window ==
  /\ Emitting /\ Joined(Head(groups)) > MaxTokens /\ start < Joined(Head(groups))
  /\ Emit(start, WindowEnd(Joined(Head(groups))))
  /\ start' = start + MaxTokens - Overlap
  /\ Emitted /\ UNCHANGED groups

EndWindows ==
  /\ Emitting /\ Joined(Head(groups)) > MaxTokens /\ start >= Joined(Head(groups))
  /\ groups' = Tail(groups) /\ start' = 0
  /\ Emitted /\ UNCHANGED chunks

EndSection ==
  /\ phase = "emit" /\ groups = <<>>
  /\ phase' = "section"
  /\ UNCHANGED <<doc, splitVars, section, packVars, start, chunks>>

(* make_chunk_id: accession, section name and index one after the other,   *)
(* with nothing between them.  (The accession is that of the document; a   *)
(* digest of the string tells strings apart.)                              *)
Power[k \in Nat] == IF k = 0 THEN 1 ELSE Radix * Power[k - 1]
Shift(index) == Min({Power[k] : k \in 1..index + 1} \ 0..index)
MakeChunkId(name, index) == [item |-> name # 0, digits |-> name * Shift(index) + index]

-----------------------------------------------------------------------------
ChunkerNext ==
  \/ ScanMatch \/ EndScan \/ SplitSection \/ EndSplit \/ NextSection \/ Finish
  \/ PackOversize \/ PackNewGroup \/ PackAppend \/ EndPacking
  \/ WholeGroup \/ Window \/ EndWindows \/ EndSection
  \/ phase = "done" /\ UNCHANGED chunkerVars

ChunkerSpec == ChunkerInit /\ [][ChunkerNext]_chunkerVars

-----------------------------------------------------------------------------
(* Reference definitions. *)

(* A header is its item's section header when no other of the same item    *)
(* has more text after it, nor a later one as much.                        *)
IsHeader(m) ==
  /\ m \in Headers
  /\ \A n \in Headers : doc[n].item = doc[m].item =>
       \/ Span(n) < Span(m)
       \/ Span(n) = Span(m) /\ n <= m

(* The section text at place p belongs to: that of the last section header *)
(* up to there.                                                            *)
SectionOf(p) ==
  LET above == {n \in 1..p : IsHeader(n)}
  IN  IF above = {} THEN 0 ELSE doc[CHOOSE n \in above : \A o \in above : o <= n].item

Text == {p \in DOMAIN doc : ~IsHeader(p)}

(* Tokens of c's window that are of its group's j-th paragraph. *)
TokensIn(c, j) ==
  LET before == Joined(SubSeq(c.group, 1, j)) - c.group[j].tokens
  IN  {t \in 1..c.group[j].tokens : c.from < before + t /\ before + t <= c.to}

Holds(text, p) == \E j \in DOMAIN text : text[j].at = p

(* Every token of the paragraph is in some chunk. *)
Covered(p) ==
  \A t \in 1..doc[p].tokens : \E i \in DOMAIN chunks : \E j \in DOMAIN chunks[i].group :
    chunks[i].group[j].at = p /\ t \in TokensIn(chunks[i], j)

-----------------------------------------------------------------------------
(* chunk_filing: no chunk is empty or larger than the chunk size, and the  *)
(* chunks are numbered from 0 through all sections, in the order they are  *)
(* made.                                                                   *)
ChunkerTypeOK ==
  /\ phase \in {"scan", "split", "section", "pack", "emit", "done"}
  /\ scanned \in 0..Len(doc) /\ cut \in 0..End /\ section \in 0..Len(sections)
  /\ \A i \in DOMAIN best : best[i] \in 1..scanned /\ doc[best[i]].item = i
  /\ \A i \in DOMAIN chunks :
       /\ chunks[i].index = i - 1
       /\ chunks[i].from \in 0..chunks[i].to - 1
       /\ chunks[i].to - chunks[i].from <= MaxTokens
       /\ chunks[i].to <= Joined(chunks[i].group)

(* _select_section_boundaries: losing headers are "absorbed into the       *)
(* preceding section instead of being dropped".  Every token of the filing *)
(* is in a chunk, and only in chunks of the section it stands in.          *)
EveryTokenInItsSection ==
  phase = "done" =>
    \A p \in Text :
      /\ Covered(p)
      /\ \A i \in DOMAIN chunks : Holds(chunks[i].group, p) => chunks[i].section = SectionOf(p)

(* Step 3, "consecutive paragraphs are greedily packed", by the counts     *)
(* pack_paragraphs adds up: several paragraphs are in one group only when  *)
(* they fit, and two neighbouring groups are two only because the first    *)
(* paragraph of the second did not fit in the first.                       *)
PackingGreedy ==
  /\ \A i \in DOMAIN groups : Len(groups[i]) > 1 => Counted(groups[i]) <= MaxTokens
  /\ \A i \in 1..Len(groups) - 1 :
       Counted(groups[i]) + groups[i + 1][1].tokens + 1 > MaxTokens

(* No two chunks of a filing have one id: the second would take the place  *)
(* of the first in document_chunks.                                        *)
ChunkIdsUnique ==
  \A i, j \in DOMAIN chunks : i # j =>
    MakeChunkId(chunks[i].section, chunks[i].index) # MakeChunkId(chunks[j].section, chunks[j].index)

(* Ids are digits of the item's number followed by those of the index, and *)
(* item 1 followed by index 10 reads as item 11 followed by index 0.  That *)
(* does no harm as long as the items' sections come in ascending order.    *)
SectionsAscend == \A i \in 1..Len(sections) - 1 : sections[i].name < sections[i + 1].name
AscendingIdsUnique == SectionsAscend => ChunkIdsUnique

-----------------------------------------------------------------------------
(* The strengthening of the four, loop by loop. *)

Paragraphs == [at : Nat \ {0}, tokens : Nat \ {0}, joint : Nat]
Groups == Seq(Paragraphs) \ {<<>>}
Chunks == [section : Nat, index : Nat, group : Groups, from : Nat, to : Nat]

DataTypes ==
  /\ doc \in Docs
  /\ sections \in Seq([name : Nat, text : Seq(Paragraphs)])
  /\ paras \in Seq(Paragraphs) /\ groups \in Seq(Groups)
  /\ current \in Seq(Paragraphs) /\ currentTokens \in Nat
  /\ start \in Nat /\ chunks \in Seq(Chunks)

(* Of each item seen so far, best has the header with the longest text. *)
ScanInv ==
  /\ \A m \in Headers : m <= scanned => doc[m].item \in DOMAIN best
  /\ \A i \in DOMAIN best :
       /\ best[i] \in Headers /\ best[i] <= scanned /\ doc[best[i]].item = i
       /\ \A n \in Headers : n <= scanned /\ doc[n].item = i =>
            \/ Span(n) < Span(best[i])
            \/ Span(n) = Span(best[i]) /\ n <= best[i]
  /\ phase # "scan" => \A m \in Headers : m <= scanned

(* The paragraphs are the document's, and stand in the section named. *)
Faithful(text, name) ==
  \A q \in DOMAIN text :
    text[q].tokens = doc[text[q].at].tokens /\ SectionOf(text[q].at) = name

(* The text up to the cut is in the sections. *)
SplitInv ==
  /\ phase = "scan" => cut = 0
  /\ phase \in {"scan", "split"} => section = 0 /\ chunks = <<>>
  /\ phase = "split" => cut \in {0, End} \/ IsHeader(cut)
  /\ phase \notin {"scan", "split"} => cut = End
  /\ \A k \in DOMAIN sections : Faithful(sections[k].text, sections[k].name)
  /\ \A p \in Text : p < cut => \E k \in DOMAIN sections : Holds(sections[k].text, p)

(* What is at hand is of the section at hand, and is counted right.        *)
PackInv ==
  /\ phase \in {"pack", "emit"} =>
       /\ section > 0
       /\ Faithful(paras, sections[section].name) /\ Faithful(current, sections[section].name)
       /\ \A g \in DOMAIN groups : Faithful(groups[g], sections[section].name)
  /\ phase = "pack" =>
       /\ currentTokens = Counted(current)
       /\ Len(current) > 1 => Counted(current) <= MaxTokens
       /\ groups # <<>> =>
            IF current = <<>> THEN Counted(groups[Len(groups)]) > MaxTokens
            ELSE Counted(groups[Len(groups)]) + current[1].tokens + 1 > MaxTokens

(* No paragraph is lost on its way from its section to the chunks. *)
OnItsWay(p) ==
  \/ Covered(p)
  \/ phase = "pack" /\ (Holds(paras, p) \/ Holds(current, p))
  \/ phase \in {"pack", "emit"} /\ \E g \in DOMAIN groups : Holds(groups[g], p)

NoneLost ==
  /\ \A k \in DOMAIN sections : \A p \in DOMAIN doc : Holds(sections[k].text, p) =>
       (k < section => Covered(p)) /\ (k = section => OnItsWay(p))
  /\ phase = "done" => section = Len(sections)

(* The windows so far cover the group at hand up to start. *)
EmitInv ==
  /\ start # 0 => phase = "emit" /\ groups # <<>> /\ Joined(groups[1]) > MaxTokens
  /\ \A x \in 1..start : x <= Joined(groups[1]) =>
       \E i \in DOMAIN chunks :
         chunks[i].group = groups[1] /\ chunks[i].from < x /\ x <= chunks[i].to

(* Chunks are of their sections, and in their order. *)
ChunksInv ==
  /\ \A i \in DOMAIN chunks : Faithful(chunks[i].group, chunks[i].section)
  /\ SectionsAscend => \A i \in DOMAIN chunks :
       /\ section > 0 /\ chunks[i].section <= sections[section].name
       /\ \A j \in DOMAIN chunks : i < j => chunks[i].section <= chunks[j].section

ChunkerInv ==
  /\ ChunkerTypeOK /\ DataTypes /\ ScanInv /\ SplitInv /\ PackInv /\ NoneLost
  /\ EmitInv /\ ChunksInv /\ PackingGreedy
=============================================================================
