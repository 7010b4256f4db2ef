------------------------------ MODULE MCChunker ------------------------------
(* Documents for Chunker: up to MaxMarks item headers, each followed by no  *)
(* text, a short paragraph, three that do not fit in one group, three that  *)
(* do until their joined text is tokenised, one that must be split after    *)
(* one that need not, or one of three windows.                              *)
EXTENDS Chunker

CONSTANTS Items, MaxMarks

Plain(lengths, joint) == [k \in DOMAIN lengths |-> [item |-> 0, tokens |-> lengths[k], joint |-> joint]]
MCLeads == {<<>>, Plain(<<1>>, 1)}
MCTexts == {<<>>, Plain(<<1>>, 1), Plain(<<2, 3, 1>>, 0), Plain(<<1, 1, 1>>, 2), Plain(<<1, 8>>, 1), Plain(<<11>>, 1)}

MCItems == {<<[item |-> i, tokens |-> 1, joint |-> 1]>> \o text : i \in Items, text \in MCTexts}

MCDocs == {lead \o FlattenSeq(items) : lead \in MCLeads, items \in UNION {[1..n -> MCItems] : n \in 0..MaxMarks}}
=============================================================================
