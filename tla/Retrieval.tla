----------------------------- MODULE Retrieval -----------------------------
(***************************************************************************)
(* How Retriever.retrieve makes the sources of an answer from the rows of  *)
(* its two searches: reciprocal rank fusion, the cut to candidate_k, and   *)
(* maximal marginal relevance, one pick at a time.                         *)
(*                                                                         *)
(* Either search may return any chunks in any order: the HNSW index is     *)
(* approximate, the lexical leg ranks by words and returns nothing if it   *)
(* fails, and the table changes between the two statements.  Embeddings    *)
(* are integer vectors of one length, so that relevance and similarity     *)
(* are dot products, and reciprocals are taken of Scale, so that the sums  *)
(* are exact.                                                              *)
(***************************************************************************)
EXTENDS Integers, SequencesExt

CONSTANTS
  Chunks, EmbeddingOf,
  Queries,             \* embeddings of questions
  TopKs,
  CandidateMultiplier, \* _CANDIDATE_MULTIPLIER
  MaxCandidates,       \* _MAX_CANDIDATES
  RrfK,                \* _RRF_K
  Scale                \* bound: a multiple of each RrfK + rank

Dot(a, b) == a[1] * b[1] + a[2] * b[2]

ASSUME RetrievalAssumption ==
  /\ IsFiniteSet(Chunks)
  /\ EmbeddingOf \in [Chunks -> Int \X Int]
  /\ Queries \subseteq Int \X Int /\ Queries # {}
  /\ \A a, b \in {EmbeddingOf[c] : c \in Chunks} \cup Queries : Dot(a, a) = Dot(b, b)
  /\ TopKs \subseteq Nat \ {0} /\ TopKs # {} /\ CandidateMultiplier \in Nat \ {0}
  /\ MaxCandidates \in Nat /\ \A k \in TopKs : k <= MaxCandidates
  /\ RrfK \in Nat /\ Scale \in Nat
  /\ \A rank \in 1..MaxCandidates : Scale % (RrfK + rank) = 0

VARIABLES
  stage,
  queryEmbedding, topK,
  vectorRows, lexicalRows,
  candidates,   \* the fused pool after the cut
  selected      \* the sources, in order

retrievalVars ==
  <<stage, queryEmbedding, topK, vectorRows, lexicalRows, candidates, selected>>

(* No request yet, whatever its parameters are. *)
RetrievalInit ==
  /\ stage = "idle"
  /\ queryEmbedding = (CHOOSE q \in Queries : TRUE) /\ topK = (CHOOSE k \in TopKs : TRUE)
  /\ vectorRows = <<>> /\ lexicalRows = <<>>
  /\ candidates = <<>> /\ selected = <<>>

CandidateK == Min({topK * CandidateMultiplier, MaxCandidates})

Rankings == UNION {SetToSeqs(S) : S \in {T \in SUBSET Chunks : Cardinality(T) <= CandidateK}}

RankIn(c, rows) == CHOOSE i \in DOMAIN rows : rows[i] = c
Relevance(c) == Dot(EmbeddingOf[c], queryEmbedding)
Similarity(c, d) == Dot(EmbeddingOf[c], EmbeddingOf[d])

-----------------------------------------------------------------------------
Retrieve ==
  /\ stage \in {"idle", "done"}
  /\ stage' = "vector"
  /\ queryEmbedding' \in Queries /\ topK' \in TopKs
  /\ vectorRows' = <<>> /\ lexicalRows' = <<>> /\ candidates' = <<>> /\ selected' = <<>>

VectorSearch ==
  /\ stage = "vector"
  /\ stage' = "lexical"
  /\ vectorRows' \in Rankings
  /\ UNCHANGED <<queryEmbedding, topK, lexicalRows, candidates, selected>>

LexicalSearch ==
  /\ stage = "lexical"
  /\ stage' = "fuse"
  /\ lexicalRows' \in Rankings
  /\ UNCHANGED <<queryEmbedding, topK, vectorRows, candidates, selected>>

-----------------------------------------------------------------------------
(* _fuse_rrf *)

Share(c, rows) == IF Contains(rows, c) THEN Scale \div (RrfK + RankIn(c, rows)) ELSE 0

(* Faulty variant: a later list's share replaces an earlier one's. *)
RrfScoreLast(c) ==
  IF Contains(lexicalRows, c) THEN Share(c, lexicalRows) ELSE Share(c, vectorRows)

RrfScore(c) == Share(c, vectorRows) + Share(c, lexicalRows)

(* The keys of rrf_scores. *)
Seen == ToSet(vectorRows) \cup ToSet(lexicalRows)

(* They are inserted as they are met, in the vector leg's rows first. *)
SeenBefore(c, d) ==
  IF Contains(vectorRows, c)
    THEN Contains(vectorRows, d) => RankIn(c, vectorRows) < RankIn(d, vectorRows)
    ELSE ~Contains(vectorRows, d) /\ RankIn(c, lexicalRows) < RankIn(d, lexicalRows)

(* Faulty variant: ties go to the chunk seen last. *)
RankedBeforeReversed(c, d) ==
  \/ RrfScore(c) > RrfScore(d)
  \/ RrfScore(c) = RrfScore(d) /\ SeenBefore(d, c)

(* sorted() is stable, its reverse = TRUE included. *)
RankedBefore(c, d) ==
  \/ RrfScore(c) > RrfScore(d)
  \/ RrfScore(c) = RrfScore(d) /\ SeenBefore(c, d)

FuseRrf ==
  /\ stage = "fuse"
  /\ stage' = "mmr"
  /\ \E fused \in SetToSeqs(Seen) :
        /\ \A i, j \in DOMAIN fused : i < j => RankedBefore(fused[i], fused[j])
        /\ candidates' = SubSeq(fused, 1, Min({CandidateK, Len(fused)}))
  /\ UNCHANGED <<queryEmbedding, topK, vectorRows, lexicalRows, selected>>

-----------------------------------------------------------------------------
(* _apply_mmr, with lambda_mmr = 0.5 *)

(* Places of the candidates not yet selected. *)
Remaining == {i \in DOMAIN candidates : ~Contains(selected, candidates[i])}

Redundancy(c, chosen) == Max({Similarity(c, s) : s \in ToSet(chosen)})

(* Faulty variant: only the latest choice counts. *)
MmrScoreLast(c) ==
  IF selected = <<>> THEN Relevance(c) ELSE Relevance(c) - Similarity(c, Last(selected))

(* Twice the score of the code. *)
MmrScore(c) ==
  IF selected = <<>> THEN Relevance(c) ELSE Relevance(c) - Redundancy(c, selected)

(* The first of the best: the comparison is strict. *)
IsBest(i) ==
  \A j \in Remaining :
    IF j < i THEN MmrScore(candidates[j]) < MmrScore(candidates[i])
             ELSE MmrScore(candidates[j]) <= MmrScore(candidates[i])

SelectChunk ==
  /\ stage = "mmr"
  /\ Len(selected) < topK
  /\ \E i \in Remaining : IsBest(i) /\ selected' = Append(selected, candidates[i])
  /\ UNCHANGED <<stage, queryEmbedding, topK, vectorRows, lexicalRows, candidates>>

EndRetrieve ==
  /\ stage = "mmr"
  /\ Remaining = {} \/ Len(selected) = topK
  /\ stage' = "done"
  /\ UNCHANGED <<queryEmbedding, topK, vectorRows, lexicalRows, candidates, selected>>

RetrievalNext ==
  Retrieve \/ VectorSearch \/ LexicalSearch \/ FuseRrf \/ SelectChunk \/ EndRetrieve

RetrievalSpec == RetrievalInit /\ [][RetrievalNext]_retrievalVars

-----------------------------------------------------------------------------
(* The row the vector leg puts first survives fusion and the cut, whatever *)
(* the lexical leg returns, and the first source is at least as relevant.  *)
(* It takes the pool being as large as a leg and ties going to the list    *)
(* that is fused first; the lexical leg's first row has no such guarantee. *)
NearestKept ==
  stage \in {"mmr", "done"} /\ vectorRows # <<>> =>
    /\ Contains(candidates, Head(vectorRows))
    /\ selected # <<>> => Relevance(selected[1]) >= Relevance(Head(vectorRows))

(* The leg does not rank d before c, nor return d alone. *)
Agrees(c, d, rows) ==
  Contains(rows, d) => Contains(rows, c) /\ RankIn(c, rows) < RankIn(d, rows)

(* Fusion, with its cut, never contradicts what both legs agree on: a      *)
(* chunk that each of them ranks before some candidate is a candidate too, *)
(* and comes before it.                                                    *)
AgreementRanksFirst ==
  \A c \in Seen : \A j \in DOMAIN candidates :
    Agrees(c, candidates[j], vectorRows) /\ Agrees(c, candidates[j], lexicalRows) =>
      \E i \in 1..j - 1 : candidates[i] = c

(* MMR passes a more relevant candidate over only for being more redundant *)
(* with the sources chosen before, not merely with the latest of them.     *)
PassedOverForRedundancy ==
  \A i \in DOMAIN selected : \A c \in ToSet(candidates) :
    LET chosen == SubSeq(selected, 1, i - 1)
    IN ~Contains(SubSeq(selected, 1, i), c) /\ Relevance(c) > Relevance(selected[i]) =>
         /\ chosen # <<>>
         /\ Redundancy(c, chosen) > Redundancy(selected[i], chosen)

-----------------------------------------------------------------------------
(* The strengthening of the three: each stage fills in its part, and what  *)
(* is selected are candidates.                                             *)
RetrievalInv ==
  /\ stage \in {"idle", "vector", "lexical", "fuse", "mmr", "done"}
  /\ queryEmbedding \in Queries /\ topK \in TopKs
  /\ vectorRows \in Rankings /\ lexicalRows \in Rankings
  /\ candidates \in Seq(Chunks) /\ selected \in Seq(ToSet(candidates))
  /\ stage \notin {"mmr", "done"} => candidates = <<>>
  /\ NearestKept /\ AgreementRanksFirst /\ PassedOverForRedundancy
=============================================================================
