----------------------------- MODULE LoopProofs ------------------------------
(***************************************************************************)
(* The EDGAR client, for every number of callers, permits and attempts and *)
(* for every submissions index; the chunker, for every document, chunk     *)
(* size and overlap.  Both are loops over data of any length: ListFilings, *)
(* Wait, Total and Power are recursive functions, and that they are        *)
(* defined at all is shown by induction over the numbers, which is stated  *)
(* here for sets of numbers.                                               *)
(***************************************************************************)
EXTENDS EdgarClient, Chunker, FiniteSetTheorems, SequenceTheorems, WellFoundedInduction, TLAPS

-----------------------------------------------------------------------------
(* Every set of numbers has a least element. *)
LEMMA LeastElement ==
  ASSUME NEW T \in SUBSET Nat, T # {}
  PROVE  \E x \in T : \A y \in T : x <= y
<1> DEFINE D == {0..x : x \in T}
<1>1. D \subseteq FiniteSubsetsOf(Nat)
  <2> SUFFICES ASSUME NEW x \in T PROVE 0..x \in FiniteSubsetsOf(Nat)
    OBVIOUS
  <2>1. IsFiniteSet(0..x)
    BY FS_Interval
  <2>2. 0..x \in SUBSET Nat
    OBVIOUS
  <2> QED
    BY <2>1, <2>2 DEF FiniteSubsetsOf
<1>2. D # {}
  OBVIOUS
<1>3. PICK d \in D : \A e \in D : ~ (<<e, d>> \in StrictSubsetOrdering(Nat))
  <2> HIDE DEF D
  <2> QED
    BY <1>1, <1>2, WFMin, FS_StrictSubsetOrderingWellFounded
<1>4. PICK x \in T : d = 0..x
  BY <1>3
<1>5. ASSUME NEW y \in T, y < x
      PROVE  FALSE
  <2>1. 0..y \in SUBSET Nat /\ d \in SUBSET Nat /\ 0..y \subseteq d
    BY <1>4, <1>5
  <2>2. 0..y # d
    <3>1. x \in 0..x /\ x \notin 0..y
      BY <1>5
    <3> QED
      BY <3>1, <1>4
  <2>3. 0..y \in D
    OBVIOUS
  <2>4. <<0..y, d>> \in StrictSubsetOrdering(Nat)
    <3> DEFINE e == 0..y
    <3> HIDE DEF e, D
    <3>1. e \in SUBSET Nat /\ d \in SUBSET Nat /\ e \subseteq d /\ e # d
      BY <2>1, <2>2 DEF e
    <3>2. <<e, d>> \in StrictSubsetOrdering(Nat)
      BY <3>1 DEF StrictSubsetOrdering
    <3> QED
      BY <3>2 DEF e
  <2> QED
    BY <1>3, <2>3, <2>4
<1> QED
  BY <1>5

(* Induction: a set that has 0 and every successor has every number. *)
LEMMA InductionOnSets ==
  ASSUME NEW S, 0 \in S, \A n \in Nat : n \in S => n + 1 \in S
  PROVE  \A n \in Nat : n \in S
<1> SUFFICES ASSUME NEW m \in Nat, m \notin S
             PROVE  FALSE
  OBVIOUS
<1> DEFINE T == {n \in Nat : n \notin S}
<1>1. PICK x \in T : \A y \in T : x <= y
  <2>1. T \in SUBSET Nat /\ T # {}
    OBVIOUS
  <2> HIDE DEF T
  <2> QED
    BY <2>1, LeastElement
<1>2. x # 0 /\ x - 1 \in Nat
  OBVIOUS
<1>3. x - 1 \in S
  BY <1>1, <1>2
<1> QED
  BY <1>2, <1>3

(* A function may be defined on the numbers by its value at 0 and a step.  *)
Recursion(f, S, base, step) ==
  /\ f \in [Nat -> S]
  /\ f[0] = base
  /\ \A n \in Nat : f[n + 1] = step[<<n, f[n]>>]

LEMMA RecursionOnNat ==
  ASSUME NEW S, NEW base \in S, NEW step \in [Nat \X S -> S]
  PROVE  \E f : Recursion(f, S, base, step)
<1> DEFINE
      Upto(n, g) ==
        /\ g \in [0..n -> S]
        /\ g[0] = base
        /\ \A k \in 0..n : k # n => g[k + 1] = step[<<k, g[k]>>]
<1>1. \A n \in Nat : \E g : Upto(n, g)
  <2> DEFINE G == {n \in Nat : \E g : Upto(n, g)}
  <2>1. 0 \in G
    <3>1. Upto(0, [k \in 0..0 |-> base])
      OBVIOUS
    <3> QED
      BY <3>1
  <2>2. ASSUME NEW n \in Nat, n \in G
        PROVE  n + 1 \in G
    <3>1. PICK g : Upto(n, g)
      BY <2>2
    <3> DEFINE h == [k \in 0..(n + 1) |-> IF k = n + 1 THEN step[<<n, g[n]>>] ELSE g[k]]
    <3>2. h \in [0..(n + 1) -> S]
      <4>1. step[<<n, g[n]>>] \in S
        BY <3>1
      <4>2. \A k \in 0..(n + 1) : k # n + 1 => g[k] \in S
        BY <3>1
      <4> QED
        BY <4>1, <4>2
    <3>3. h[0] = base
      BY <3>1
    <3>4. ASSUME NEW k \in 0..(n + 1), k # n + 1
          PROVE  h[k + 1] = step[<<k, h[k]>>]
      <4>1. k + 1 \in 0..(n + 1) /\ h[k] = g[k]
        BY <3>4
      <4>2. CASE k = n
        BY <4>1, <4>2
      <4>3. CASE k # n
        BY <3>1, <4>1, <4>3
      <4> QED
        BY <4>2, <4>3
    <3>5. Upto(n + 1, h)
      BY <3>2, <3>3, <3>4
    <3> HIDE DEF Upto, h
    <3> QED
      BY <3>5
  <2> HIDE DEF G
  <2>3. \A n \in Nat : n \in G
    BY <2>1, <2>2, InductionOnSets
  <2> QED
    BY <2>3 DEF G
<1>2. ASSUME NEW m \in Nat, NEW n \in Nat, m <= n, NEW g, NEW h, Upto(m, g), Upto(n, h)
      PROVE  g[m] = h[m]
  <2> DEFINE E == {k \in Nat : k <= m => g[k] = h[k]}
  <2>1. 0 \in E
    BY <1>2
  <2>2. ASSUME NEW k \in Nat, k \in E
        PROVE  k + 1 \in E
    <3>1. CASE k + 1 <= m
      <4>1. k \in 0..m /\ k # m /\ k \in 0..n /\ k # n /\ g[k] = h[k]
        BY <1>2, <2>2, <3>1
      <4>2. g[k + 1] = step[<<k, g[k]>>] /\ h[k + 1] = step[<<k, h[k]>>]
        BY <1>2, <4>1
      <4> QED
        BY <4>1, <4>2
    <3>2. CASE ~ (k + 1 <= m)
      BY <3>2
    <3> QED
      BY <3>1, <3>2
  <2> HIDE DEF E
  <2>3. \A k \in Nat : k \in E
    BY <2>1, <2>2, InductionOnSets
  <2> QED
    BY <2>3 DEF E
<1> DEFINE G(n) == CHOOSE g : Upto(n, g)
           f == [n \in Nat |-> G(n)[n]]
<1>3. \A n \in Nat : Upto(n, G(n))
  BY <1>1
<1> HIDE DEF G
<1>4. f \in [Nat -> S]
  BY <1>3
<1>5. f[0] = base
  BY <1>3
<1>6. ASSUME NEW n \in Nat
      PROVE  f[n + 1] = step[<<n, f[n]>>]
  <2>1. G(n)[n] = G(n + 1)[n]
    <3>1. n + 1 \in Nat /\ n <= n + 1 /\ Upto(n, G(n)) /\ Upto(n + 1, G(n + 1))
      BY <1>3
    <3> HIDE DEF Upto
    <3> QED
      BY <1>2, <3>1
  <2>2. G(n + 1)[n + 1] = step[<<n, G(n + 1)[n]>>]
    BY <1>3
  <2> QED
    BY <2>1, <2>2
<1>7. Recursion(f, S, base, step)
  <2> HIDE DEF f
  <2> QED
    BY <1>4, <1>5, <1>6 DEF Recursion
<1> QED
  BY <1>7

-----------------------------------------------------------------------------
(* Wait[n] is a number. *)
LEMMA WaitType == \A n \in Nat : Wait[n] \in Nat
<1> DEFINE Equation(w) == w = [n \in Nat |-> IF n = 0 THEN 1 ELSE 2 * w[n - 1]]
<1>1. \E w : Equation(w)
  <2> DEFINE double == [p \in Nat \X Nat |-> 2 * p[2]]
  <2>1. double \in [Nat \X Nat -> Nat] /\ 1 \in Nat
    OBVIOUS
  <2>2. \A n, x \in Nat : double[<<n, x>>] = 2 * x
    OBVIOUS
  <2> HIDE DEF double
  <2>3. PICK f : Recursion(f, Nat, 1, double)
    BY <2>1, RecursionOnNat
  <2>4. ASSUME NEW n \in Nat
        PROVE  f[n] = IF n = 0 THEN 1 ELSE 2 * f[n - 1]
    <3>1. CASE n = 0
      BY <2>3, <3>1 DEF Recursion
    <3>2. CASE n # 0
      <4>1. n - 1 \in Nat /\ (n - 1) + 1 = n
        BY <3>2
      <4>2. f[n] = double[<<n - 1, f[n - 1]>>] /\ f[n - 1] \in Nat
        BY <2>3, <4>1 DEF Recursion
      <4> QED
        BY <2>2, <3>2, <4>1, <4>2
    <3> QED
      BY <3>1, <3>2
  <2>5. Equation(f)
    BY <2>3, <2>4 DEF Recursion
  <2> QED
    BY <2>5
<1>2. Equation(Wait)
  BY <1>1 DEF Wait
<1> DEFINE W == {n \in Nat : Wait[n] \in Nat}
<1>3. 0 \in W
  BY <1>2
<1>4. ASSUME NEW n \in Nat, n \in W
      PROVE  n + 1 \in W
  <2>1. Wait[n + 1] = 2 * Wait[n]
    BY <1>2
  <2> QED
    BY <1>4, <2>1
<1> HIDE DEF W
<1>5. \A n \in Nat : n \in W
  BY <1>3, <1>4, InductionOnSets
<1> QED
  BY <1>5 DEF W

(* fs holds the first MaxFilings eligible entries among es[1], ..., es[n], *)
(* or all of them when there are no more, in their order.                  *)
FirstEligible(es, n, fs) ==
  /\ fs \in Seq(Entries)
  /\ Len(fs) <= MaxFilings
  /\ \E at \in [DOMAIN fs -> 1..n] :
       /\ Ascending(at)
       /\ \A k \in DOMAIN fs : fs[k] = es[at[k]] /\ Eligible(es[at[k]])
       /\ \A i \in 1..n : Eligible(es[i]) =>
            \/ \E k \in DOMAIN fs : at[k] = i
            \/ Len(fs) = MaxFilings /\ \A k \in DOMAIN fs : at[k] < i

(* One turn of the loop over the entries. *)
LEMMA NextEntry ==
  ASSUME NEW es \in Seq(Entries), NEW n \in Nat, n + 1 <= Len(es), NEW fs,
         FirstEligible(es, n, fs)
  PROVE  FirstEligible(es, n + 1,
           IF Eligible(es[n + 1]) /\ Len(fs) < MaxFilings
             THEN Append(fs, es[n + 1]) ELSE fs)
<1>1. MaxFilings \in Nat
  BY EdgarAssumption
<1>2. fs \in Seq(Entries) /\ Len(fs) \in Nat /\ Len(fs) <= MaxFilings /\ DOMAIN fs = 1..Len(fs)
  BY DEF FirstEligible
<1>0. Len(fs) < MaxFilings \/ Len(fs) = MaxFilings
  <2> DEFINE m == Len(fs)
  <2>1. m \in Nat /\ m <= MaxFilings
    BY <1>2
  <2> HIDE DEF m
  <2>2. m < MaxFilings \/ m = MaxFilings
    BY <1>1, <2>1
  <2> QED
    BY <2>2 DEF m
<1>3. PICK at \in [DOMAIN fs -> 1..n] :
       /\ Ascending(at)
       /\ \A k \in DOMAIN fs : fs[k] = es[at[k]] /\ Eligible(es[at[k]])
       /\ \A i \in 1..n : Eligible(es[i]) =>
            \/ \E k \in DOMAIN fs : at[k] = i
            \/ Len(fs) = MaxFilings /\ \A k \in DOMAIN fs : at[k] < i
  BY DEF FirstEligible
<1>4. es[n + 1] \in Entries
  OBVIOUS
<1>5. CASE Eligible(es[n + 1]) /\ Len(fs) < MaxFilings
  <2> DEFINE gs == Append(fs, es[n + 1])
             to == [k \in DOMAIN gs |-> IF k \in DOMAIN fs THEN at[k] ELSE n + 1]
  <2>1. /\ gs \in Seq(Entries) /\ Len(gs) = Len(fs) + 1 /\ DOMAIN gs = 1..(Len(fs) + 1)
        /\ gs[Len(fs) + 1] = es[n + 1] /\ \A k \in DOMAIN fs : gs[k] = fs[k]
    BY <1>2, <1>4
  <2> HIDE DEF gs
  <2>2. to \in [DOMAIN gs -> 1..(n + 1)]
    BY <1>2, <1>3, <2>1
  <2>3. \A k \in DOMAIN gs : k \in DOMAIN fs \/ k = Len(fs) + 1
    BY <1>2, <2>1
  <2>4. Ascending(to)
    BY <1>2, <1>3, <2>1, <2>3 DEF Ascending
  <2>5. \A k \in DOMAIN gs : gs[k] = es[to[k]] /\ Eligible(es[to[k]])
    BY <1>2, <1>3, <1>5, <2>1, <2>3
  <2>6. \A i \in 1..(n + 1) : Eligible(es[i]) => \E k \in DOMAIN gs : to[k] = i
    <3> SUFFICES ASSUME NEW i \in 1..(n + 1), Eligible(es[i])
                 PROVE  \E k \in DOMAIN gs : to[k] = i
      OBVIOUS
    <3>1. CASE i = n + 1
      <4>1. Len(fs) + 1 \in DOMAIN gs /\ to[Len(fs) + 1] = n + 1
        BY <1>2, <2>1
      <4> QED
        BY <3>1, <4>1
    <3>2. CASE i # n + 1
      <4>0. i \in 1..n
        BY <3>2
      <4>2. Len(fs) # MaxFilings
        <5> DEFINE m == Len(fs)
        <5>1. m \in Nat /\ m < MaxFilings
          BY <1>2, <1>5
        <5> HIDE DEF m
        <5>2. m # MaxFilings
          BY <1>1, <5>1
        <5> QED
          BY <5>2 DEF m
      <4>1. PICK k \in DOMAIN fs : at[k] = i
        BY <1>3, <4>0, <4>2
      <4>3. k \in DOMAIN gs /\ to[k] = i
        BY <1>2, <2>1, <4>1
      <4> QED
        BY <4>3
    <3> QED
      BY <3>1, <3>2
  <2>7. Len(gs) <= MaxFilings
    BY <1>1, <1>2, <1>5, <2>1
  <2>8. FirstEligible(es, n + 1, gs)
    <3> HIDE DEF to
    <3> QED
      BY <2>1, <2>2, <2>4, <2>5, <2>6, <2>7 DEF FirstEligible
  <2> QED
    BY <1>5, <2>8 DEF gs
<1>6. CASE ~ (Eligible(es[n + 1]) /\ Len(fs) < MaxFilings)
  <2>1. at \in [DOMAIN fs -> 1..(n + 1)]
    BY <1>3
  <2>2. \A i \in 1..(n + 1) : Eligible(es[i]) =>
            \/ \E k \in DOMAIN fs : at[k] = i
            \/ Len(fs) = MaxFilings /\ \A k \in DOMAIN fs : at[k] < i
    <3> SUFFICES ASSUME NEW i \in 1..(n + 1), Eligible(es[i])
                 PROVE  \/ \E k \in DOMAIN fs : at[k] = i
                        \/ Len(fs) = MaxFilings /\ \A k \in DOMAIN fs : at[k] < i
      OBVIOUS
    <3>1. CASE i = n + 1
      <4>0. ~ (Len(fs) < MaxFilings)
        BY <1>6, <3>1
      <4>1. Len(fs) = MaxFilings
        BY <1>0, <4>0
      <4> QED
        BY <1>3, <3>1, <4>1
    <3>2. CASE i # n + 1
      BY <1>3, <3>2
    <3> QED
      BY <3>1, <3>2
  <2>3. FirstEligible(es, n + 1, fs)
    BY <1>2, <1>3, <2>1, <2>2 DEF FirstEligible
  <2> QED
    BY <1>6, <2>3
<1> QED
  BY <1>5, <1>6

(* list_10k_filings, for every submissions index: complete 10-K entries    *)
(* since the cut-off, in EDGAR's order, the first max_filings_per_ticker.  *)
THEOREM ListFilingsCorrect ==
  ASSUME NEW es \in Seq(Entries)
  PROVE  FirstEligible(es, Len(es), ListFilings(es))
<1> DEFINE
      turn(n, before) ==
        IF Eligible(es[n]) /\ Len(before) < MaxFilings THEN Append(before, es[n]) ELSE before
      Equation(l) ==
        l = [n \in 0..Len(es) |-> IF n = 0 THEN <<>> ELSE turn(n, l[n - 1])]
<1>1. \E l : Equation(l)
  <2> DEFINE step == [p \in Nat \X Seq(Entries) |->
                        IF p[1] + 1 \in 1..Len(es) THEN turn(p[1] + 1, p[2]) ELSE p[2]]
  <2>1. step \in [Nat \X Seq(Entries) -> Seq(Entries)]
    <3> SUFFICES ASSUME NEW n \in Nat, NEW fs \in Seq(Entries)
                 PROVE  step[<<n, fs>>] \in Seq(Entries)
      OBVIOUS
    <3>1. CASE n + 1 \in 1..Len(es)
      <4>1. es[n + 1] \in Entries
        BY <3>1
      <4> QED
        BY <3>1, <4>1
    <3>2. CASE n + 1 \notin 1..Len(es)
      BY <3>2
    <3> QED
      BY <3>1, <3>2
  <2>2. \A n \in Nat, fs \in Seq(Entries) : n + 1 \in 1..Len(es) =>
          step[<<n, fs>>] = turn(n + 1, fs)
    OBVIOUS
  <2>3. <<>> \in Seq(Entries)
    OBVIOUS
  <2> HIDE DEF step, turn
  <2>4. PICK f : Recursion(f, Seq(Entries), <<>>, step)
    BY <2>1, <2>3, RecursionOnNat
  <2> DEFINE l == [n \in 0..Len(es) |-> f[n]]
  <2>5. ASSUME NEW n \in 0..Len(es)
        PROVE  l[n] = IF n = 0 THEN <<>> ELSE turn(n, l[n - 1])
    <3>1. CASE n = 0
      BY <2>4, <3>1 DEF Recursion
    <3>2. CASE n # 0
      <4>1. n - 1 \in Nat /\ (n - 1) + 1 = n /\ n - 1 \in 0..Len(es) /\ n \in 1..Len(es)
        BY <3>2
      <4>2. f[n] = turn(n, f[n - 1])
        BY <2>2, <2>4, <4>1 DEF Recursion
      <4> QED
        BY <3>2, <4>1, <4>2
    <3> QED
      BY <3>1, <3>2
  <2>6. Equation(l)
    BY <2>5
  <2> QED
    BY <2>6
<1> DEFINE listed == CHOOSE l : Equation(l)
<1>2. Equation(listed)
  <2> HIDE DEF Equation
  <2> QED
    BY <1>1
<1>3. ListFilings(es) = listed[Len(es)]
  BY DEF ListFilings
<1> HIDE DEF listed
<1> DEFINE L == {n \in Nat : n <= Len(es) => FirstEligible(es, n, listed[n])}
<1>4. 0 \in L
  <2>1. listed[0] = <<>>
    BY <1>2
  <2>2. FirstEligible(es, 0, <<>>)
    <3>1. <<>> \in [DOMAIN <<>> -> 1..0]
      OBVIOUS
    <3>2. DOMAIN <<>> = {} /\ Len(<<>>) = 0 /\ <<>> \in Seq(Entries)
      OBVIOUS
    <3>3. \A i \in 1..0 : FALSE
      OBVIOUS
    <3>4. Len(<<>>) <= MaxFilings
      BY <3>2, EdgarAssumption
    <3> QED
      BY <3>1, <3>2, <3>3, <3>4 DEF FirstEligible, Ascending
  <2> QED
    BY <2>1, <2>2
<1>5. ASSUME NEW n \in Nat, n \in L
      PROVE  n + 1 \in L
  <2>1. CASE n + 1 <= Len(es)
    <3>0. n + 1 \in 0..Len(es) /\ n + 1 # 0 /\ (n + 1) - 1 = n
      BY <2>1
    <3>1. listed[n + 1] = turn(n + 1, listed[n])
      <4> HIDE DEF turn
      <4> QED
        BY <1>2, <3>0
    <3>2. FirstEligible(es, n, listed[n])
      BY <1>5, <2>1
    <3> QED
      BY <2>1, <3>1, <3>2, NextEntry
  <2>2. CASE ~ (n + 1 <= Len(es))
    BY <2>2
  <2> QED
    BY <2>1, <2>2
<1> HIDE DEF L
<1>6. \A n \in Nat : n \in L
  BY <1>4, <1>5, InductionOnSets
<1> QED
  BY <1>3, <1>6 DEF L

-----------------------------------------------------------------------------
(* Permits: what one caller takes, it is seen to hold. *)
LEMMA PermitsBalance ==
  ASSUME PermitInv, NEW c \in Callers, NEW l, pc' = [pc EXCEPT ![c] = l],
         \/ l \in Holding /\ pc[c] \notin Holding /\ permits > 0 /\ permits' = permits - 1
         \/ l \notin Holding /\ pc[c] \in Holding /\ permits' = permits + 1
         \/ (l \in Holding <=> pc[c] \in Holding) /\ permits' = permits
  PROVE  /\ permits' \in 0..RateLimit
         /\ IsFiniteSet(Holders)'
         /\ permits' + Cardinality(Holders)' = RateLimit
<1>1. /\ IsFiniteSet(Holders) /\ Cardinality(Holders) \in Nat
      /\ permits \in Nat /\ permits + Cardinality(Holders) = RateLimit
  BY FS_CardinalityType DEF PermitInv, EdgarTypeOK
<1>2. RateLimit \in Nat
  BY EdgarAssumption
<1>3. pc \in [Callers -> Ended \cup Holding \cup {"resolve", "ask", "backoff"}]
  BY DEF PermitInv, EdgarTypeOK
<1>4. CASE l \in Holding /\ pc[c] \notin Holding /\ permits > 0 /\ permits' = permits - 1
  <2>1. Holders' = Holders \cup {c} /\ c \notin Holders
    BY <1>3, <1>4 DEF Holders
  <2>2. IsFiniteSet(Holders)' /\ Cardinality(Holders)' = Cardinality(Holders) + 1
    BY <1>1, <2>1, FS_AddElement
  <2> QED
    BY <1>1, <1>2, <1>4, <2>2
<1>5. CASE l \notin Holding /\ pc[c] \in Holding /\ permits' = permits + 1
  <2>1. Holders' = Holders \ {c} /\ c \in Holders
    BY <1>3, <1>5 DEF Holders
  <2>2. IsFiniteSet(Holders)' /\ Cardinality(Holders)' = Cardinality(Holders) - 1
    BY <1>1, <2>1, FS_RemoveElement
  <2>3. Cardinality(Holders)' \in Nat
    BY <2>2, FS_CardinalityType
  <2> QED
    BY <1>1, <1>2, <1>5, <2>2, <2>3
<1>6. CASE (l \in Holding <=> pc[c] \in Holding) /\ permits' = permits
  <2>1. Holders' = Holders
    BY <1>3, <1>6 DEF Holders
  <2> QED
    BY <1>1, <1>2, <1>6, <2>1
<1> QED
  BY <1>4, <1>5, <1>6

(* Every action of a caller moves that caller alone, and takes or releases *)
(* a permit exactly when it starts or ceases to hold one.                  *)
LEMMA PermitStep ==
  ASSUME PermitInv, EdgarNext
  PROVE  /\ permits' \in 0..RateLimit
         /\ IsFiniteSet(Holders)'
         /\ permits' + Cardinality(Holders)' = RateLimit
<1> USE DEF Holding, Ended, Goto, Ask, Release, NextDocument, callVars
<1>1. CASE Tick
  BY <1>1 DEF Tick, PermitInv, EdgarTypeOK, Holders
<1>2. ASSUME NEW c \in Callers, Call(c) \/ CallerStep(c)
      PROVE  \E l :
               /\ pc' = [pc EXCEPT ![c] = l]
               /\ \/ l \in Holding /\ pc[c] \notin Holding /\ permits > 0
                     /\ permits' = permits - 1
                  \/ l \notin Holding /\ pc[c] \in Holding /\ permits' = permits + 1
                  \/ (l \in Holding <=> pc[c] \in Holding) /\ permits' = permits
  <2>1. CASE Call(c) \/ NeedMap(c) \/ Resolved(c) \/ UnknownTicker(c)
    BY <2>1 DEF Call, NeedMap, Resolved, UnknownTicker
  <2>2. CASE Send(c) \/ GoodAnswer(c) \/ ClientError(c) \/ EndBackoff(c)
    BY <2>2 DEF Send, GoodAnswer, ClientError, EndBackoff
  <2>3. CASE GiveUpDocument(c) \/ DocumentParsed(c) \/ DocumentEmpty(c)
    BY <2>3 DEF GiveUpDocument, DocumentParsed, DocumentEmpty, Awake
  <2>4. CASE SubmissionsListed(c)
    BY <2>4 DEF SubmissionsListed, Awake
  <2>5. CASE GiveUp(c) \/ MapLoaded(c) \/ MapRaises(c) \/ SubmissionsRaise(c) \/ DocumentRaises(c) \/ FactsArrive(c)
    BY <2>5 DEF GiveUp, MapLoaded, MapRaises, SubmissionsRaise, DocumentRaises, FactsArrive, Awake
  <2> QED
    BY <1>2, <2>1, <2>2, <2>3, <2>4, <2>5 DEF CallerStep
<1>3. ASSUME NEW c \in Callers, Call(c) \/ CallerStep(c)
      PROVE  /\ permits' \in 0..RateLimit
             /\ IsFiniteSet(Holders)'
             /\ permits' + Cardinality(Holders)' = RateLimit
  BY <1>2, <1>3, PermitsBalance
<1> QED
  BY <1>1, <1>3 DEF EdgarNext

(* A listing is a sequence of entries, whose length is a number. *)
LEMMA ListingType ==
  ASSUME NEW s \in Listed
  PROVE  ListFilings(Submissions[s]) \in Seq(Entries)
  BY EdgarAssumption, ListFilingsCorrect DEF FirstEligible

(* Where the loop over the listing sends the caller. *)
LEMMA NextDocumentTypes ==
  ASSUME EdgarTypeOK, NEW c \in Callers, NEW fs, NEW n, NextDocument(c, fs, n)
  PROVE  /\ pc' \in [Callers -> Ended \cup Holding \cup {"resolve", "ask", "backoff"}]
         /\ request' \in [Callers -> Downloads]
         /\ attempt' \in [Callers -> 1..MaxRetries]
         /\ \A d \in Callers : d # c => pc'[d] = pc[d] /\ request'[d] = request[d]
         /\ n < Len(fs) => pc'[c] = "ask" /\ request'[c] = "document"
         /\ ~ (n < Len(fs)) => pc'[c] = "returned" /\ request'[c] = request[c]
<1> USE DEF Ended, Holding, Downloads, Goto, Ask
<1>1. 1 \in 1..MaxRetries
  BY EdgarAssumption
<1>2. CASE n < Len(fs)
  BY <1>1, <1>2 DEF NextDocument, EdgarTypeOK
<1>3. CASE ~ (n < Len(fs))
  BY <1>3 DEF NextDocument, EdgarTypeOK
<1> QED
  BY <1>2, <1>3

(* Type correctness is preserved by every step. *)
LEMMA EdgarTypeStep ==
  ASSUME ResultInv, EdgarNext
  PROVE  EdgarTypeOK'
<1>1. EdgarTypeOK
  BY DEF ResultInv, PermitInv
<1>2. permits' \in 0..RateLimit
  BY PermitStep DEF ResultInv
<1>3. RateLimit \in Nat \ {0} /\ MaxRetries \in Nat \ {0}
  BY EdgarAssumption
<1> USE DEF Holding, Ended, Downloads, Goto, Ask
<1>4. CASE Tick
  <2>1. rest' \in [Callers -> Nat]
    BY <1>1, <1>4 DEF Tick, EdgarTypeOK
  <2> QED
    BY <1>1, <1>4, <2>1 DEF Tick, EdgarTypeOK, callVars
<1>5. ASSUME NEW c \in Callers, Call(c)
      PROVE  EdgarTypeOK'
  <2>1. <<>> \in Seq(Entries) /\ <<>> \in Seq(Nat) /\ Len(<<>>) = 0
    OBVIOUS
  <2>2. PICK s \in Symbols, g \in {"filings", "facts"} :
          symbol' = [symbol EXCEPT ![c] = s] /\ goal' = [goal EXCEPT ![c] = g]
    BY <1>5 DEF Call
  <2>3. symbol' \in [Callers -> Symbols \cup {None}] /\ goal' \in [Callers -> {"filings", "facts"}]
    BY <1>1, <2>2 DEF EdgarTypeOK
  <2>4. \A d \in Callers : pc'[d] \notin {"idle", "resolve", "unknown"} /\ request'[d] # "map" =>
          symbol'[d] \in Listed
    BY <1>1, <1>5, <2>2 DEF Call, EdgarTypeOK
  <2>5. /\ listing' \in [Callers -> Seq(Entries)] /\ visited' \in [Callers -> Nat]
        /\ \A d \in Callers : visited'[d] \in 0..Len(listing'[d])
        /\ filings' \in [Callers -> Seq(Nat)] /\ failed' \in [Callers -> SUBSET Nat]
    BY <1>1, <1>5, <2>1 DEF Call, EdgarTypeOK
  <2> QED
    BY <1>1, <1>2, <1>5, <2>3, <2>4, <2>5 DEF Call, EdgarTypeOK
<1>6. ASSUME NEW c \in Callers,
             NeedMap(c) \/ Resolved(c) \/ UnknownTicker(c) \/ EndBackoff(c) \/ Send(c)
      PROVE  EdgarTypeOK'
  <2>1. CASE NeedMap(c)
    BY <1>1, <1>2, <1>3, <2>1 DEF NeedMap, EdgarTypeOK
  <2>2. CASE Resolved(c)
    BY <1>1, <1>2, <1>3, <2>2 DEF Resolved, EdgarTypeOK
  <2>3. CASE UnknownTicker(c) \/ EndBackoff(c)
    BY <1>1, <1>2, <2>3 DEF UnknownTicker, EndBackoff, EdgarTypeOK, callVars
  <2>4. CASE Send(c)
    BY <1>1, <1>2, <2>4 DEF Send, EdgarTypeOK, callVars
  <2> QED
    BY <1>6, <2>1, <2>2, <2>3, <2>4
<1>7. ASSUME NEW c \in Callers, GoodAnswer(c) \/ GiveUp(c) \/ SubmissionsRaise(c) \/ DocumentRaises(c) \/ FactsArrive(c)
      PROVE  EdgarTypeOK'
  <2>1. CASE GoodAnswer(c)
    BY <1>1, <1>2, <2>1 DEF GoodAnswer, EdgarTypeOK, callVars
  <2>2. CASE GiveUp(c)
    BY <1>1, <1>2, <2>2 DEF GiveUp, EdgarTypeOK, callVars
  <2>3. CASE SubmissionsRaise(c) \/ DocumentRaises(c) \/ FactsArrive(c)
    BY <1>1, <1>2, <2>3 DEF SubmissionsRaise, DocumentRaises, FactsArrive, Awake, EdgarTypeOK, callVars
  <2> QED
    BY <1>7, <2>1, <2>2, <2>3
<1>8. ASSUME NEW c \in Callers, MapLoaded(c) \/ MapRaises(c)
      PROVE  EdgarTypeOK'
  <2>1. cache' \subseteq Listed
    BY <1>1, <1>8, EdgarAssumption DEF MapLoaded, MapRaises, EdgarTypeOK
  <2> QED
    BY <1>1, <1>2, <1>8, <2>1 DEF MapLoaded, MapRaises, Awake, EdgarTypeOK, callVars
<1>9. ASSUME NEW c \in Callers, ClientError(c)
      PROVE  EdgarTypeOK'
  <2>1. attempt[c] \in 1..MaxRetries /\ attempt[c] < MaxRetries
    BY <1>1, <1>9 DEF ClientError, EdgarTypeOK
  <2>2. Wait[attempt[c]] * RateLimit \in Nat
    <3>1. Wait[attempt[c]] \in Nat
      BY <1>3, <2>1, WaitType
    <3> QED
      BY <1>3, <3>1
  <2>3. rest' \in [Callers -> Nat]
    BY <1>1, <1>9, <2>2 DEF ClientError, EdgarTypeOK
  <2>4. attempt' \in [Callers -> 1..MaxRetries]
    BY <1>1, <1>3, <1>9, <2>1 DEF ClientError, EdgarTypeOK
  <2> QED
    BY <1>1, <1>2, <1>9, <2>3, <2>4 DEF ClientError, EdgarTypeOK
<1>10. ASSUME NEW c \in Callers, SubmissionsListed(c)
       PROVE  EdgarTypeOK'
  <2> DEFINE fs == ListFilings(Submissions[symbol[c]])
  <2>1. symbol[c] \in Listed
    BY <1>1, <1>10 DEF SubmissionsListed, Awake, EdgarTypeOK
  <2>2. fs \in Seq(Entries)
    BY <2>1, ListingType
  <2>3. listing' = [listing EXCEPT ![c] = fs] /\ visited' = [visited EXCEPT ![c] = 0]
    BY <1>10 DEF SubmissionsListed, NextDocument
  <2>4. /\ pc' \in [Callers -> Ended \cup Holding \cup {"resolve", "ask", "backoff"}]
        /\ request' \in [Callers -> Downloads]
        /\ attempt' \in [Callers -> 1..MaxRetries]
        /\ \A d \in Callers : d # c => pc'[d] = pc[d] /\ request'[d] = request[d]
    BY <1>1, <1>10, NextDocumentTypes DEF SubmissionsListed
  <2>5. UNCHANGED <<cache, rest, goal, symbol, filings, failed>>
    BY <1>10 DEF SubmissionsListed
  <2> HIDE DEF fs
  <2>6. /\ listing' \in [Callers -> Seq(Entries)] /\ visited' \in [Callers -> Nat]
        /\ \A d \in Callers : visited'[d] \in 0..Len(listing'[d])
    BY <1>1, <2>2, <2>3 DEF EdgarTypeOK
  <2>7. \A d \in Callers : pc'[d] \notin {"idle", "resolve", "unknown"} /\ request'[d] # "map" =>
          symbol'[d] \in Listed
    BY <1>1, <2>1, <2>4, <2>5 DEF EdgarTypeOK
  <2> QED
    BY <1>1, <1>2, <2>4, <2>5, <2>6, <2>7 DEF EdgarTypeOK
<1>11. ASSUME NEW c \in Callers, GiveUpDocument(c) \/ DocumentParsed(c) \/ DocumentEmpty(c)
       PROVE  EdgarTypeOK'
  <2>1. /\ request[c] = "document" /\ pc[c] \in Holding
        /\ NextDocument(c, listing[c], visited[c] + 1)
        /\ UNCHANGED <<cache, rest, goal, symbol, listing>>
    BY <1>11 DEF GiveUpDocument, DocumentParsed, DocumentEmpty, Awake
  <2>2. visited[c] \in Nat /\ visited[c] + 1 \in 0..Len(listing[c])
    <3>1. visited[c] < Len(listing[c]) /\ listing[c] \in Seq(Entries)
      BY <1>1, <2>1 DEF ResultInv, ResultOK, EdgarTypeOK
    <3> QED
      BY <1>1, <3>1 DEF EdgarTypeOK
  <2>3. visited' = [visited EXCEPT ![c] = visited[c] + 1]
    BY <2>1 DEF NextDocument
  <2>4. visited' \in [Callers -> Nat] /\ \A d \in Callers : visited'[d] \in 0..Len(listing'[d])
    BY <1>1, <2>1, <2>2, <2>3 DEF EdgarTypeOK
  <2>5. /\ pc' \in [Callers -> Ended \cup Holding \cup {"resolve", "ask", "backoff"}]
        /\ request' \in [Callers -> Downloads]
        /\ attempt' \in [Callers -> 1..MaxRetries]
        /\ \A d \in Callers : d # c => pc'[d] = pc[d] /\ request'[d] = request[d]
    BY <1>1, <2>1, NextDocumentTypes
  <2>6. \A d \in Callers : pc'[d] \notin {"idle", "resolve", "unknown"} /\ request'[d] # "map" =>
          symbol'[d] \in Listed
    BY <1>1, <2>1, <2>5 DEF EdgarTypeOK
  <2>7. failed' \in [Callers -> SUBSET Nat] /\ filings' \in [Callers -> Seq(Nat)]
    <3>1. Append(filings[c], visited[c] + 1) \in Seq(Nat)
      BY <1>1, <2>2 DEF EdgarTypeOK
    <3>2. failed[c] \cup {visited[c] + 1} \in SUBSET Nat
      BY <1>1, <2>2 DEF EdgarTypeOK
    <3> QED
      BY <1>1, <1>11, <3>1, <3>2 DEF GiveUpDocument, DocumentParsed, DocumentEmpty, EdgarTypeOK
  <2> QED
    BY <1>1, <1>2, <2>1, <2>4, <2>5, <2>6, <2>7 DEF EdgarTypeOK
<1> QED
  BY <1>4, <1>5, <1>6, <1>7, <1>8, <1>9, <1>10, <1>11 DEF EdgarNext, CallerStep

-----------------------------------------------------------------------------
(* What ResultOK is about. *)
ResultOf(c) == <<pc[c], request[c], listing[c], visited[c], filings[c], failed[c]>>

(* Appending a greater number keeps a sequence ascending. *)
LEMMA AppendAscending ==
  ASSUME NEW ps \in Seq(Nat), NEW n \in Nat, Ascending(ps), \A k \in Places(ps) : k < n
  PROVE  /\ Ascending(Append(ps, n))
         /\ Places(Append(ps, n)) = Places(ps) \cup {n}
<1> DEFINE qs == Append(ps, n)
<1>1. /\ DOMAIN ps = 1..Len(ps) /\ DOMAIN qs = 1..(Len(ps) + 1) /\ Len(ps) \in Nat
      /\ qs[Len(ps) + 1] = n /\ \A i \in 1..Len(ps) : qs[i] = ps[i]
  OBVIOUS
<1> HIDE DEF qs
<1>2. Ascending(qs)
  <2> SUFFICES ASSUME NEW i \in DOMAIN qs, NEW j \in DOMAIN qs, i < j
               PROVE  qs[i] < qs[j]
    BY DEF Ascending
  <2>1. i \in 1..Len(ps) /\ (j \in 1..Len(ps) \/ j = Len(ps) + 1)
    BY <1>1
  <2>2. CASE j \in 1..Len(ps)
    BY <1>1, <2>1, <2>2 DEF Ascending
  <2>3. CASE j = Len(ps) + 1
    <3>1. ps[i] \in Places(ps)
      BY <1>1, <2>1 DEF Places
    <3> QED
      BY <1>1, <2>1, <2>3, <3>1
  <2> QED
    BY <2>1, <2>2, <2>3
<1>3. Places(qs) = Places(ps) \cup {n}
  <2>1. \A i : i \in DOMAIN qs <=> i \in DOMAIN ps \/ i = Len(ps) + 1
    BY <1>1
  <2> QED
    BY <1>1, <2>1 DEF Places
<1> QED
  BY <1>2, <1>3 DEF qs

(* The result stays what ResultOK says of it: each turn of the loop over   *)
(* the listing adds the next place to the result or to the failed.         *)
LEMMA ResultStep ==
  ASSUME ResultInv, EdgarNext, NEW d \in Callers
  PROVE  ResultOK(d)'
<1>1. EdgarTypeOK /\ EdgarTypeOK' /\ ResultOK(d)
  BY EdgarTypeStep DEF ResultInv, PermitInv
<1> USE DEF Holding, Ended, Goto, Ask
<1>2. CASE ResultOf(d)' = ResultOf(d)
  BY <1>1, <1>2 DEF ResultOf, ResultOK
<1>3. CASE Tick
  BY <1>2, <1>3 DEF Tick, callVars, ResultOf
<1>4. ASSUME NEW c \in Callers, Call(c) \/ CallerStep(c), c # d
      PROVE  ResultOf(d)' = ResultOf(d)
  <2>1. CASE Call(c) \/ NeedMap(c) \/ Resolved(c) \/ UnknownTicker(c)
    BY <1>1, <1>4, <2>1 DEF Call, NeedMap, Resolved, UnknownTicker, callVars, ResultOf, EdgarTypeOK
  <2>2. CASE Send(c) \/ GoodAnswer(c) \/ ClientError(c) \/ EndBackoff(c) \/ GiveUp(c)
    BY <1>1, <1>4, <2>2 DEF Send, GoodAnswer, ClientError, EndBackoff, GiveUp, callVars,
         ResultOf, EdgarTypeOK
  <2>3. CASE MapLoaded(c) \/ MapRaises(c) \/ SubmissionsRaise(c) \/ DocumentRaises(c) \/ FactsArrive(c)
    BY <1>1, <1>4, <2>3 DEF MapLoaded, MapRaises, SubmissionsRaise, DocumentRaises, FactsArrive, callVars,
         ResultOf, EdgarTypeOK
  <2>4. CASE SubmissionsListed(c)
    BY <1>1, <1>4, <2>4, NextDocumentTypes DEF SubmissionsListed, NextDocument, ResultOf, EdgarTypeOK
  <2>5. CASE GiveUpDocument(c) \/ DocumentParsed(c) \/ DocumentEmpty(c)
    <3>1. NextDocument(c, listing[c], visited[c] + 1)
      BY <2>5 DEF GiveUpDocument, DocumentParsed, DocumentEmpty
    <3>2. /\ pc'[d] = pc[d] /\ request'[d] = request[d] /\ visited'[d] = visited[d]
      BY <1>1, <1>4, <3>1, NextDocumentTypes DEF NextDocument, EdgarTypeOK
    <3>3. listing'[d] = listing[d] /\ filings'[d] = filings[d] /\ failed'[d] = failed[d]
      BY <1>1, <1>4, <2>5 DEF GiveUpDocument, DocumentParsed, DocumentEmpty, EdgarTypeOK
    <3> QED
      BY <3>2, <3>3 DEF ResultOf
  <2> QED
    BY <1>4, <2>1, <2>2, <2>3, <2>4, <2>5 DEF CallerStep
<1>5. CASE Call(d)
  <2>1. /\ pc'[d] = "resolve" /\ listing'[d] = <<>> /\ visited'[d] = 0
        /\ filings'[d] = <<>> /\ failed'[d] = {}
    BY <1>1, <1>5 DEF Call, EdgarTypeOK
  <2>2. Places(<<>>) = {} /\ 1..0 = {} /\ Ascending(<<>>)
    BY DEF Places, Ascending
  <2> QED
    BY <2>1, <2>2 DEF ResultOK
<1>6. CASE \/ NeedMap(d) \/ Resolved(d) \/ UnknownTicker(d) \/ Send(d) \/ GoodAnswer(d)
           \/ ClientError(d) \/ EndBackoff(d) \/ MapLoaded(d) \/ MapRaises(d)
           \/ SubmissionsRaise(d) \/ DocumentRaises(d)
  <2>1. UNCHANGED <<listing, visited, filings, failed>>
    BY <1>6 DEF NeedMap, Resolved, UnknownTicker, Send, GoodAnswer, ClientError, EndBackoff,
         MapLoaded, MapRaises, SubmissionsRaise, DocumentRaises, callVars
  <2>2. \/ pc[d] = "resolve" /\ pc'[d] = "ask" /\ request'[d] # "document"
        \/ pc[d] \notin Ended /\ pc'[d] \notin Ended \cup {"resolve"} /\ request'[d] = request[d]
           /\ pc[d] # "resolve"
        \/ pc[d] = "pause" /\ request[d] = "map" /\ pc'[d] = "resolve"
        \/ pc'[d] \in Ended \ {"returned"}
    <3>1. CASE NeedMap(d) \/ Resolved(d) \/ UnknownTicker(d)
      BY <1>1, <3>1 DEF NeedMap, Resolved, UnknownTicker, EdgarTypeOK
    <3>2. CASE Send(d) \/ GoodAnswer(d) \/ ClientError(d) \/ EndBackoff(d)
      BY <1>1, <3>2 DEF Send, GoodAnswer, ClientError, EndBackoff, callVars, EdgarTypeOK
    <3>3. CASE MapLoaded(d) \/ MapRaises(d) \/ SubmissionsRaise(d) \/ DocumentRaises(d)
      BY <1>1, <3>3 DEF MapLoaded, MapRaises, SubmissionsRaise, DocumentRaises, Awake, EdgarTypeOK
    <3> QED
      BY <1>6, <3>1, <3>2, <3>3
  <2> QED
    BY <1>1, <2>1, <2>2 DEF ResultOK
<1>7. CASE GiveUp(d) \/ FactsArrive(d)
  <2>1. /\ pc[d] \in Holding /\ request[d] # "document" /\ pc'[d] = "returned"
        /\ UNCHANGED <<listing, visited, filings, failed>>
    BY <1>1, <1>7 DEF GiveUp, FactsArrive, Awake, callVars, EdgarTypeOK
  <2>2. listing[d] = <<>> /\ visited[d] \in 0..Len(listing[d])
    BY <1>1, <2>1 DEF ResultOK, EdgarTypeOK
  <2>3. visited[d] = Len(listing[d])
    BY <2>2
  <2> QED
    BY <1>1, <2>1, <2>3 DEF ResultOK
<1>8. CASE SubmissionsListed(d)
  <2> DEFINE fs == ListFilings(Submissions[symbol[d]])
  <2>1. /\ pc[d] = "pause" /\ request[d] = "submissions"
        /\ NextDocument(d, fs, 0)
        /\ listing'[d] = fs /\ visited'[d] = 0
        /\ UNCHANGED <<filings, failed>>
    BY <1>1, <1>8 DEF SubmissionsListed, Awake, NextDocument, EdgarTypeOK
  <2>2. Len(fs) \in Nat
    BY <1>1, <2>1 DEF EdgarTypeOK
  <2> HIDE DEF fs
  <2>3. \/ 0 < Len(fs) /\ pc'[d] = "ask" /\ request'[d] = "document"
        \/ ~ (0 < Len(fs)) /\ pc'[d] = "returned"
    BY <1>1, <2>1, NextDocumentTypes
  <2>4. listing[d] = <<>> /\ visited[d] \in 0..Len(listing[d])
    BY <1>1, <2>1 DEF ResultOK, EdgarTypeOK
  <2>5. visited[d] = 0
    BY <2>4
  <2> QED
    BY <1>1, <2>1, <2>2, <2>3, <2>5 DEF ResultOK
<1>9. CASE GiveUpDocument(d) \/ DocumentParsed(d) \/ DocumentEmpty(d)
  <2> DEFINE v == visited[d]
  <2>1. /\ pc[d] \in Holding /\ request[d] = "document" /\ listing'[d] = listing[d]
        /\ NextDocument(d, listing[d], v + 1) /\ visited'[d] = v + 1
    BY <1>1, <1>9 DEF GiveUpDocument, DocumentParsed, DocumentEmpty, Awake, NextDocument, EdgarTypeOK
  <2>2. v \in Nat /\ v < Len(listing[d]) /\ Len(listing[d]) \in Nat
    BY <1>1, <2>1 DEF ResultOK, EdgarTypeOK
  <2>3. \/ v + 1 < Len(listing[d]) /\ pc'[d] = "ask" /\ request'[d] = "document"
        \/ v + 1 = Len(listing[d]) /\ pc'[d] = "returned"
    BY <1>1, <2>1, <2>2, NextDocumentTypes
  <2>4. /\ Places(filings[d]) = (1..v) \ failed[d] /\ failed[d] \subseteq 1..v
        /\ Ascending(filings[d]) /\ filings[d] \in Seq(Nat)
    BY <1>1 DEF ResultOK, EdgarTypeOK
  <2>5. 1..(v + 1) = (1..v) \cup {v + 1} /\ v + 1 \notin 1..v
    BY <2>2
  <2>6. /\ Places(filings'[d]) = (1..(v + 1)) \ failed'[d] /\ failed'[d] \subseteq 1..(v + 1)
        /\ Ascending(filings'[d])
    <3>1. CASE GiveUpDocument(d) \/ DocumentEmpty(d)
      <4>1. filings'[d] = filings[d] /\ failed'[d] = failed[d] \cup {v + 1}
        BY <1>1, <3>1 DEF GiveUpDocument, DocumentEmpty, EdgarTypeOK
      <4> QED
        BY <2>4, <2>5, <4>1
    <3>2. CASE DocumentParsed(d)
      <4>1. filings'[d] = Append(filings[d], v + 1) /\ failed'[d] = failed[d]
        BY <1>1, <3>2 DEF DocumentParsed, EdgarTypeOK
      <4>2. v + 1 \in Nat /\ \A k \in Places(filings[d]) : k < v + 1
        BY <2>2, <2>4
      <4>3. Ascending(filings'[d]) /\ Places(filings'[d]) = Places(filings[d]) \cup {v + 1}
        BY <2>4, <4>1, <4>2, AppendAscending
      <4> QED
        BY <2>4, <2>5, <4>1, <4>3
    <3> QED
      BY <1>9, <3>1, <3>2
  <2> QED
    BY <2>1, <2>3, <2>6 DEF ResultOK
<1>10. ASSUME NEW c \in Callers, Call(c) \/ CallerStep(c)
       PROVE  ResultOK(d)'
  <2>1. CASE c # d
    BY <1>2, <1>4, <1>10, <2>1
  <2>2. CASE c = d
    BY <1>5, <1>6, <1>7, <1>8, <1>9, <1>10, <2>2 DEF CallerStep
  <2> QED
    BY <2>1, <2>2
<1> QED
  BY <1>3, <1>10 DEF EdgarNext

(* The initial state satisfies the strengthened invariant. *)
LEMMA ResultInit == EdgarInit => ResultInv
<1> SUFFICES ASSUME EdgarInit PROVE ResultInv
  OBVIOUS
<1>1. RateLimit \in Nat \ {0} /\ MaxRetries \in Nat \ {0}
  BY EdgarAssumption
<1>2. <<>> \in Seq(Entries) /\ <<>> \in Seq(Nat) /\ Len(<<>>) = 0
  OBVIOUS
<1>3. EdgarTypeOK
  BY <1>1, <1>2 DEF EdgarInit, EdgarTypeOK, Ended, Downloads
<1>4. Holders = {}
  BY DEF EdgarInit, Holders, Holding
<1>5. PermitInv
  BY <1>1, <1>3, <1>4, FS_EmptySet DEF PermitInv, EdgarInit
<1>6. ASSUME NEW c \in Callers
      PROVE  ResultOK(c)
  <2>1. Places(<<>>) = {} /\ 1..0 = {} /\ Ascending(<<>>)
    BY DEF Places, Ascending
  <2> QED
    BY <2>1 DEF EdgarInit, ResultOK, Ended
<1> QED
  BY <1>5, <1>6 DEF ResultInv

(* ResultInv is inductive. *)
LEMMA ResultInductive == ResultInv /\ [EdgarNext]_edgarVars => ResultInv'
<1>1. ASSUME ResultInv, EdgarNext
      PROVE  ResultInv'
  <2>1. PermitInv'
    BY <1>1, EdgarTypeStep, PermitStep DEF ResultInv, PermitInv
  <2> QED
    BY <1>1, <2>1, ResultStep DEF ResultInv
<1>2. ASSUME ResultInv, UNCHANGED edgarVars
      PROVE  ResultInv'
  BY <1>2 DEF ResultInv, PermitInv, ResultOK, EdgarTypeOK, Holders, edgarVars, callVars
<1> QED
  BY <1>1, <1>2

(* The variables keep their types, and no permit is made or lost. *)
THEOREM EdgarTypeCorrect == EdgarSpec => []EdgarTypeOK
<1>1. ResultInv => EdgarTypeOK
  BY DEF ResultInv, PermitInv
<1> QED
  BY <1>1, ResultInit, ResultInductive, PTL DEF EdgarSpec

(* The semaphore works: at most rate_limit_rps callers are on the wire or  *)
(* in the pause after their answer.                                        *)
THEOREM PermitsBound ==
  EdgarSpec => [](IsFiniteSet(Holders) /\ Cardinality(Holders) <= RateLimit)
<1>1. ResultInv => IsFiniteSet(Holders) /\ Cardinality(Holders) <= RateLimit
  <2> SUFFICES ASSUME ResultInv
               PROVE  IsFiniteSet(Holders) /\ Cardinality(Holders) <= RateLimit
    OBVIOUS
  <2>1. IsFiniteSet(Holders) /\ permits + Cardinality(Holders) = RateLimit /\ permits \in Nat
    BY DEF ResultInv, PermitInv, EdgarTypeOK
  <2>2. Cardinality(Holders) \in Nat
    BY <2>1, FS_CardinalityType
  <2> QED
    BY <2>1, <2>2
<1> QED
  BY <1>1, ResultInit, ResultInductive, PTL DEF EdgarSpec

(* FR-5: the result is the listing, in its order, without exactly the      *)
(* filings whose own document could not be had.                            *)
THEOREM OnlyFailedFilingsMissingCorrect == EdgarSpec => []OnlyFailedFilingsMissing
<1>1. ResultInv => OnlyFailedFilingsMissing
  <2> SUFFICES ASSUME ResultInv, NEW c \in Callers, pc[c] = "returned"
               PROVE  /\ Places(filings[c]) = DOMAIN listing[c] \ failed[c]
                      /\ Ascending(filings[c])
    BY DEF OnlyFailedFilingsMissing
  <2>1. ResultOK(c) /\ listing[c] \in Seq(Entries)
    BY DEF ResultInv, PermitInv, EdgarTypeOK
  <2>2. DOMAIN listing[c] = 1..visited[c]
    BY <2>1 DEF ResultOK
  <2> QED
    BY <2>1, <2>2 DEF ResultOK
<1> QED
  BY <1>1, ResultInit, ResultInductive, PTL DEF EdgarSpec

-----------------------------------------------------------------------------
(* Every ticker map is read to its end or not at all. *)
WholeMaps == BrokenMaps \subseteq {{}}

(* CacheInv is preserved: the cache is filled at a stroke, and a caller    *)
(* that finds it filled compares its ticker with the whole list.           *)
LEMMA CacheStep ==
  ASSUME WholeMaps, EdgarTypeOK, CacheInv, EdgarNext
  PROVE  CacheInv'
<1> USE DEF Goto, Ask
<1> DEFINE Unlisted == \A d \in Callers : pc'[d] = "unknown" => symbol'[d] \notin Listed
<1>1. ASSUME UNCHANGED <<cache, symbol>>, NEW c \in Callers, NEW l,
             pc' = [pc EXCEPT ![c] = l], l # "unknown"
      PROVE  cache' \in {{}, Listed} /\ Unlisted
  BY <1>1 DEF CacheInv, UnknownMeansUnlisted, EdgarTypeOK
<1>2. ASSUME Tick
      PROVE  cache' \in {{}, Listed} /\ Unlisted
  BY <1>2 DEF Tick, callVars, CacheInv, UnknownMeansUnlisted
<1>3. ASSUME NEW c \in Callers, Call(c) \/ CallerStep(c)
      PROVE  cache' \in {{}, Listed} /\ Unlisted
  <2>1. CASE Call(c)
    BY <2>1 DEF Call, CacheInv, UnknownMeansUnlisted, EdgarTypeOK
  <2>2. CASE UnknownTicker(c)
    BY <2>2 DEF UnknownTicker, callVars, CacheInv, UnknownMeansUnlisted, EdgarTypeOK
  <2>3. CASE MapLoaded(c) \/ MapRaises(c)
    <3>1. cache' \in {{}, Listed}
      BY <2>3 DEF MapLoaded, MapRaises, WholeMaps, CacheInv
    <3>2. Unlisted
      BY <2>3 DEF MapLoaded, MapRaises, callVars, CacheInv, UnknownMeansUnlisted, EdgarTypeOK
    <3> QED
      BY <3>1, <3>2
  <2>4. CASE NeedMap(c) \/ Resolved(c) \/ Send(c) \/ GoodAnswer(c) \/ ClientError(c) \/ EndBackoff(c)
    BY <1>1, <2>4 DEF NeedMap, Resolved, Send, GoodAnswer, ClientError, EndBackoff, callVars
  <2>5. CASE GiveUp(c) \/ SubmissionsRaise(c) \/ DocumentRaises(c) \/ FactsArrive(c)
    BY <1>1, <2>5 DEF GiveUp, SubmissionsRaise, DocumentRaises, FactsArrive, callVars
  <2>6. ASSUME NEW fs, NEW n, NextDocument(c, fs, n)
        PROVE  \E l : pc' = [pc EXCEPT ![c] = l] /\ l # "unknown"
    <3>1. CASE n < Len(fs)
      BY <2>6, <3>1 DEF NextDocument
    <3>2. CASE ~ (n < Len(fs))
      BY <2>6, <3>2 DEF NextDocument
    <3> QED
      BY <3>1, <3>2
  <2>7. CASE GiveUpDocument(c) \/ DocumentParsed(c) \/ DocumentEmpty(c)
    <3>1. UNCHANGED <<cache, symbol>> /\ NextDocument(c, listing[c], visited[c] + 1)
      BY <2>7 DEF GiveUpDocument, DocumentParsed, DocumentEmpty
    <3> QED
      BY <1>1, <2>6, <3>1
  <2>8. CASE SubmissionsListed(c)
    <3>1. /\ UNCHANGED <<cache, symbol>>
          /\ NextDocument(c, ListFilings(Submissions[symbol[c]]), 0)
      BY <2>8 DEF SubmissionsListed
    <3> QED
      BY <1>1, <2>6, <3>1
  <2> QED
    BY <1>3, <2>1, <2>2, <2>3, <2>4, <2>5, <2>7, <2>8 DEF CallerStep
<1>4. cache' \in {{}, Listed} /\ Unlisted
  BY <1>2, <1>3 DEF EdgarNext
<1> QED
  BY <1>4 DEF CacheInv, UnknownMeansUnlisted

(* When ticker maps are read to their end or not at all, a ticker found    *)
(* unknown is one the SEC does not list: no caller sees half a map.        *)
THEOREM UnknownMeansUnlistedCorrect ==
  ASSUME WholeMaps
  PROVE  EdgarSpec => []UnknownMeansUnlisted
<1>1. EdgarInit => CacheInv
  BY DEF EdgarInit, CacheInv, UnknownMeansUnlisted
<1>2. EdgarTypeOK /\ CacheInv /\ [EdgarNext]_edgarVars => CacheInv'
  <2>1. ASSUME EdgarTypeOK, CacheInv, UNCHANGED edgarVars
        PROVE  CacheInv'
    BY <2>1 DEF CacheInv, UnknownMeansUnlisted, edgarVars, callVars
  <2> QED
    BY <2>1, CacheStep
<1>3. CacheInv => UnknownMeansUnlisted
  BY DEF CacheInv
<1> QED
  BY <1>1, <1>2, <1>3, EdgarTypeCorrect, PTL DEF EdgarSpec

-----------------------------------------------------------------------------
(***************************************************************************)
(* The chunker.  ChunkerInv follows the loops: of the headers scanned the  *)
(* best are kept (ScanInv), the text up to the cut is in sections that are *)
(* named right (SplitInv), the group being packed is counted right, with a *)
(* joiner for each paragraph (PackInv), a paragraph of the section at hand *)
(* is in a chunk or on its way to one (NoneLost), the windows so far cover *)
(* the group up to the next one's start (EmitInv), and chunks come in the  *)
(* order of their sections (ChunksInv).                                    *)
(***************************************************************************)

(* f[k] is what the first k numbers of s come to. *)
Sums(f, s) ==
  /\ f \in [0..Len(s) -> Nat]
  /\ f[0] = 0
  /\ \A k \in 1..Len(s) : f[k] = f[k - 1] + s[k]

LEMMA TotalSums ==
  ASSUME NEW s \in Seq(Nat)
  PROVE  \E f : Sums(f, s) /\ Total(s) = f[Len(s)]
<1> DEFINE Equation(u) ==
             u = [k \in 0..Len(s) |-> IF k = 0 THEN 0 ELSE u[k - 1] + s[k]]
<1>0. Len(s) \in Nat /\ \A k \in 1..Len(s) : s[k] \in Nat
  OBVIOUS
<1>1. \E u : Equation(u) /\ Sums(u, s)
  <2> DEFINE step == [p \in Nat \X Nat |->
                        IF p[1] + 1 \in 1..Len(s) THEN p[2] + s[p[1] + 1] ELSE p[2]]
  <2>1. step \in [Nat \X Nat -> Nat]
    <3> SUFFICES ASSUME NEW n \in Nat, NEW x \in Nat
                 PROVE  step[<<n, x>>] \in Nat
      OBVIOUS
    <3>1. CASE n + 1 \in 1..Len(s)
      <4>1. s[n + 1] \in Nat
        BY <1>0, <3>1
      <4> QED
        BY <3>1, <4>1
    <3>2. CASE n + 1 \notin 1..Len(s)
      BY <3>2
    <3> QED
      BY <3>1, <3>2
  <2>2. \A n \in Nat, x \in Nat : n + 1 \in 1..Len(s) => step[<<n, x>>] = x + s[n + 1]
    OBVIOUS
  <2>3. 0 \in Nat
    OBVIOUS
  <2> HIDE DEF step
  <2>4. PICK f : Recursion(f, Nat, 0, step)
    BY <2>1, <2>3, RecursionOnNat
  <2> DEFINE u == [k \in 0..Len(s) |-> f[k]]
  <2>5. u \in [0..Len(s) -> Nat] /\ u[0] = 0
    BY <1>0, <2>4 DEF Recursion
  <2>6. ASSUME NEW k \in 1..Len(s)
        PROVE  u[k] = u[k - 1] + s[k]
    <3>1. k - 1 \in Nat /\ (k - 1) + 1 = k /\ k - 1 \in 0..Len(s) /\ k \in 0..Len(s)
      BY <1>0
    <3>2. f[k] = step[<<k - 1, f[k - 1]>>] /\ f[k - 1] \in Nat
      BY <2>4, <3>1 DEF Recursion
    <3>3. f[k] = f[k - 1] + s[k]
      BY <2>2, <3>1, <3>2
    <3> QED
      BY <3>1, <3>3
  <2> HIDE DEF u
  <2>7. \A k \in 0..Len(s) : u[k] = IF k = 0 THEN 0 ELSE u[k - 1] + s[k]
    BY <1>0, <2>5, <2>6
  <2>8. Equation(u)
    BY <2>5, <2>7
  <2> QED
    BY <2>5, <2>6, <2>8 DEF Sums
<1> DEFINE upTo == CHOOSE u : Equation(u)
<1>2. Equation(upTo)
  <2> HIDE DEF Equation
  <2> QED
    BY <1>1
<1>3. Total(s) = upTo[Len(s)]
  BY DEF Total
<1>4. \A u : Equation(u) /\ Sums(u, s) => u = upTo
  <2> SUFFICES ASSUME NEW u, Equation(u), Sums(u, s)
               PROVE  u = upTo
    OBVIOUS
  <2> HIDE DEF upTo
  <2> DEFINE E == {k \in Nat : k <= Len(s) => u[k] = upTo[k]}
  <2>1. 0 \in E
    BY <1>0, <1>2
  <2>2. ASSUME NEW k \in Nat, k \in E
        PROVE  k + 1 \in E
    <3>1. CASE k + 1 <= Len(s)
      <4>1. k + 1 \in 0..Len(s) /\ k + 1 # 0 /\ (k + 1) - 1 = k /\ u[k] = upTo[k]
        BY <1>0, <2>2, <3>1
      <4> QED
        BY <1>2, <4>1
    <3>2. CASE ~ (k + 1 <= Len(s))
      BY <3>2
    <3> QED
      BY <3>1, <3>2
  <2> HIDE DEF E
  <2>3. \A k \in Nat : k \in E
    BY <2>1, <2>2, InductionOnSets
  <2>4. ASSUME NEW k \in 0..Len(s)
        PROVE  u[k] = upTo[k]
    <3>1. k \in Nat /\ k <= Len(s) /\ k \in E
      BY <1>0, <2>3
    <3> QED
      BY <3>1 DEF E
  <2> QED
    BY <1>2, <2>4
<1> QED
  BY <1>1, <1>3, <1>4

(* Sums are determined by the numbers they are of, and grow. *)
LEMMA SumsAgree ==
  ASSUME NEW s \in Seq(Nat), NEW r \in Seq(Nat), NEW f, NEW e, Sums(f, s), Sums(e, r),
         NEW n \in Nat, n <= Len(s), n <= Len(r), \A k \in 1..n : s[k] = r[k]
  PROVE  f[n] = e[n]
<1> DEFINE E == {k \in Nat : k <= n => f[k] = e[k]}
<1>1. 0 \in E
  BY DEF Sums
<1>2. ASSUME NEW k \in Nat, k \in E
      PROVE  k + 1 \in E
  <2>1. CASE k + 1 <= n
    <3>1. /\ k + 1 \in 1..Len(s) /\ k + 1 \in 1..Len(r) /\ (k + 1) - 1 = k /\ k + 1 \in 1..n
          /\ f[k] = e[k]
      BY <1>2, <2>1
    <3>2. f[k + 1] = f[k] + s[k + 1] /\ e[k + 1] = e[k] + r[k + 1]
      BY <3>1 DEF Sums
    <3> QED
      BY <3>1, <3>2
  <2>2. CASE ~ (k + 1 <= n)
    BY <2>2
  <2> QED
    BY <2>1, <2>2
<1> HIDE DEF E
<1>3. \A k \in Nat : k \in E
  BY <1>1, <1>2, InductionOnSets
<1> QED
  BY <1>3 DEF E

LEMMA SumsGrow ==
  ASSUME NEW s \in Seq(Nat), NEW f, Sums(f, s), NEW m \in 0..Len(s), NEW n \in 0..Len(s), m <= n
  PROVE  f[m] <= f[n] /\ f[m] \in Nat /\ f[n] \in Nat
<1>0. Len(s) \in Nat /\ \A k \in 0..Len(s) : f[k] \in Nat
  <2>1. Len(s) \in Nat
    OBVIOUS
  <2>2. f \in [0..Len(s) -> Nat]
    BY DEF Sums
  <2> QED
    BY <2>1, <2>2
<1> DEFINE E == {k \in Nat : m <= k /\ k <= n => f[m] <= f[k]}
<1>1. 0 \in E
  BY <1>0
<1>2. ASSUME NEW k \in Nat, k \in E
      PROVE  k + 1 \in E
  <2>1. CASE m <= k /\ k + 1 <= n
    <3>1. /\ k + 1 \in 1..Len(s) /\ (k + 1) - 1 = k /\ k \in 0..Len(s) /\ k + 1 \in 0..Len(s)
          /\ f[m] <= f[k]
      BY <1>0, <1>2, <2>1
    <3>2. f[k + 1] = f[k] + s[k + 1]
      BY <3>1 DEF Sums
    <3>4. s[k + 1] \in Nat
      BY <3>1
    <3>3. f[m] \in Nat /\ f[k] \in Nat
      BY <1>0, <3>1
    <3> QED
      BY <3>1, <3>2, <3>3, <3>4
  <2>2. CASE k + 1 <= n /\ ~ (m <= k)
    <3>1. m <= k + 1 => m = k + 1
      BY <2>2
    <3> QED
      BY <1>0, <3>1
  <2>3. CASE ~ (k + 1 <= n)
    BY <2>3
  <2> QED
    BY <2>1, <2>2, <2>3
<1> HIDE DEF E
<1>3. \A k \in Nat : k \in E
  BY <1>1, <1>2, InductionOnSets
<1>4. f[m] <= f[n]
  BY <1>0, <1>3 DEF E
<1> QED
  BY <1>0, <1>4

LEMMA TotalNone ==
  ASSUME NEW s \in Seq(Nat), Len(s) = 0
  PROVE  Total(s) = 0
<1>1. PICK f : Sums(f, s) /\ Total(s) = f[Len(s)]
  BY TotalSums
<1> QED
  BY <1>1 DEF Sums

(* A total is that of a prefix and what the rest adds, the last number when *)
(* the prefix is all but that.                                              *)
LEMMA TotalPrefix ==
  ASSUME NEW s \in Seq(Nat), NEW r \in Seq(Nat), Len(r) <= Len(s), \A k \in 1..Len(r) : s[k] = r[k]
  PROVE  /\ Total(r) \in Nat /\ Total(s) \in Nat /\ Total(r) <= Total(s)
         /\ Len(s) = Len(r) + 1 => Total(s) = Total(r) + s[Len(s)]
<1>0. Len(s) \in Nat /\ Len(r) \in Nat
  OBVIOUS
<1>1. PICK f : Sums(f, s) /\ Total(s) = f[Len(s)]
  BY TotalSums
<1>2. PICK e : Sums(e, r) /\ Total(r) = e[Len(r)]
  BY TotalSums
<1>3. f[Len(r)] = e[Len(r)]
  BY <1>0, <1>1, <1>2, SumsAgree
<1>4. Len(r) \in 0..Len(s) /\ Len(s) \in 0..Len(s)
  BY <1>0
<1>5. f[Len(r)] <= f[Len(s)] /\ f[Len(r)] \in Nat /\ f[Len(s)] \in Nat
  BY <1>1, <1>4, SumsGrow
<1>6. ASSUME Len(s) = Len(r) + 1
      PROVE  f[Len(s)] = f[Len(r)] + s[Len(s)]
  <2>1. Len(s) \in 1..Len(s) /\ Len(s) - 1 = Len(r)
    BY <1>0, <1>6
  <2> QED
    BY <1>1, <2>1 DEF Sums
<1> QED
  BY <1>1, <1>2, <1>3, <1>5, <1>6

LEMMA PrefixOfSequence ==
  ASSUME NEW S, NEW s \in Seq(S), NEW last \in Nat, last <= Len(s)
  PROVE  /\ SubSeq(s, 1, last) \in Seq(S) /\ Len(SubSeq(s, 1, last)) = last
         /\ \A i \in 1..last : SubSeq(s, 1, last)[i] = s[i]
<1>1. SubSeq(s, 1, last) \in Seq(S)
  OBVIOUS
<1>2. Len(SubSeq(s, 1, last)) = last
  OBVIOUS
<1>3. \A i \in 1..last : SubSeq(s, 1, last)[i] = s[i]
  OBVIOUS
<1> QED
  BY <1>1, <1>2, <1>3

(* What is added up for a group's paragraphs. *)
Counts(g) == [k \in DOMAIN g |-> g[k].tokens + 1]
Lengths(g) == [k \in DOMAIN g |-> g[k].tokens + IF k = 1 THEN 0 ELSE g[k].joint]

LEMMA CountsType ==
  ASSUME NEW g \in Seq(Paragraphs)
  PROVE  /\ Counts(g) \in Seq(Nat) /\ Lengths(g) \in Seq(Nat)
         /\ Len(Counts(g)) = Len(g) /\ Len(Lengths(g)) = Len(g)
         /\ Counted(g) = Total(Counts(g)) /\ Joined(g) = Total(Lengths(g))
         /\ \A k \in 1..Len(g) :
              /\ g[k] \in Paragraphs /\ g[k].tokens \in Nat \ {0} /\ g[k].joint \in Nat
              /\ Counts(g)[k] = g[k].tokens + 1
              /\ Lengths(g)[k] = g[k].tokens + IF k = 1 THEN 0 ELSE g[k].joint
<1>1. Len(g) \in Nat /\ DOMAIN g = 1..Len(g)
  OBVIOUS
<1>2. \A k \in 1..Len(g) : g[k] \in Paragraphs
  OBVIOUS
<1>3. \A k \in 1..Len(g) : g[k].tokens \in Nat \ {0} /\ g[k].joint \in Nat
  BY <1>2 DEF Paragraphs
<1>4. \A k \in 1..Len(g) :
        /\ g[k].tokens + 1 \in Nat
        /\ g[k].tokens + (IF k = 1 THEN 0 ELSE g[k].joint) \in Nat
  BY <1>3
<1>5. Counts(g) \in Seq(Nat) /\ Len(Counts(g)) = Len(g)
  BY <1>1, <1>4 DEF Counts
<1>6. Lengths(g) \in Seq(Nat) /\ Len(Lengths(g)) = Len(g)
  BY <1>1, <1>4 DEF Lengths
<1>7. Counted(g) = Total(Counts(g)) /\ Joined(g) = Total(Lengths(g))
  BY DEF Counted, Joined, Counts, Lengths
<1>8. \A k \in 1..Len(g) :
        /\ Counts(g)[k] = g[k].tokens + 1
        /\ Lengths(g)[k] = g[k].tokens + IF k = 1 THEN 0 ELSE g[k].joint
  BY <1>1 DEF Counts, Lengths
<1> QED
  BY <1>2, <1>3, <1>5, <1>6, <1>7, <1>8

LEMMA CountedNone == Counted(<<>>) = 0
<1>1. <<>> \in Seq(Paragraphs) /\ Len(<<>>) = 0
  OBVIOUS
<1> QED
  BY <1>1, CountsType, TotalNone

LEMMA CountedAppend ==
  ASSUME NEW g \in Seq(Paragraphs), NEW p \in Paragraphs
  PROVE  Counted(g) \in Nat /\ Counted(Append(g, p)) = Counted(g) + p.tokens + 1
<1> DEFINE h == Append(g, p)
           n == Len(g)
<1>1. /\ h \in Seq(Paragraphs) /\ n \in Nat /\ Len(h) = n + 1 /\ h[n + 1] = p
      /\ \A k \in 1..n : g[k] = h[k]
  OBVIOUS
<1> HIDE DEF h
<1>2. /\ Counts(g) \in Seq(Nat) /\ Len(Counts(g)) = n /\ Counted(g) = Total(Counts(g))
      /\ \A k \in 1..n : Counts(g)[k] = g[k].tokens + 1
  BY CountsType
<1>3. /\ Counts(h) \in Seq(Nat) /\ Len(Counts(h)) = n + 1 /\ Counted(h) = Total(Counts(h))
      /\ \A k \in 1..(n + 1) : Counts(h)[k] = h[k].tokens + 1
  BY <1>1, CountsType
<1>4. /\ Len(Counts(g)) <= Len(Counts(h)) /\ Len(Counts(h)) = Len(Counts(g)) + 1
      /\ \A k \in 1..Len(Counts(g)) : Counts(h)[k] = Counts(g)[k]
  BY <1>1, <1>2, <1>3
<1>5. Counted(g) \in Nat /\ Counted(h) = Counted(g) + Counts(h)[n + 1]
  <2>1. /\ Total(Counts(g)) \in Nat
        /\ Total(Counts(h)) = Total(Counts(g)) + Counts(h)[Len(Counts(h))]
    BY <1>2, <1>3, <1>4, TotalPrefix
  <2> QED
    BY <1>2, <1>3, <2>1
<1>6. Counts(h)[n + 1] = p.tokens + 1 /\ p.tokens \in Nat
  <2>1. p.tokens \in Nat
    BY DEF Paragraphs
  <2>2. n + 1 \in 1..(n + 1)
    BY <1>1
  <2>3. Counts(h)[n + 1] = p.tokens + 1
    BY <1>1, <1>3, <2>2
  <2> QED
    BY <2>1, <2>3
<1>7. Counted(h) = Counted(g) + p.tokens + 1
  BY <1>5, <1>6
<1> QED
  BY <1>5, <1>7 DEF h

LEMMA CountedOne ==
  ASSUME NEW p \in Paragraphs
  PROVE  Counted(<<p>>) = p.tokens + 1
<1>1. <<>> \in Seq(Paragraphs) /\ Append(<<>>, p) = <<p>> /\ p.tokens \in Nat
  BY DEF Paragraphs
<1>2. Counted(Append(<<>>, p)) = Counted(<<>>) + p.tokens + 1
  BY <1>1, CountedAppend
<1> QED
  BY <1>1, <1>2, CountedNone

LEMMA CountedType ==
  ASSUME NEW g \in Seq(Paragraphs)
  PROVE  Counted(g) \in Nat
<1>1. Counts(g) \in Seq(Nat) /\ Counted(g) = Total(Counts(g))
  BY CountsType
<1> QED
  BY <1>1, TotalPrefix

LEMMA JoinedType ==
  ASSUME NEW g \in Seq(Paragraphs)
  PROVE  Joined(g) \in Nat /\ (g # <<>> => Joined(g) \in Nat \ {0})
<1>1. /\ Lengths(g) \in Seq(Nat) /\ Len(Lengths(g)) = Len(g) /\ Joined(g) = Total(Lengths(g))
      /\ \A k \in 1..Len(g) :
           /\ g[k].tokens \in Nat \ {0}
           /\ Lengths(g)[k] = g[k].tokens + IF k = 1 THEN 0 ELSE g[k].joint
  BY CountsType
<1>2. Joined(g) \in Nat
  BY <1>1, TotalPrefix
<1>3. ASSUME g # <<>>
      PROVE  Joined(g) # 0
  <2> DEFINE one == <<Lengths(g)[1]>>
             none == SubSeq(one, 1, 0)
  <2>1. 1 \in 1..Len(g) /\ Len(g) \in Nat
    BY <1>3
  <2>2. Lengths(g)[1] \in Nat \ {0}
    BY <1>1, <2>1
  <2>3. one \in Seq(Nat) /\ Len(one) = 1 /\ one[1] = Lengths(g)[1] /\ <<>> \in Seq(Nat) /\ Len(<<>>) = 0
    BY <2>2
  <2> HIDE DEF one
  <2>4. Total(one) \in Nat /\ Total(one) <= Total(Lengths(g))
    <3>1. Len(one) <= Len(Lengths(g)) /\ \A k \in 1..Len(one) : Lengths(g)[k] = one[k]
      BY <1>1, <2>1, <2>3
    <3> QED
      BY <1>1, <2>3, <3>1, TotalPrefix
  <2>5. Total(one) = Total(<<>>) + one[Len(one)]
    <3>1. /\ Len(<<>>) <= Len(one) /\ Len(one) = Len(<<>>) + 1
          /\ \A k \in 1..Len(<<>>) : one[k] = <<>>[k]
      BY <2>3
    <3> QED
      BY <2>3, <3>1, TotalPrefix
  <2>6. Total(<<>>) = 0
    BY <2>3, TotalNone
  <2> QED
    BY <1>1, <1>2, <2>2, <2>3, <2>4, <2>5, <2>6
<1> QED
  BY <1>2, <1>3

(* A paragraph lies within its group's joined text, after those before it. *)
Before(g, j) == Joined(SubSeq(g, 1, j)) - g[j].tokens

LEMMA PlaceOfParagraph ==
  ASSUME NEW g \in Seq(Paragraphs), NEW j \in DOMAIN g
  PROVE  Before(g, j) \in Nat /\ Before(g, j) + g[j].tokens <= Joined(g)
<1>0. Len(g) \in Nat /\ j \in 1..Len(g) /\ j \in Nat \ {0} /\ j - 1 \in Nat /\ j <= Len(g)
  OBVIOUS
<1> DEFINE h == SubSeq(g, 1, j)
           i == SubSeq(g, 1, j - 1)
<1>1. h \in Seq(Paragraphs) /\ Len(h) = j /\ \A k \in 1..j : h[k] = g[k]
  BY <1>0, PrefixOfSequence
<1>2. i \in Seq(Paragraphs) /\ Len(i) = j - 1 /\ \A k \in 1..(j - 1) : i[k] = g[k]
  BY <1>0, PrefixOfSequence
<1> HIDE DEF h, i
<1>3. /\ Lengths(g) \in Seq(Nat) /\ Len(Lengths(g)) = Len(g) /\ Joined(g) = Total(Lengths(g))
      /\ \A k \in 1..Len(g) : Lengths(g)[k] = g[k].tokens + IF k = 1 THEN 0 ELSE g[k].joint
      /\ g[j].tokens \in Nat /\ g[j].joint \in Nat
  BY <1>0, CountsType
<1>4. /\ Lengths(h) \in Seq(Nat) /\ Len(Lengths(h)) = j /\ Joined(h) = Total(Lengths(h))
      /\ \A k \in 1..j : Lengths(h)[k] = h[k].tokens + IF k = 1 THEN 0 ELSE h[k].joint
  BY <1>1, CountsType
<1>5. /\ Lengths(i) \in Seq(Nat) /\ Len(Lengths(i)) = j - 1 /\ Joined(i) = Total(Lengths(i))
      /\ \A k \in 1..(j - 1) : Lengths(i)[k] = i[k].tokens + IF k = 1 THEN 0 ELSE i[k].joint
  BY <1>2, CountsType
<1>6. \A k \in 1..j : Lengths(g)[k] = Lengths(h)[k]
  <2> SUFFICES ASSUME NEW k \in 1..j
               PROVE  Lengths(g)[k] = Lengths(h)[k]
    OBVIOUS
  <2>1. k \in 1..Len(g) /\ h[k] = g[k]
    BY <1>0, <1>1
  <2> QED
    BY <1>3, <1>4, <2>1
<1>7. \A k \in 1..(j - 1) : Lengths(h)[k] = Lengths(i)[k]
  <2> SUFFICES ASSUME NEW k \in 1..(j - 1)
               PROVE  Lengths(h)[k] = Lengths(i)[k]
    OBVIOUS
  <2>1. k \in 1..j /\ h[k] = g[k] /\ i[k] = g[k]
    BY <1>0, <1>1, <1>2
  <2> QED
    BY <1>4, <1>5, <2>1
<1>8. Joined(h) \in Nat /\ Joined(g) \in Nat /\ Joined(h) <= Joined(g)
  BY <1>0, <1>3, <1>4, <1>6, TotalPrefix
<1>9. Joined(i) \in Nat /\ Joined(h) = Joined(i) + Lengths(h)[j]
  <2>1. Len(Lengths(i)) <= Len(Lengths(h)) /\ Len(Lengths(h)) = Len(Lengths(i)) + 1
    BY <1>0, <1>4, <1>5
  <2> QED
    BY <1>4, <1>5, <1>7, <2>1, TotalPrefix
<1>10. Lengths(h)[j] = g[j].tokens + IF j = 1 THEN 0 ELSE g[j].joint
  BY <1>0, <1>1, <1>4
<1>11. Before(g, j) = Joined(h) - g[j].tokens
  BY DEF Before, h
<1> QED
  BY <1>3, <1>8, <1>9, <1>10, <1>11

-----------------------------------------------------------------------------
(* Chunk ids. *)

LEMMA MinOfNumbers ==
  ASSUME NEW T \in SUBSET Nat, T # {}
  PROVE  Min(T) \in T /\ \A y \in T : Min(T) <= y
<1>1. \E x \in T : \A y \in T : x <= y
  BY LeastElement
<1> QED
  BY <1>1 DEF Min

LEMMA PowerType ==
  /\ Power[0] = 1
  /\ \A k \in Nat : Power[k + 1] = Radix * Power[k]
<1> DEFINE Equation(w) == w = [k \in Nat |-> IF k = 0 THEN 1 ELSE Radix * w[k - 1]]
<1>0. Radix \in Nat
  BY ChunkerAssumption
<1>1. \E w : Equation(w)
  <2> DEFINE times == [p \in Nat \X Nat |-> Radix * p[2]]
  <2>1. times \in [Nat \X Nat -> Nat] /\ 1 \in Nat
    BY <1>0
  <2>2. \A n, x \in Nat : times[<<n, x>>] = Radix * x
    OBVIOUS
  <2> HIDE DEF times
  <2>3. PICK f : Recursion(f, Nat, 1, times)
    BY <2>1, RecursionOnNat
  <2>4. ASSUME NEW n \in Nat
        PROVE  f[n] = IF n = 0 THEN 1 ELSE Radix * f[n - 1]
    <3>1. CASE n = 0
      BY <2>3, <3>1 DEF Recursion
    <3>2. CASE n # 0
      <4>1. n - 1 \in Nat /\ (n - 1) + 1 = n
        BY <3>2
      <4>2. f[n] = times[<<n - 1, f[n - 1]>>] /\ f[n - 1] \in Nat
        BY <2>3, <4>1 DEF Recursion
      <4> QED
        BY <2>2, <3>2, <4>1, <4>2
    <3> QED
      BY <3>1, <3>2
  <2>5. Equation(f)
    BY <2>3, <2>4 DEF Recursion
  <2> QED
    BY <2>5
<1>2. Equation(Power)
  BY <1>1 DEF Power
<1>3. \A k \in Nat : k + 1 \in Nat /\ k + 1 # 0 /\ (k + 1) - 1 = k
  OBVIOUS
<1> QED
  BY <1>2, <1>3

LEMMA EachPower == \A k \in Nat : Power[k] \in Nat
<1> DEFINE E == {k \in Nat : Power[k] \in Nat}
<1>1. 0 \in E
  BY PowerType
<1>2. ASSUME NEW k \in Nat, k \in E
      PROVE  k + 1 \in E
  <2> DEFINE p == Power[k]
  <2>1. p \in Nat /\ Power[k + 1] = Radix * p /\ Radix \in Nat
    BY <1>2, PowerType, ChunkerAssumption
  <2> HIDE DEF p
  <2> QED
    BY <2>1
<1> HIDE DEF E
<1>3. \A k \in Nat : k \in E
  BY <1>1, <1>2, InductionOnSets
<1> QED
  BY <1>3 DEF E

LEMMA PowersGrow ==
  ASSUME NEW n \in Nat
  PROVE  Power[n] \in Nat /\ n < Power[n] /\ \A k \in 0..n : Power[k] <= Power[n]
<1> DEFINE E == {m \in Nat : /\ Power[m] \in Nat /\ m < Power[m]
                             /\ \A k \in 0..m : Power[k] <= Power[m]}
<1>1. 0 \in E
  <2>1. \A k \in 0..0 : k = 0
    OBVIOUS
  <2> QED
    BY <2>1, PowerType
<1>2. ASSUME NEW m \in Nat, m \in E
      PROVE  m + 1 \in E
  <2> DEFINE p == Power[m]
  <2>1. p \in Nat /\ m < p /\ \A k \in 0..m : Power[k] <= p
    BY <1>2
  <2>2. Power[m + 1] = Radix * p /\ Radix \in Nat /\ Radix >= 2
    BY PowerType, ChunkerAssumption
  <2> HIDE DEF p
  <2>3. Radix * p \in Nat /\ Radix * p >= 2 * p
    BY <2>1, <2>2
  <2>4. Power[m + 1] \in Nat /\ m + 1 < Power[m + 1] /\ p <= Power[m + 1]
    BY <2>1, <2>2, <2>3
  <2>5. ASSUME NEW k \in 0..(m + 1)
        PROVE  Power[k] <= Power[m + 1]
    <3>1. CASE k = m + 1
      BY <2>4, <3>1
    <3>2. CASE k # m + 1
      <4>1. k \in 0..m
        BY <3>2
      <4>2. Power[k] \in Nat
        BY EachPower
      <4> QED
        BY <2>1, <2>4, <4>1, <4>2
    <3> QED
      BY <3>1, <3>2
  <2> QED
    BY <2>4, <2>5
<1> HIDE DEF E
<1>3. n \in E
  BY <1>1, <1>2, InductionOnSets
<1> QED
  BY <1>3 DEF E

(* A later index has at least as many digits. *)
LEMMA ShiftGrows ==
  ASSUME NEW m \in Nat, NEW n \in Nat, m <= n
  PROVE  Shift(m) \in Nat /\ Shift(n) \in Nat /\ Shift(m) <= Shift(n)
<1> DEFINE Above(i) == {Power[k] : k \in 1..i + 1} \ 0..i
<1>1. ASSUME NEW i \in Nat
      PROVE  /\ Above(i) \in SUBSET Nat /\ Power[i + 1] \in Above(i)
             /\ Shift(i) \in Above(i) /\ \A y \in Above(i) : Shift(i) <= y
  <2>1. \A k \in 1..i + 1 : Power[k] \in Nat
    BY EachPower
  <2>2. Power[i + 1] > i /\ i + 1 \in 1..i + 1
    BY PowersGrow
  <2>3. Above(i) \in SUBSET Nat /\ Power[i + 1] \in Above(i)
    BY <2>1, <2>2
  <2>4. Shift(i) = Min(Above(i))
    BY DEF Shift
  <2> HIDE DEF Above
  <2> QED
    BY <2>3, <2>4, MinOfNumbers
<1>2. PICK k \in 1..n + 1 : Shift(n) = Power[k] /\ Power[k] \notin 0..n
  BY <1>1
<1>3. Power[k] \in Nat
  BY EachPower
<1>4. Shift(m) <= Power[k]
  <2>1. CASE k <= m + 1
    <3>1. k \in 1..m + 1 /\ Power[k] \notin 0..m
      BY <1>2, <1>3, <2>1
    <3> QED
      BY <1>1, <3>1
  <2>2. CASE ~ (k <= m + 1)
    <3>1. m + 1 \in 0..k /\ k \in Nat
      BY <2>2
    <3>2. Power[m + 1] <= Power[k]
      BY <3>1, PowersGrow
    <3>3. Shift(m) <= Power[m + 1] /\ Shift(m) \in Nat /\ Power[m + 1] \in Nat
      BY <1>1
    <3> HIDE DEF Above
    <3> QED
      BY <1>3, <3>2, <3>3
  <2> QED
    BY <2>1, <2>2
<1> QED
  BY <1>1, <1>2, <1>4

LEMMA AscendingIdsDiffer ==
  ASSUME NEW a \in Nat, NEW b \in Nat, a <= b, NEW i \in Nat, NEW j \in Nat, i < j
  PROVE  MakeChunkId(a, i) # MakeChunkId(b, j)
<1> DEFINE r == Shift(i)
           s == Shift(j)
<1>1. r \in Nat /\ s \in Nat /\ r <= s
  BY ShiftGrows
<1> HIDE DEF r, s
<1> DEFINE ar == a * r
           br == b * r
           bs == b * s
<1>2. ar \in Nat /\ br \in Nat /\ bs \in Nat
  BY <1>1
<1>3. ar <= br
  BY <1>1
<1>4. br <= bs
  BY <1>1
<1> HIDE DEF ar, br, bs
<1>5. ar + i # bs + j
  BY <1>2, <1>3, <1>4
<1> QED
  BY <1>5 DEF MakeChunkId, ar, bs, r, s

-----------------------------------------------------------------------------
(* Places in the document. *)

LEMMA DocType ==
  ASSUME doc \in Docs
  PROVE  /\ doc \in Seq([item : Nat, tokens : Nat \ {0}, joint : Nat])
         /\ Len(doc) \in Nat /\ End \in Nat \ {0} /\ End = Len(doc) + 1
         /\ DOMAIN doc = 1..Len(doc)
         /\ \A p \in DOMAIN doc : doc[p].item \in Nat /\ doc[p].tokens \in Nat \ {0} /\ doc[p].joint \in Nat
<1>1. doc \in Seq([item : Nat, tokens : Nat \ {0}, joint : Nat])
  BY ChunkerAssumption
<1>2. /\ Len(doc) \in Nat /\ DOMAIN doc = 1..Len(doc)
      /\ \A p \in DOMAIN doc : doc[p] \in [item : Nat, tokens : Nat \ {0}, joint : Nat]
  <2> DEFINE R == [item : Nat, tokens : Nat \ {0}, joint : Nat]
  <2> HIDE DEF R
  <2>1. doc \in Seq(R)
    BY <1>1 DEF R
  <2>2. Len(doc) \in Nat /\ DOMAIN doc = 1..Len(doc) /\ \A p \in DOMAIN doc : doc[p] \in R
    BY <2>1
  <2> QED
    BY <2>2 DEF R
<1> QED
  BY <1>1, <1>2 DEF End

LEMMA NextPlace ==
  ASSUME doc \in Docs, NEW S \in SUBSET DOMAIN doc, NEW m \in 0..Len(doc)
  PROVE  /\ NextOf(S, m) \in S \/ NextOf(S, m) = End
         /\ NextOf(S, m) \in (m + 1)..End
         /\ \A n \in S : n > m => NextOf(S, m) <= n
<1> DEFINE T == {n \in S : n > m} \cup {End}
<1>1. /\ Len(doc) \in Nat /\ End \in Nat /\ End = Len(doc) + 1 /\ DOMAIN doc = 1..Len(doc)
  BY DocType
<1>2. T \in SUBSET Nat /\ T # {}
  BY <1>1
<1> HIDE DEF T
<1>3. Min(T) \in T /\ \A y \in T : Min(T) <= y
  BY <1>2, MinOfNumbers
<1>4. NextOf(S, m) = Min(T)
  BY DEF NextOf, T
<1> QED
  BY <1>1, <1>3, <1>4 DEF T

LEMMA BetweenType ==
  ASSUME doc \in Docs, NEW b \in 0..Len(doc), NEW e \in (b + 1)..End
  PROVE  /\ Between(b, e) \in Seq(Paragraphs) /\ DOMAIN Between(b, e) = 1..(e - b - 1)
         /\ \A k \in 1..(e - b - 1) :
              /\ b + k \in DOMAIN doc /\ b < b + k /\ b + k < e
              /\ Between(b, e)[k].at = b + k /\ Between(b, e)[k].tokens = doc[b + k].tokens
<1>1. /\ Len(doc) \in Nat /\ End = Len(doc) + 1 /\ DOMAIN doc = 1..Len(doc)
      /\ \A p \in DOMAIN doc : doc[p].tokens \in Nat \ {0} /\ doc[p].joint \in Nat
  BY DocType
<1>2. b \in Nat /\ e \in Nat /\ e - b - 1 \in Nat
  BY <1>1
<1>3. ASSUME NEW k \in 1..(e - b - 1)
      PROVE  b + k \in DOMAIN doc /\ b + k \in Nat \ {0} /\ b < b + k /\ b + k < e
  BY <1>1, <1>2
<1>4. \A k \in 1..(e - b - 1) :
        [at |-> b + k, tokens |-> doc[b + k].tokens, joint |-> doc[b + k].joint] \in Paragraphs
  BY <1>1, <1>3 DEF Paragraphs
<1>5. Between(b, e) \in Seq(Paragraphs)
  BY <1>2, <1>4 DEF Between
<1> QED
  BY <1>3, <1>5 DEF Between

LEMMA SpanType ==
  ASSUME doc \in Docs, NEW m \in Headers
  PROVE  Span(m) \in Int
<1>1. Headers \in SUBSET DOMAIN doc /\ m \in 0..Len(doc)
  BY DocType DEF Headers
<1>2. NextOf(Headers, m) \in (m + 1)..End
  BY <1>1, NextPlace
<1> QED
  BY <1>1, <1>2, BetweenType, CountedType DEF Span

(* Text belongs to the section header it comes after. *)
LEMMA SectionAfter ==
  ASSUME doc \in Docs, NEW c \in Nat, c = 0 \/ IsHeader(c), NEW p \in Nat, c <= p,
         \A n \in 1..p : IsHeader(n) => n <= c
  PROVE  SectionOf(p) = IF c = 0 THEN 0 ELSE doc[c].item
<1> DEFINE above == {n \in 1..p : IsHeader(n)}
<1>1. CASE c = 0
  <2>1. above = {}
    BY <1>1
  <2> QED
    BY <1>1, <2>1 DEF SectionOf
<1>2. CASE c # 0
  <2>1. c \in above /\ \A o \in above : o <= c
    BY <1>2
  <2>2. \A n \in above : (\A o \in above : o <= n) => n = c
    BY <2>1
  <2>3. (CHOOSE n \in above : \A o \in above : o <= n) = c
    <3> HIDE DEF above
    <3> QED
      BY <2>1, <2>2
  <2> QED
    BY <1>2, <2>1, <2>3 DEF SectionOf
<1> QED
  BY <1>1, <1>2

(* What is said of the document alone stays true. *)
LEMMA DocumentStays ==
  ASSUME doc' = doc
  PROVE  /\ Headers' = Headers /\ End' = End /\ Text' = Text
         /\ \A m : Span(m)' = Span(m) /\ (IsHeader(m)' <=> IsHeader(m))
         /\ \A p : SectionOf(p)' = SectionOf(p)
         /\ \A text, name : Faithful(text, name)' <=> Faithful(text, name)
<1>1. Headers' = Headers /\ End' = End
  BY DEF Headers, End
<1>2. \A m : Span(m)' = Span(m)
  BY <1>1 DEF Span, Between, NextOf, End
<1>3. \A m : IsHeader(m)' <=> IsHeader(m)
  BY <1>1, <1>2 DEF IsHeader
<1>4. Text' = Text
  BY <1>3 DEF Text
<1>5. \A p : SectionOf(p)' = SectionOf(p)
  <2> SUFFICES ASSUME NEW p
               PROVE  SectionOf(p)' = SectionOf(p)
    OBVIOUS
  <2> DEFINE above == {n \in 1..p : IsHeader(n)}
  <2>1. above' = above
    BY <1>3
  <2>2. SectionOf(p) = IF above = {} THEN 0 ELSE doc[CHOOSE n \in above : \A o \in above : o <= n].item
    BY DEF SectionOf
  <2>3. SectionOf(p)' =
          IF above' = {} THEN 0 ELSE doc'[CHOOSE n \in above' : \A o \in above' : o <= n].item
    BY DEF SectionOf
  <2> HIDE DEF above
  <2> QED
    BY <2>1, <2>2, <2>3
<1>6. \A text, name : Faithful(text, name)' <=> Faithful(text, name)
  BY <1>5 DEF Faithful
<1> QED
  BY <1>1, <1>2, <1>3, <1>4, <1>5, <1>6

(* Once all headers are scanned, the ones kept are the section headers. *)
LEMMA HeadersKept ==
  ASSUME doc \in Docs, ScanInv, phase # "scan", NEW m
  PROVE  m \in {best[i] : i \in DOMAIN best} <=> IsHeader(m)
<1>1. \A n \in Headers : n \in Nat /\ n <= scanned /\ Span(n) \in Int /\ doc[n].item \in DOMAIN best
  BY SpanType, DocType DEF ScanInv, Headers
<1>2. ASSUME NEW i \in DOMAIN best, m = best[i]
      PROVE  IsHeader(m)
  BY <1>1, <1>2 DEF ScanInv, IsHeader
<1>3. ASSUME IsHeader(m)
      PROVE  \E i \in DOMAIN best : m = best[i]
  <2> DEFINE i == doc[m].item
  <2>1. m \in Headers /\ i \in DOMAIN best /\ m <= scanned
    BY <1>1, <1>3 DEF IsHeader
  <2> HIDE DEF i
  <2> DEFINE b == best[i]
  <2>2. b \in Headers /\ doc[b].item = i
    BY <2>1 DEF ScanInv
  <2>3. Span(m) < Span(b) \/ (Span(m) = Span(b) /\ m <= b)
    BY <2>1 DEF ScanInv, i
  <2>4. Span(b) < Span(m) \/ (Span(b) = Span(m) /\ b <= m)
    BY <1>3, <2>2 DEF IsHeader, i
  <2>5. /\ Span(m) \in Int /\ Span(b) \in Int /\ m \in Nat /\ b \in Nat
    BY <1>1, <2>1, <2>2
  <2> HIDE DEF b
  <2>6. m = b
    BY <2>3, <2>4, <2>5
  <2> QED
    BY <2>1, <2>6 DEF b
<1> QED
  BY <1>2, <1>3

-----------------------------------------------------------------------------
(* Elements of sequences. *)

LEMMA AppendElements ==
  ASSUME NEW S, NEW s \in Seq(S), NEW x \in S
  PROVE  /\ Append(s, x) \in Seq(S) /\ Append(s, x) # <<>>
         /\ Len(s) \in Nat /\ Len(Append(s, x)) = Len(s) + 1 /\ DOMAIN s = 1..Len(s)
         /\ DOMAIN Append(s, x) = 1..(Len(s) + 1) /\ Append(s, x)[Len(s) + 1] = x
         /\ Len(s) + 1 \in DOMAIN Append(s, x)
         /\ \A i \in DOMAIN s : i \in DOMAIN Append(s, x) /\ Append(s, x)[i] = s[i]
         /\ \A i \in DOMAIN Append(s, x) : i \in DOMAIN s \/ i = Len(s) + 1
<1>1. Append(s, x) \in Seq(S) /\ Append(s, x) # <<>>
  OBVIOUS
<1>2. /\ Len(s) \in Nat /\ Len(Append(s, x)) = Len(s) + 1 /\ DOMAIN s = 1..Len(s)
      /\ DOMAIN Append(s, x) = 1..(Len(s) + 1)
  OBVIOUS
<1>3. Append(s, x)[Len(s) + 1] = x
  OBVIOUS
<1>4. \A i \in DOMAIN s : Append(s, x)[i] = s[i]
  OBVIOUS
<1> QED
  BY <1>1, <1>2, <1>3, <1>4

LEMMA TailElements ==
  ASSUME NEW S, NEW s \in Seq(S), s # <<>>
  PROVE  /\ Head(s) = s[1] /\ 1 \in DOMAIN s /\ Head(s) \in S
         /\ Tail(s) \in Seq(S) /\ Len(s) \in Nat \ {0} /\ Len(Tail(s)) = Len(s) - 1
         /\ \A i \in DOMAIN Tail(s) : i + 1 \in DOMAIN s /\ Tail(s)[i] = s[i + 1]
         /\ \A i \in DOMAIN s : i = 1 \/ (i - 1 \in DOMAIN Tail(s) /\ Tail(s)[i - 1] = s[i])
<1>1. /\ Head(s) = s[1] /\ 1 \in DOMAIN s /\ Head(s) \in S
      /\ Tail(s) \in Seq(S) /\ Len(s) \in Nat \ {0} /\ Len(Tail(s)) = Len(s) - 1
  OBVIOUS
<1>2. \A i \in DOMAIN Tail(s) : i + 1 \in DOMAIN s
  OBVIOUS
<1>3. \A i \in DOMAIN Tail(s) : Tail(s)[i] = s[i + 1]
  OBVIOUS
<1>4. \A i \in DOMAIN s : i = 1 \/ i - 1 \in DOMAIN Tail(s)
  OBVIOUS
<1>5. \A i \in DOMAIN s : i = 1 \/ Tail(s)[i - 1] = s[i]
  <2> SUFFICES ASSUME NEW i \in DOMAIN s, i # 1
               PROVE  Tail(s)[i - 1] = s[i]
    OBVIOUS
  <2>1. i - 1 \in DOMAIN Tail(s) /\ (i - 1) + 1 = i
    BY <1>4
  <2> QED
    BY <1>3, <2>1
<1> QED
  BY <1>1, <1>2, <1>3, <1>4, <1>5

(* Paragraphs at hand: what is held, and where it stands. *)
LEMMA HeldByAppend ==
  ASSUME NEW s \in Seq(Paragraphs), NEW x \in Paragraphs
  PROVE  /\ \A p : Holds(Append(s, x), p) <=> Holds(s, p) \/ x.at = p
         /\ \A name : Faithful(s, name) /\ Faithful(<<x>>, name) => Faithful(Append(s, x), name)
<1>1. /\ \A i \in DOMAIN s : i \in DOMAIN Append(s, x) /\ Append(s, x)[i] = s[i]
      /\ \A i \in DOMAIN Append(s, x) : i \in DOMAIN s \/ i = Len(s) + 1
      /\ Append(s, x)[Len(s) + 1] = x /\ Len(s) + 1 \in DOMAIN Append(s, x)
  BY AppendElements
<1>2. \A p : Holds(Append(s, x), p) <=> Holds(s, p) \/ x.at = p
  BY <1>1 DEF Holds
<1>3. ASSUME NEW name, Faithful(s, name), Faithful(<<x>>, name)
      PROVE  Faithful(Append(s, x), name)
  <2>1. 1 \in DOMAIN <<x>> /\ <<x>>[1] = x
    OBVIOUS
  <2>2. x.tokens = doc[x.at].tokens /\ SectionOf(x.at) = name
    BY <1>3, <2>1 DEF Faithful
  <2> QED
    BY <1>1, <1>3, <2>2 DEF Faithful
<1> QED
  BY <1>2, <1>3

LEMMA HeldByTail ==
  ASSUME NEW s \in Seq(Paragraphs), s # <<>>
  PROVE  /\ \A p : Holds(s, p) <=> Head(s).at = p \/ Holds(Tail(s), p)
         /\ \A name : Faithful(s, name) => Faithful(Tail(s), name) /\ Faithful(<<Head(s)>>, name)
<1>1. /\ Head(s) = s[1] /\ 1 \in DOMAIN s
      /\ \A i \in DOMAIN Tail(s) : i + 1 \in DOMAIN s /\ Tail(s)[i] = s[i + 1]
      /\ \A i \in DOMAIN s : i = 1 \/ (i - 1 \in DOMAIN Tail(s) /\ Tail(s)[i - 1] = s[i])
  BY TailElements
<1>2. \A p : Holds(s, p) <=> Head(s).at = p \/ Holds(Tail(s), p)
  BY <1>1 DEF Holds
<1>3. \A i \in DOMAIN <<Head(s)>> : <<Head(s)>>[i] = Head(s)
  OBVIOUS
<1> QED
  BY <1>1, <1>2, <1>3 DEF Faithful

LEMMA HeldByOne ==
  ASSUME NEW x
  PROVE  \A p : Holds(<<x>>, p) <=> x.at = p
<1>1. DOMAIN <<x>> = 1..1 /\ <<x>>[1] = x
  OBVIOUS
<1> QED
  BY <1>1 DEF Holds

-----------------------------------------------------------------------------
(* Groups of the section at hand. *)
GroupOK(g) ==
  Faithful(g, sections[section].name) /\ (Len(g) > 1 => Counted(g) <= MaxTokens)

GroupsOK(gs) ==
  /\ gs \in Seq(Groups)
  /\ \A i \in DOMAIN gs : GroupOK(gs[i])
  /\ \A i \in 1..Len(gs) - 1 : Counted(gs[i]) + gs[i + 1][1].tokens + 1 > MaxTokens

Follows(g, gs) == gs # <<>> => Counted(gs[Len(gs)]) + g[1].tokens + 1 > MaxTokens

LEMMA GroupsAppend ==
  ASSUME NEW gs, GroupsOK(gs), NEW g \in Groups, GroupOK(g), Follows(g, gs)
  PROVE  GroupsOK(Append(gs, g))
<1> DEFINE n == Len(gs)
           all == Append(gs, g)
<1>0. gs \in Seq(Groups)
  BY DEF GroupsOK
<1>1. /\ all \in Seq(Groups) /\ n \in Nat /\ Len(all) = n + 1 /\ DOMAIN gs = 1..n
      /\ DOMAIN all = 1..(n + 1) /\ all[n + 1] = g
      /\ \A i \in DOMAIN gs : all[i] = gs[i]
      /\ \A i \in DOMAIN all : i \in DOMAIN gs \/ i = n + 1
  BY <1>0, AppendElements
<1>2. \A i \in DOMAIN all : GroupOK(all[i])
  <2> HIDE DEF all, n
  <2> QED
    BY <1>1 DEF GroupsOK
<1>3. ASSUME NEW i \in 1..Len(all) - 1
      PROVE  Counted(all[i]) + all[i + 1][1].tokens + 1 > MaxTokens
  <2> HIDE DEF all
  <2>1. CASE i = n
    <3>1. i \in DOMAIN gs /\ gs # <<>> /\ all[i] = gs[n] /\ all[i + 1] = g
      BY <1>1, <2>1
    <3> QED
      BY <3>1 DEF Follows
  <2>2. CASE i # n
    <3>0. i \in 1..n
      BY <1>1
    <3> HIDE DEF n
    <3>1. i \in 1..n - 1 /\ i \in DOMAIN gs /\ i + 1 \in DOMAIN gs
      BY <1>1, <2>2, <3>0
    <3> QED
      BY <1>1, <3>1 DEF GroupsOK, n
  <2> QED
    BY <2>1, <2>2
<1> QED
  BY <1>1, <1>2, <1>3 DEF GroupsOK

LEMMA GroupsTail ==
  ASSUME NEW gs, GroupsOK(gs), gs # <<>>
  PROVE  GroupsOK(Tail(gs))
<1>0. gs \in Seq(Groups)
  BY DEF GroupsOK
<1>1. /\ Tail(gs) \in Seq(Groups) /\ Len(gs) \in Nat \ {0} /\ Len(Tail(gs)) = Len(gs) - 1
      /\ \A i \in DOMAIN Tail(gs) : i + 1 \in DOMAIN gs /\ Tail(gs)[i] = gs[i + 1]
  BY <1>0, TailElements
<1>2. DOMAIN Tail(gs) = 1..Len(gs) - 1
  BY <1>0, <1>1
<1>3. ASSUME NEW i \in 1..Len(Tail(gs)) - 1
      PROVE  Counted(Tail(gs)[i]) + Tail(gs)[i + 1][1].tokens + 1 > MaxTokens
  <2>1. i \in DOMAIN Tail(gs) /\ i + 1 \in DOMAIN Tail(gs) /\ i + 1 \in 1..Len(gs) - 1
    BY <1>1, <1>2
  <2> QED
    BY <1>1, <2>1 DEF GroupsOK
<1> QED
  BY <1>1, <1>3 DEF GroupsOK

(* Closing the current group. *)
LEMMA ClosedGroups ==
  ASSUME ChunkerInv, phase = "pack"
  PROVE  /\ GroupsOK(Closed)
         /\ \A p : Holds(current, p) => \E i \in DOMAIN Closed : Holds(Closed[i], p)
         /\ \A i \in DOMAIN groups : i \in DOMAIN Closed /\ Closed[i] = groups[i]
         /\ current # <<>> => Closed # <<>> /\ Closed[Len(Closed)] = current
<1>1. GroupsOK(groups) /\ groups \in Seq(Groups) /\ current \in Seq(Paragraphs)
  BY DEF ChunkerInv, DataTypes, PackInv, PackingGreedy, GroupsOK, GroupOK
<1>2. CASE current = <<>>
  BY <1>1, <1>2 DEF Closed, Holds
<1>3. CASE current # <<>>
  <2>1. current \in Groups /\ Closed = Append(groups, current)
    BY <1>1, <1>3 DEF Groups, Closed
  <2>2. GroupOK(current) /\ Follows(current, groups)
    BY <1>3 DEF ChunkerInv, PackInv, GroupOK, Follows
  <2>3. GroupsOK(Append(groups, current))
    BY <1>1, <2>1, <2>2, GroupsAppend
  <2>4. /\ \A i \in DOMAIN groups : i \in DOMAIN Closed /\ Closed[i] = groups[i]
        /\ Len(Closed) = Len(groups) + 1 /\ Closed[Len(groups) + 1] = current
        /\ Len(groups) + 1 \in DOMAIN Closed /\ Closed # <<>>
    BY <1>1, <2>1, AppendElements
  <2> QED
    BY <2>1, <2>3, <2>4
<1> QED
  BY <1>2, <1>3
-----------------------------------------------------------------------------
(* What a step leaves alone. *)

LEMMA CoveredGrows ==
  ASSUME doc' = doc, \A i \in DOMAIN chunks : i \in DOMAIN chunks' /\ chunks'[i] = chunks[i]
  PROVE  \A p : Covered(p) => Covered(p)'
<1> SUFFICES ASSUME NEW p, Covered(p), NEW t \in 1..doc[p].tokens
             PROVE  \E i \in DOMAIN chunks' : \E j \in DOMAIN chunks'[i].group :
                      chunks'[i].group[j].at = p /\ t \in TokensIn(chunks'[i], j)
  BY DEF Covered
<1>1. PICK i \in DOMAIN chunks : \E j \in DOMAIN chunks[i].group :
             chunks[i].group[j].at = p /\ t \in TokensIn(chunks[i], j)
  BY DEF Covered
<1> QED
  BY <1>1

LEMMA ScanStays ==
  ASSUME ScanInv, phase # "scan", phase' # "scan", UNCHANGED <<doc, splitVars>>
  PROVE  ScanInv'
<1>1. doc' = doc /\ best' = best /\ scanned' = scanned
  BY DEF splitVars
<1>2. Headers' = Headers /\ \A m : Span(m)' = Span(m)
  BY <1>1, DocumentStays
<1> QED
  BY <1>1, <1>2 DEF ScanInv

LEMMA SplitStays ==
  ASSUME SplitInv, phase \notin {"scan", "split"}, phase' \notin {"scan", "split"},
         UNCHANGED <<doc, splitVars>>
  PROVE  SplitInv'
<1>1. doc' = doc /\ cut' = cut /\ sections' = sections
  BY DEF splitVars
<1>2. /\ End' = End /\ Text' = Text
      /\ \A text, name : Faithful(text, name)' <=> Faithful(text, name)
  BY <1>1, DocumentStays
<1> QED
  BY <1>1, <1>2 DEF SplitInv, Holds

LEMMA ChunksStay ==
  ASSUME ChunksInv, UNCHANGED <<doc, sections, section, chunks>>
  PROVE  ChunksInv'
<1>1. \A text, name : Faithful(text, name)' <=> Faithful(text, name)
  BY DocumentStays
<1>2. SectionsAscend' <=> SectionsAscend
  BY DEF SectionsAscend
<1>3. ChunksInv'
  BY <1>1, <1>2 DEF ChunksInv
<1> QED
  BY <1>3

(* While the document is scanned and split, nothing is at hand yet. *)
LEMMA RestStays ==
  ASSUME ChunkerInv, phase \in {"scan", "split"}, phase' \in {"scan", "split", "section"},
         UNCHANGED <<doc, section, packVars, start, chunks>>,
         sections' \in Seq([name : Nat, text : Seq(Paragraphs)])
  PROVE  /\ PackInv' /\ NoneLost' /\ EmitInv' /\ ChunksInv' /\ PackingGreedy'
<1>1. section = 0 /\ chunks = <<>> /\ start = 0 /\ DOMAIN chunks = {}
  BY DEF ChunkerInv, SplitInv, EmitInv
<1>2. section' = 0 /\ chunks' = <<>> /\ start' = 0 /\ groups' = groups /\ DOMAIN chunks' = {}
  BY <1>1 DEF packVars
<1>3. PackInv'
  BY <1>2 DEF ChunkerInv, PackInv
<1>4. NoneLost'
  <2>1. \A k \in DOMAIN sections' : ~ (k < 0) /\ k # 0
    BY SMT
  <2> QED
    BY <1>2, <2>1 DEF NoneLost
<1>5. EmitInv'
  BY <1>2 DEF EmitInv
<1>6. ChunksInv'
  BY <1>2 DEF ChunksInv
<1>7. PackingGreedy'
  BY <1>2 DEF ChunkerInv, PackingGreedy
<1> QED
  BY <1>3, <1>4, <1>5, <1>6, <1>7

-----------------------------------------------------------------------------
(* The strengthened invariant is inductive. *)

LEMMA InitChunker == ChunkerInit => ChunkerInv
<1> SUFFICES ASSUME ChunkerInit
             PROVE  ChunkerInv
  OBVIOUS
<1>0. /\ Len(doc) \in Nat /\ DOMAIN doc = 1..Len(doc) /\ End = Len(doc) + 1
      /\ DOMAIN best = {} /\ DOMAIN chunks = {} /\ DOMAIN sections = {} /\ DOMAIN groups = {}
      /\ Len(sections) = 0 /\ Len(groups) = 0
  BY DocType DEF ChunkerInit
<1>1. ChunkerTypeOK
  BY <1>0 DEF ChunkerTypeOK, ChunkerInit
<1>2. DataTypes
  <2>1. \A S : <<>> \in Seq(S)
    OBVIOUS
  <2> QED
    BY <2>1 DEF DataTypes, ChunkerInit
<1>3. ScanInv
  BY <1>0 DEF ScanInv, Headers, ChunkerInit
<1>4. SplitInv
  BY <1>0 DEF SplitInv, Text, ChunkerInit
<1>5. PackInv /\ NoneLost
  BY <1>0 DEF PackInv, NoneLost, ChunkerInit
<1>6. EmitInv /\ ChunksInv /\ PackingGreedy
  BY <1>0 DEF EmitInv, ChunksInv, PackingGreedy, ChunkerInit
<1> QED
  BY <1>1, <1>2, <1>3, <1>4, <1>5, <1>6 DEF ChunkerInv

LEMMA ScanStep ==
  ASSUME ChunkerInv, ScanMatch \/ EndScan
  PROVE  ChunkerInv'
<1> DEFINE m == NextOf(Headers, scanned)
<1>0. /\ doc \in Docs /\ doc' = doc /\ sections' = sections /\ cut' = cut /\ phase = "scan"
      /\ cut = 0 /\ section = 0 /\ chunks = <<>>
      /\ UNCHANGED <<doc, section, packVars, start, chunks>> /\ phase' \in {"scan", "split"}
  BY DEF ScanMatch, EndScan, splitVars, ChunkerInv, DataTypes, SplitInv
<1>1. /\ Len(doc) \in Nat /\ End = Len(doc) + 1 /\ DOMAIN doc = 1..Len(doc)
      /\ Headers \in SUBSET DOMAIN doc
  BY <1>0, DocType DEF Headers
<1>2. /\ m \in Headers \/ m = End
      /\ m \in (scanned + 1)..End
      /\ \A n \in Headers : n > scanned => m <= n
  BY <1>0, <1>1, NextPlace DEF ChunkerInv, ChunkerTypeOK
<1>3. Headers' = Headers /\ End' = End /\ Text' = Text
      /\ \A n : Span(n)' = Span(n) /\ (IsHeader(n)' <=> IsHeader(n))
      /\ \A text, name : Faithful(text, name)' <=> Faithful(text, name)
  BY <1>0, DocumentStays
<1>4. DataTypes'
  BY <1>0 DEF ChunkerInv, DataTypes, packVars
<1>5. PackInv' /\ NoneLost' /\ EmitInv' /\ ChunksInv' /\ PackingGreedy'
  <2>1. phase \in {"scan", "split"} /\ phase' \in {"scan", "split", "section"}
    BY <1>0
  <2>2. sections' \in Seq([name : Nat, text : Seq(Paragraphs)])
    BY <1>4 DEF DataTypes
  <2> QED
    BY <1>0, <2>1, <2>2, RestStays
<1>6. SplitInv'
  <2>1. \A k \in DOMAIN sections' : Faithful(sections[k].text, sections[k].name)'
    BY <1>0, <1>3 DEF ChunkerInv, SplitInv
  <2>2. \A p \in Text' : ~ (p < cut')
    BY <1>0, <1>1, <1>3 DEF Text
  <2> QED
    BY <1>0, <2>1, <2>2 DEF SplitInv
<1> HIDE DEF m
<1>7. CASE ScanMatch
  <2> DEFINE item == doc[m].item
             keep == item \in DOMAIN best => Beats(m, best[item])
  <2>0. /\ scanned' = m /\ m # End /\ phase' = phase
        /\ best' = IF keep THEN [i \in DOMAIN best \cup {item} |-> IF i = item THEN m ELSE best[i]]
                     ELSE best
    BY <1>7 DEF ScanMatch, m
  <2>1. m \in Headers /\ m \in 1..Len(doc) /\ scanned < m /\ scanned \in Nat
    BY <1>1, <1>2, <2>0 DEF ChunkerInv, ChunkerTypeOK
  <2>2. \A n \in Headers : n <= m <=> n <= scanned \/ n = m
    BY <1>1, <1>2, <2>1
  <2>3. \A n \in Headers : n \in Nat /\ Span(n) \in Int
    BY <1>0, <1>1, SpanType
  <2>4. \A i \in DOMAIN best :
          /\ best[i] \in Headers /\ best[i] <= scanned /\ doc[best[i]].item = i
          /\ \A n \in Headers : n <= scanned /\ doc[n].item = i =>
               Span(n) < Span(best[i]) \/ (Span(n) = Span(best[i]) /\ n <= best[i])
    BY DEF ChunkerInv, ScanInv
  <2>5. \A n \in Headers : n <= scanned => doc[n].item \in DOMAIN best
    BY DEF ChunkerInv, ScanInv
  <2> HIDE DEF item
  <2>6. /\ item \in DOMAIN best' /\ DOMAIN best \subseteq DOMAIN best'
        /\ \A i \in DOMAIN best' : i # item => i \in DOMAIN best /\ best'[i] = best[i]
    BY <2>0
  <2>7. doc[m].item = item
    BY DEF item
  <2>8. ASSUME NEW i \in DOMAIN best'
        PROVE  /\ best'[i] \in Headers /\ best'[i] <= m /\ doc[best'[i]].item = i
               /\ \A n \in Headers : n <= m /\ doc[n].item = i =>
                    Span(n) < Span(best'[i]) \/ (Span(n) = Span(best'[i]) /\ n <= best'[i])
    <3>1. CASE i # item
      <4>1. i \in DOMAIN best /\ best'[i] = best[i]
        BY <2>6, <3>1
      <4>2. best[i] \in Headers /\ best[i] <= m
        BY <2>4, <2>2, <4>1
      <4>3. \A n \in Headers : n <= m /\ doc[n].item = i => n <= scanned
        BY <2>2, <2>7, <3>1
      <4> QED
        BY <2>4, <4>1, <4>2, <4>3
    <3>2. CASE i = item /\ keep
      <4>1. best'[i] = m
        BY <2>0, <3>2
      <4>2. ASSUME NEW n \in Headers, n <= scanned, doc[n].item = item
            PROVE  Span(n) < Span(m) \/ (Span(n) = Span(m) /\ n <= m)
        <5>1. item \in DOMAIN best /\ n <= m
          BY <2>2, <2>5, <4>2
        <5> DEFINE b == best[item]
        <5>2. Span(m) >= Span(b) /\ b \in Headers
          BY <2>4, <3>2, <5>1 DEF Beats
        <5>3. Span(n) < Span(b) \/ Span(n) = Span(b)
          BY <2>4, <4>2, <5>1
        <5> HIDE DEF b
        <5>4. Span(n) \in Int /\ Span(b) \in Int /\ Span(m) \in Int
          BY <2>1, <2>3, <5>2
        <5> QED
          BY <5>1, <5>2, <5>3, <5>4
      <4> QED
        BY <2>1, <2>2, <2>3, <2>7, <3>2, <4>1, <4>2
    <3>3. CASE i = item /\ ~keep
      <4>1. best' = best /\ i \in DOMAIN best /\ ~Beats(m, best[i])
        BY <2>0, <3>3
      <4> DEFINE b == best[i]
      <4>2. b \in Headers /\ b <= scanned /\ b <= m /\ doc[b].item = i
        BY <2>2, <2>4, <4>1
      <4>3. Span(m) < Span(b)
        <5>1. ~ (Span(m) >= Span(b))
          BY <4>1 DEF Beats
        <5>2. Span(m) \in Int /\ Span(b) \in Int
          BY <2>1, <2>3, <4>2
        <5> HIDE DEF b
        <5> QED
          BY <5>1, <5>2
      <4>4. \A n \in Headers : n <= scanned /\ doc[n].item = i =>
               Span(n) < Span(b) \/ (Span(n) = Span(b) /\ n <= b)
        BY <2>4, <4>1
      <4> HIDE DEF b
      <4>5. \A n \in Headers : n <= m /\ doc[n].item = i =>
               Span(n) < Span(b) \/ (Span(n) = Span(b) /\ n <= b)
        BY <2>2, <4>3, <4>4
      <4> QED
        BY <4>1, <4>2, <4>5 DEF b
    <3> QED
      BY <3>1, <3>2, <3>3
  <2> HIDE DEF keep
  <2>9. ScanInv'
    <3>1. \A n \in Headers' : n <= scanned' => doc'[n].item \in DOMAIN best'
      BY <1>0, <1>3, <2>0, <2>2, <2>5, <2>6, <2>7
    <3>2. phase' = "scan"
      BY <1>0, <2>0
    <3>4. \A i : Span(best[i])' = Span(best'[i])
      BY <1>0, <1>3 DEF Span, Between, NextOf, End
    <3>3. ASSUME NEW i \in DOMAIN best'
          PROVE  /\ best'[i] \in Headers' /\ best'[i] <= scanned' /\ doc'[best'[i]].item = i
                 /\ \A n \in Headers' : n <= scanned' /\ doc'[n].item = i =>
                      Span(n)' < Span(best[i])' \/ (Span(n)' = Span(best[i])' /\ n <= best'[i])
      <4> DEFINE b == best'[i]
      <4>1. Span(best[i])' = Span(b)
        BY <3>4
      <4>2. /\ b \in Headers /\ b <= m /\ doc[b].item = i
            /\ \A n \in Headers : n <= m /\ doc[n].item = i =>
                  Span(n) < Span(b) \/ (Span(n) = Span(b) /\ n <= b)
        BY <2>8
      <4>3. b = best'[i]
        OBVIOUS
      <4> HIDE DEF b
      <4>4. \A n \in Headers' : n <= scanned' /\ doc'[n].item = i =>
               Span(n)' < Span(best[i])' \/ (Span(n)' = Span(best[i])' /\ n <= b)
        BY <1>0, <1>3, <2>0, <4>1, <4>2
      <4> QED
        BY <1>0, <1>3, <2>0, <4>2, <4>3, <4>4
    <3> QED
      BY <3>1, <3>2, <3>3 DEF ScanInv
  <2>10. ChunkerTypeOK'
    <3>1. ASSUME NEW i \in DOMAIN best'
          PROVE  best'[i] \in 1..scanned' /\ doc'[best'[i]].item = i
      <4> DEFINE b == best'[i]
      <4>1. b \in Headers /\ b <= m /\ doc[b].item = i
        BY <2>8
      <4> HIDE DEF b
      <4>2. b \in 1..m
        BY <1>1, <2>1, <4>1
      <4> QED
        BY <1>0, <2>0, <4>1, <4>2 DEF b
    <3>2. scanned' \in 0..Len(doc')
      BY <1>0, <2>0, <2>1
    <3> QED
      BY <1>0, <1>3, <3>1, <3>2 DEF ChunkerInv, ChunkerTypeOK
  <2> QED
    BY <1>4, <1>5, <1>6, <2>9, <2>10 DEF ChunkerInv
<1>8. CASE EndScan
  <2>0. m = End /\ best' = best /\ scanned' = scanned /\ phase' = "split"
    BY <1>8 DEF EndScan, splitVars, m
  <2>1. \A n \in Headers : n <= scanned
    BY <1>1, <1>2, <2>0 DEF ChunkerInv, ChunkerTypeOK
  <2>2. ScanInv'
    BY <1>0, <1>3, <2>0, <2>1 DEF ChunkerInv, ScanInv
  <2>3. ChunkerTypeOK'
    BY <1>0, <1>3, <2>0 DEF ChunkerInv, ChunkerTypeOK
  <2> QED
    BY <1>4, <1>5, <1>6, <2>2, <2>3 DEF ChunkerInv
<1> QED
  BY <1>7, <1>8

LEMMA SplitStep ==
  ASSUME ChunkerInv, SplitSection \/ EndSplit
  PROVE  ChunkerInv'
<1> DEFINE R == [name : Nat, text : Seq(Paragraphs)]
<1>0. /\ doc \in Docs /\ doc' = doc /\ best' = best /\ scanned' = scanned /\ phase = "split"
      /\ section = 0 /\ section' = 0 /\ chunks = <<>>
      /\ UNCHANGED <<doc, section, packVars, start, chunks>> /\ phase' \in {"split", "section"}
  BY DEF SplitSection, EndSplit, splitVars, ChunkerInv, DataTypes, SplitInv
<1>1. /\ Len(doc) \in Nat /\ End = Len(doc) + 1 /\ DOMAIN doc = 1..Len(doc)
      /\ \A p \in DOMAIN doc : doc[p].item \in Nat /\ doc[p].tokens \in Nat \ {0} /\ doc[p].joint \in Nat
  BY <1>0, DocType
<1>2. Headers' = Headers /\ End' = End /\ Text' = Text
      /\ \A n : Span(n)' = Span(n) /\ (IsHeader(n)' <=> IsHeader(n))
      /\ \A text, name : Faithful(text, name)' <=> Faithful(text, name)
  BY <1>0, DocumentStays
<1>3. ScanInv'
  <2>1. \A i : Span(best[i])' = Span(best'[i])
    BY <1>0, <1>2 DEF Span, Between, NextOf, End
  <2>2. \A m \in Headers' : m <= scanned' => doc'[m].item \in DOMAIN best'
    BY <1>0, <1>2 DEF ChunkerInv, ScanInv
  <2>3. \A m \in Headers' : m <= scanned'
    BY <1>0, <1>2 DEF ChunkerInv, ScanInv
  <2>4. \A i \in DOMAIN best' :
          /\ best'[i] \in Headers' /\ best'[i] <= scanned' /\ doc'[best'[i]].item = i
          /\ \A n \in Headers' : n <= scanned' /\ doc'[n].item = i =>
               Span(n)' < Span(best[i])' \/ (Span(n)' = Span(best[i])' /\ n <= best'[i])
    BY <1>0, <1>2, <2>1 DEF ChunkerInv, ScanInv
  <2> QED
    BY <2>2, <2>3, <2>4 DEF ScanInv
<1>4. ASSUME sections' \in Seq(R), cut' \in 0..End', SplitInv'
      PROVE  ChunkerInv'
  <2>1. PackInv' /\ NoneLost' /\ EmitInv' /\ ChunksInv' /\ PackingGreedy'
    <3>1. phase \in {"scan", "split"} /\ phase' \in {"scan", "split", "section"}
      BY <1>0
    <3> QED
      BY <1>0, <1>4, <3>1, RestStays
  <2>2. DataTypes'
    BY <1>0, <1>4 DEF ChunkerInv, DataTypes, packVars
  <2>3. ChunkerTypeOK'
    <3>1. Len(sections') \in Nat
      BY <1>4
    <3>2. section' \in 0..Len(sections')
      BY <1>0, <3>1
    <3> QED
      BY <1>0, <1>4, <3>2 DEF ChunkerInv, ChunkerTypeOK
  <2> QED
    BY <1>3, <1>4, <2>1, <2>2, <2>3 DEF ChunkerInv
<1>5. CASE EndSplit
  <2>1. phase' = "section" /\ cut = End /\ cut' = cut /\ sections' = sections /\ chunks' = chunks
    BY <1>5 DEF EndSplit, splitVars
  <2>2. SplitInv'
    BY <1>0, <1>2, <2>1 DEF ChunkerInv, SplitInv, Holds
  <2>3. sections' \in Seq(R) /\ cut' \in 0..End'
    BY <1>2, <2>1 DEF ChunkerInv, DataTypes, ChunkerTypeOK
  <2> QED
    BY <1>4, <2>2, <2>3
<1>6. CASE SplitSection
  <2> DEFINE kept == {best[i] : i \in DOMAIN best}
             e == NextOf(kept, cut)
             name == IF cut = 0 THEN 0 ELSE doc[cut].item
             text == Between(cut, e)
             new == [name |-> name, text |-> text]
  <2>0. /\ phase' = "split" /\ cut # End /\ cut' = e
        /\ sections' = IF text = <<>> THEN sections ELSE Append(sections, new)
    BY <1>0, <1>6 DEF SplitSection
  <2>1. \A m : m \in kept <=> IsHeader(m)
    BY <1>0, HeadersKept DEF ChunkerInv
  <2>2. kept \in SUBSET DOMAIN doc
    BY <2>1 DEF IsHeader, Headers
  <2>3. cut \in 0..Len(doc) /\ cut \in Nat
    BY <1>1, <2>0 DEF ChunkerInv, ChunkerTypeOK
  <2>4. cut = 0 \/ IsHeader(cut)
    BY <1>0, <2>0 DEF ChunkerInv, SplitInv
  <2> HIDE DEF kept
  <2>5. (e \in kept \/ e = End) /\ e \in (cut + 1)..End /\ \A n \in kept : n > cut => e <= n
    BY <1>0, <2>2, <2>3, NextPlace
  <2>6. sections \in Seq(R)
    BY DEF ChunkerInv, DataTypes
  <2> HIDE DEF e
  <2>7. /\ text \in Seq(Paragraphs) /\ DOMAIN text = 1..(e - cut - 1)
        /\ \A k \in 1..(e - cut - 1) :
             /\ cut + k \in DOMAIN doc /\ cut < cut + k /\ cut + k < e
             /\ text[k].at = cut + k /\ text[k].tokens = doc[cut + k].tokens
    BY <1>0, <2>3, <2>5, BetweenType
  <2>8. name \in Nat
    BY <1>1, <2>3
  <2> HIDE DEF text
  <2>9. new \in R
    BY <2>7, <2>8
  <2>10. Faithful(text, name)
    <3> SUFFICES ASSUME NEW k \in 1..(e - cut - 1)
                 PROVE  text[k].tokens = doc[text[k].at].tokens /\ SectionOf(text[k].at) = name
      BY <2>7 DEF Faithful
    <3> DEFINE p == cut + k
    <3>1. p \in Nat /\ cut <= p /\ p < e
      BY <1>1, <2>3, <2>7
    <3>2. \A n \in 1..p : IsHeader(n) => n <= cut
      BY <1>1, <2>1, <2>3, <2>5, <3>1
    <3> HIDE DEF p
    <3>3. SectionOf(p) = name
      BY <1>0, <2>3, <2>4, <3>1, <3>2, SectionAfter
    <3> QED
      BY <2>7, <3>3 DEF p
  <2> HIDE DEF name
  <2>11. sections' \in Seq(R)
    <3> HIDE DEF R, new
    <3>1. Append(sections, new) \in Seq(R)
      BY <2>6, <2>9, AppendElements
    <3> QED
      BY <2>0, <2>6, <3>1
  <2>12. cut' \in 0..End'
    BY <1>1, <1>2, <2>0, <2>3, <2>5
  <2>13. ASSUME NEW k \in DOMAIN sections'
         PROVE  Faithful(sections[k].text, sections[k].name)'
    <3>1. Faithful(sections'[k].text, sections'[k].name)
      <4>1. \A j \in DOMAIN sections : Faithful(sections[j].text, sections[j].name)
        BY DEF ChunkerInv, SplitInv
      <4>2. CASE text = <<>>
        BY <2>0, <4>1, <4>2
      <4>3. CASE text # <<>>
        <5>1. sections' = Append(sections, new)
          BY <2>0, <4>3
        <5>2. CASE k \in DOMAIN sections
          <6>1. sections'[k] = sections[k]
            BY <2>6, <2>9, <5>1, <5>2, AppendElements
          <6> QED
            BY <4>1, <5>2, <6>1
        <5>3. CASE k \notin DOMAIN sections
          <6>1. sections'[k] = new
            BY <2>6, <2>9, <5>1, <5>3, AppendElements
          <6> QED
            BY <2>10, <6>1
        <5> QED
          BY <5>2, <5>3
      <4> QED
        BY <4>2, <4>3
    <3> QED
      BY <1>2, <3>1
  <2>14. ASSUME NEW p \in Text', p < cut'
         PROVE  \E k \in DOMAIN sections' : Holds(sections'[k].text, p)
    <3>1. p \in 1..Len(doc) /\ p \in Nat \ {0} /\ ~IsHeader(p) /\ p \in Text
      BY <1>1, <1>2, <2>14 DEF Text
    <3>2. \A k \in DOMAIN sections : k \in DOMAIN sections' /\ sections'[k] = sections[k]
      BY <2>0, <2>6, <2>9, AppendElements
    <3>3. CASE p < cut
      <4>1. PICK k \in DOMAIN sections : Holds(sections[k].text, p)
        BY <3>1, <3>3 DEF ChunkerInv, SplitInv
      <4> QED
        BY <3>2, <4>1
    <3>4. CASE ~ (p < cut)
      <4>1. p # cut
        BY <2>4, <3>1
      <4> DEFINE j == p - cut
      <4>2. j \in 1..(e - cut - 1) /\ cut + j = p
        BY <1>1, <2>0, <2>3, <2>5, <2>14, <3>1, <3>4, <4>1
      <4>3. j \in DOMAIN text /\ text[j].at = p
        BY <2>7, <4>2
      <4>4. text # <<>> /\ Holds(text, p)
        BY <4>3 DEF Holds
      <4>5. sections' = Append(sections, new)
        BY <2>0, <4>4
      <4>6. Len(sections) + 1 \in DOMAIN sections' /\ sections'[Len(sections) + 1] = new
        BY <2>6, <2>9, <4>5, AppendElements
      <4> QED
        BY <4>4, <4>6
    <3> QED
      BY <3>3, <3>4
  <2>15. cut' \in {0, End'} \/ IsHeader(cut')
    BY <1>2, <2>0, <2>1, <2>5
  <2>16. SplitInv'
    <3>1. \A p \in Text' : p < cut' => \E k \in DOMAIN sections' : Holds(sections[k].text, p)'
      BY <2>14 DEF Holds
    <3>2. (cut \in {0, End} \/ IsHeader(cut))'
      <4>1. IsHeader(cut)' <=> IsHeader(cut')
        BY <1>0, <1>2 DEF IsHeader, Span, Between, NextOf, End
      <4> QED
        BY <2>15, <4>1
    <3> QED
      BY <1>0, <2>0, <2>13, <3>1, <3>2 DEF SplitInv
  <2> QED
    BY <1>4, <2>11, <2>12, <2>16
<1> QED
  BY <1>5, <1>6

Later == {"section", "pack", "emit", "done"}

LEMMA LaterStays ==
  ASSUME ChunkerInv, phase \in Later, phase' \in Later, UNCHANGED <<doc, splitVars, section, chunks>>
  PROVE  ChunkerTypeOK' /\ ScanInv' /\ SplitInv' /\ ChunksInv'
<1>1. /\ phase # "scan" /\ phase' # "scan"
      /\ phase \notin {"scan", "split"} /\ phase' \notin {"scan", "split"}
  BY DEF Later
<1>2. ScanInv' /\ SplitInv'
  BY <1>1, ScanStays, SplitStays DEF ChunkerInv
<1>3. ChunksInv'
  BY ChunksStay DEF ChunkerInv, splitVars
<1>4. ChunkerTypeOK'
  <2>1. /\ doc' = doc /\ best' = best /\ scanned' = scanned /\ cut' = cut /\ sections' = sections
        /\ section' = section /\ chunks' = chunks
    BY DEF splitVars
  <2>2. phase' \in {"scan", "split", "section", "pack", "emit", "done"}
    BY DEF Later
  <2>3. End' = End
    BY <2>1 DEF End
  <2> QED
    BY <2>1, <2>2, <2>3 DEF ChunkerInv, ChunkerTypeOK
<1> QED
  BY <1>2, <1>3, <1>4

LEMMA SectionStep ==
  ASSUME ChunkerInv, NextSection \/ Finish \/ EndSection
  PROVE  ChunkerInv'
<1>0. /\ doc' = doc /\ sections' = sections /\ chunks' = chunks /\ start' = start
      /\ UNCHANGED <<doc, splitVars>>
  BY DEF NextSection, Finish, EndSection, splitVars
<1>1. start = 0
  BY DEF NextSection, Finish, EndSection, ChunkerInv, EmitInv
<1>2. EmitInv'
  BY <1>0, <1>1 DEF EmitInv
<1>3. \A p : Covered(p)' <=> Covered(p)
  BY <1>0 DEF Covered
<1>4. /\ phase \in Later /\ phase' \in Later
      /\ phase # "scan" /\ phase' # "scan"
      /\ phase \notin {"scan", "split"} /\ phase' \notin {"scan", "split"}
  BY DEF Later, NextSection, Finish, EndSection
<1>5. /\ Len(sections) \in Nat /\ DOMAIN sections = 1..Len(sections) /\ section \in 0..Len(sections)
      /\ \A k \in DOMAIN sections : sections[k] \in [name : Nat, text : Seq(Paragraphs)]
  <2> DEFINE R == [name : Nat, text : Seq(Paragraphs)]
  <2>1. sections \in Seq(R)
    BY DEF ChunkerInv, DataTypes
  <2> HIDE DEF R
  <2>2. /\ Len(sections) \in Nat /\ DOMAIN sections = 1..Len(sections)
        /\ \A k \in DOMAIN sections : sections[k] \in R
    BY <2>1
  <2> QED
    BY <2>2 DEF ChunkerInv, ChunkerTypeOK, R
(* Nothing is on its way at the end of a section. *)
<1>6. ASSUME NEW k \in DOMAIN sections, k <= section, NEW p \in DOMAIN doc, Holds(sections[k].text, p)
      PROVE  Covered(p)
  <2>1. CASE k < section
    BY <1>6, <2>1 DEF ChunkerInv, NoneLost
  <2>2. CASE k = section
    <3>1. OnItsWay(p)
      BY <1>6, <2>2 DEF ChunkerInv, NoneLost
    <3>2. ~ \E g \in DOMAIN groups : phase \in {"pack", "emit"}
      BY DEF NextSection, Finish, EndSection
    <3>3. phase # "pack"
      BY DEF NextSection, Finish, EndSection
    <3> QED
      BY <3>1, <3>2, <3>3 DEF OnItsWay
  <2> QED
    BY <1>5, <1>6, <2>1, <2>2
<1>7. CASE Finish \/ EndSection
  <2>0. /\ section' = section /\ groups' = groups /\ phase' \in {"section", "done"}
        /\ phase' = "done" => section = Len(sections)
        /\ UNCHANGED <<section, packVars>>
    BY <1>7 DEF Finish, EndSection, packVars
  <2>1. ChunkerTypeOK' /\ ScanInv' /\ SplitInv' /\ ChunksInv'
    BY <1>0, <1>4, <2>0, LaterStays
  <2>2. DataTypes'
    BY <1>0, <2>0 DEF ChunkerInv, DataTypes, packVars
  <2>3. PackInv'
    BY <2>0 DEF ChunkerInv, PackInv
  <2>4. NoneLost'
    <3> SUFFICES ASSUME NEW k \in DOMAIN sections, NEW p \in DOMAIN doc, Holds(sections[k].text, p)
                 PROVE  (k < section => Covered(p)') /\ (k = section => OnItsWay(p)')
      BY <1>0, <2>0 DEF NoneLost
    <3>1. k <= section => Covered(p)'
      BY <1>3, <1>6
    <3> QED
      BY <1>5, <3>1 DEF OnItsWay
  <2>5. PackingGreedy'
    BY <2>0 DEF ChunkerInv, PackingGreedy
  <2> QED
    BY <1>2, <2>1, <2>2, <2>3, <2>4, <2>5 DEF ChunkerInv
<1>8. CASE NextSection
  <2>0. /\ section < Len(sections) /\ section' = section + 1 /\ phase' = "pack"
        /\ paras' = sections[section + 1].text
        /\ groups' = <<>> /\ current' = <<>> /\ currentTokens' = 0
        /\ DOMAIN groups' = {} /\ DOMAIN current' = {} /\ Len(groups') = 0
    BY <1>8 DEF NextSection
  <2>1. section + 1 \in DOMAIN sections
    BY <1>5, <2>0
  <2>2. ScanInv' /\ SplitInv'
    BY <1>0, <1>4, ScanStays, SplitStays DEF ChunkerInv
  <2>3. \A text, name : Faithful(text, name)' <=> Faithful(text, name)
    BY <1>0, DocumentStays
  <2>4. ChunkerTypeOK'
    <3>1. section' \in 0..Len(sections')
      BY <1>0, <1>5, <2>0
    <3>2. End' = End /\ best' = best /\ scanned' = scanned /\ cut' = cut
      BY <1>0 DEF End, splitVars
    <3> QED
      BY <1>0, <2>0, <3>1, <3>2 DEF ChunkerInv, ChunkerTypeOK
  <2>5. DataTypes'
    <3>1. paras' \in Seq(Paragraphs)
      <4>1. sections[section + 1] \in [name : Nat, text : Seq(Paragraphs)]
        BY <1>5, <2>1
      <4> QED
        BY <2>0, <4>1
    <3>2. groups' \in Seq(Groups) /\ current' \in Seq(Paragraphs) /\ currentTokens' \in Nat
      BY <2>0
    <3> QED
      BY <1>0, <3>1, <3>2 DEF ChunkerInv, DataTypes
  <2>6. PackInv'
    <3>1. Faithful(paras', sections'[section'].name)
      BY <1>0, <2>0, <2>1 DEF ChunkerInv, SplitInv
    <3>2. Faithful(paras, sections[section].name)'
      BY <2>3, <3>1
    <3>3. Faithful(current', sections'[section'].name)
      BY <2>0 DEF Faithful
    <3>4. Faithful(current, sections[section].name)'
      BY <2>3, <3>3
    <3>5. section' > 0
      BY <1>5, <2>0
    <3>6. Counted(current') = 0 /\ Len(current') = 0
      BY <2>0, CountedNone
    <3> QED
      BY <2>0, <3>2, <3>4, <3>5, <3>6 DEF PackInv
  <2>7. NoneLost'
    <3> SUFFICES ASSUME NEW k \in DOMAIN sections, NEW p \in DOMAIN doc, Holds(sections[k].text, p)
                 PROVE  (k < section' => Covered(p)') /\ (k = section' => OnItsWay(p)')
      BY <1>0, <2>0 DEF NoneLost
    <3>1. k < section' => Covered(p)'
      <4>1. k < section' => k <= section
        BY <1>5, <2>0
      <4> QED
        BY <1>3, <1>6, <4>1
    <3>2. k = section' => Holds(paras', p)
      BY <2>0
    <3>3. k = section' => OnItsWay(p)'
      BY <2>0, <3>2 DEF OnItsWay
    <3> QED
      BY <3>1, <3>3
  <2>8. ChunksInv'
    <3>1. \A i \in DOMAIN chunks : Faithful(chunks[i].group, chunks[i].section)
      BY DEF ChunkerInv, ChunksInv
    <3>2. (\A i \in DOMAIN chunks : Faithful(chunks[i].group, chunks[i].section))'
      BY <1>0, <2>3, <3>1
    <3>3. ASSUME SectionsAscend
          PROVE  \A i \in DOMAIN chunks :
                   /\ section' > 0 /\ chunks[i].section <= sections[section'].name
                   /\ \A j \in DOMAIN chunks : i < j => chunks[i].section <= chunks[j].section
      <4> SUFFICES ASSUME NEW i \in DOMAIN chunks
                   PROVE  section' > 0 /\ chunks[i].section <= sections[section'].name
        BY <3>3 DEF ChunkerInv, ChunksInv
      <4>1. section > 0 /\ chunks[i].section <= sections[section].name
        BY <3>3 DEF ChunkerInv, ChunksInv
      <4>2. section \in 1..Len(sections) - 1 /\ section \in DOMAIN sections
        BY <1>5, <2>0, <4>1
      <4>3. sections[section].name < sections[section + 1].name
        BY <3>3, <4>2 DEF SectionsAscend
      <4>4. sections[section].name \in Nat /\ sections[section + 1].name \in Nat
        BY <1>5, <2>1, <4>2
      <4>5. chunks[i].section \in Nat
        <5>1. chunks[i] \in Chunks
          BY DEF ChunkerInv, DataTypes
        <5> QED
          BY <5>1 DEF Chunks
      <4>6. chunks[i].section <= sections[section + 1].name
        BY <4>1, <4>3, <4>4, <4>5
      <4> QED
        BY <2>0, <4>1, <4>6, <1>5
    <3>4. SectionsAscend' <=> SectionsAscend
      BY <1>0 DEF SectionsAscend
    <3> QED
      BY <1>0, <3>2, <3>3, <3>4 DEF ChunksInv
  <2>9. PackingGreedy'
    BY <1>0, <2>0 DEF ChunkerInv, PackingGreedy
  <2> QED
    BY <1>2, <2>2, <2>4, <2>5, <2>6, <2>7, <2>8, <2>9 DEF ChunkerInv
<1> QED
  BY <1>7, <1>8

-----------------------------------------------------------------------------
(* Packing: what every step of the loop has to show. *)
LEMMA PackedTo ==
  ASSUME ChunkerInv, phase = "pack", phase' \in {"pack", "emit"},
         UNCHANGED <<doc, splitVars, section, start, chunks>>,
         GroupsOK(groups'),
         paras' \in Seq(Paragraphs), current' \in Seq(Paragraphs), currentTokens' \in Nat,
         Faithful(paras', sections[section].name), Faithful(current', sections[section].name),
         phase' = "pack" =>
           /\ currentTokens' = Counted(current')
           /\ Len(current') > 1 => Counted(current') <= MaxTokens
           /\ groups' # <<>> =>
                IF current' = <<>> THEN Counted(groups'[Len(groups')]) > MaxTokens
                ELSE Counted(groups'[Len(groups')]) + current'[1].tokens + 1 > MaxTokens,
         \A p : \/ Holds(paras, p) \/ Holds(current, p)
                \/ \E g \in DOMAIN groups : Holds(groups[g], p)
                => \/ phase' = "pack" /\ (Holds(paras', p) \/ Holds(current', p))
                   \/ \E g \in DOMAIN groups' : Holds(groups'[g], p)
  PROVE  ChunkerInv'
<1>0. /\ doc' = doc /\ sections' = sections /\ section' = section /\ chunks' = chunks
      /\ start' = start
  BY DEF splitVars
<1>1. phase \in Later /\ phase' \in Later
  BY DEF Later
<1>2. ChunkerTypeOK' /\ ScanInv' /\ SplitInv' /\ ChunksInv'
  BY <1>1, LaterStays
<1>3. \A text, name : Faithful(text, name)' <=> Faithful(text, name)
  BY <1>0, DocumentStays
<1>4. DataTypes'
  BY <1>0 DEF ChunkerInv, DataTypes, GroupsOK
<1>5. start = 0
  BY DEF ChunkerInv, EmitInv
<1>6. EmitInv'
  BY <1>0, <1>5 DEF EmitInv
<1>7. PackingGreedy'
  BY DEF PackingGreedy, GroupsOK, GroupOK
<1>8. PackInv'
  <2>1. section' > 0
    BY <1>0 DEF ChunkerInv, PackInv
  <2>2. Faithful(paras, sections[section].name)' /\ Faithful(current, sections[section].name)'
    <3>1. Faithful(paras', sections'[section'].name) /\ Faithful(current', sections'[section'].name)
      BY <1>0
    <3> QED
      BY <1>3, <3>1
  <2>3. ASSUME NEW g \in DOMAIN groups'
        PROVE  Faithful(groups[g], sections[section].name)'
    <3>1. Faithful(groups'[g], sections'[section'].name)
      BY <1>0 DEF GroupsOK, GroupOK
    <3>2. Faithful(groups[g], sections[section].name)'
      BY <1>3, <3>1
    <3> QED
      BY <3>2 DEF GroupsOK, GroupOK
  <2> QED
    BY <2>1, <2>2, <2>3 DEF PackInv
<1>9. NoneLost'
  <2>1. \A p : Covered(p)' <=> Covered(p)
    BY <1>0 DEF Covered
  <2>2. ASSUME NEW p, OnItsWay(p)
        PROVE  OnItsWay(p)'
    <3>1. CASE Covered(p)
      BY <2>1, <3>1 DEF OnItsWay
    <3>2. CASE ~Covered(p)
      <4>1. Holds(paras, p) \/ Holds(current, p) \/ \E g \in DOMAIN groups : Holds(groups[g], p)
        BY <2>2, <3>2 DEF OnItsWay
      <4>2. \/ phase' = "pack" /\ (Holds(paras', p) \/ Holds(current', p))
            \/ \E g \in DOMAIN groups' : Holds(groups'[g], p)
        BY <4>1
      <4> QED
        BY <4>2 DEF OnItsWay
    <3> QED
      BY <3>1, <3>2
  <2> QED
    BY <1>0, <2>1, <2>2 DEF ChunkerInv, NoneLost
<1> QED
  BY <1>2, <1>4, <1>6, <1>7, <1>8, <1>9 DEF ChunkerInv

LEMMA PackStep ==
  ASSUME ChunkerInv, PackOversize \/ PackNewGroup \/ PackAppend \/ EndPacking
  PROVE  ChunkerInv'
<1> DEFINE name == sections[section].name
           x == Head(paras)
<1>0. /\ phase = "pack" /\ phase' \in {"pack", "emit"}
      /\ UNCHANGED <<doc, splitVars, section, start, chunks>>
  BY DEF PackOversize, PackNewGroup, PackAppend, EndPacking, Packing, Packed
<1>1. /\ paras \in Seq(Paragraphs) /\ current \in Seq(Paragraphs) /\ groups \in Seq(Groups)
      /\ currentTokens \in Nat /\ MaxTokens \in Nat /\ <<>> \in Seq(Paragraphs)
  BY ChunkerAssumption DEF ChunkerInv, DataTypes
<1>2. Faithful(paras, name) /\ Faithful(current, name) /\ Faithful(<<>>, name)
  BY <1>0 DEF ChunkerInv, PackInv, Faithful
<1>3. /\ currentTokens = Counted(current)
      /\ Len(current) > 1 => Counted(current) <= MaxTokens
      /\ groups # <<>> =>
           IF current = <<>> THEN Counted(groups[Len(groups)]) > MaxTokens
           ELSE Counted(groups[Len(groups)]) + current[1].tokens + 1 > MaxTokens
  BY <1>0 DEF ChunkerInv, PackInv
<1>4. /\ GroupsOK(Closed)
      /\ \A p : Holds(current, p) => \E i \in DOMAIN Closed : Holds(Closed[i], p)
      /\ \A i \in DOMAIN groups : i \in DOMAIN Closed /\ Closed[i] = groups[i]
      /\ current # <<>> => Closed # <<>> /\ Closed[Len(Closed)] = current
  BY <1>0, ClosedGroups
<1>5. \A p : Holds(current, p) \/ (\E g \in DOMAIN groups : Holds(groups[g], p))
               => \E i \in DOMAIN Closed : Holds(Closed[i], p)
  BY <1>4
<1>6. Counted(current) \in Nat
  BY <1>1, CountedType
<1>7. CASE EndPacking
  <2>1. /\ groups' = Closed /\ phase' = "emit" /\ paras' = paras /\ current' = current
        /\ currentTokens' = currentTokens /\ paras = <<>>
    BY <1>7 DEF EndPacking
  <2>2. \A p : ~Holds(paras, p)
    BY <2>1 DEF Holds
  <2>3. GroupsOK(groups') /\ Faithful(paras', name) /\ Faithful(current', name)
    BY <1>2, <1>4, <2>1
  <2> QED
    BY <1>0, <1>1, <1>5, <2>1, <2>2, <2>3, PackedTo
<1>8. ASSUME paras # <<>>
      PROVE  /\ x \in Paragraphs /\ x.tokens \in Nat \ {0} /\ Tail(paras) \in Seq(Paragraphs)
             /\ Counted(<<x>>) = x.tokens + 1 /\ Len(<<x>>) = 1 /\ <<x>> \in Groups /\ <<x>> \in Seq(Paragraphs)
             /\ \A p : Holds(paras, p) <=> Holds(<<x>>, p) \/ Holds(Tail(paras), p)
             /\ Faithful(Tail(paras), name) /\ Faithful(<<x>>, name)
  <2>1. x \in Paragraphs /\ Tail(paras) \in Seq(Paragraphs)
    BY <1>1, <1>8, TailElements
  <2>2. Counted(<<x>>) = x.tokens + 1
    BY <2>1, CountedOne
  <2>3. /\ \A p : Holds(paras, p) <=> x.at = p \/ Holds(Tail(paras), p)
        /\ Faithful(Tail(paras), name) /\ Faithful(<<x>>, name)
    BY <1>1, <1>2, <1>8, HeldByTail
  <2>4. \A p : Holds(<<x>>, p) <=> x.at = p
    BY HeldByOne
  <2> HIDE DEF x
  <2>5. <<x>> \in Seq(Paragraphs) /\ <<x>> # <<>> /\ Len(<<x>>) = 1
    BY <2>1
  <2>6. x.tokens \in Nat \ {0}
    BY <2>1 DEF Paragraphs
  <2> QED
    BY <2>1, <2>2, <2>3, <2>4, <2>5, <2>6 DEF Groups
<1> HIDE DEF name, x
<1>9. CASE PackOversize
  <2>1. /\ paras # <<>> /\ x.tokens > MaxTokens /\ groups' = Append(Closed, <<x>>)
        /\ current' = <<>> /\ currentTokens' = 0 /\ paras' = Tail(paras) /\ phase' = "pack"
    BY <1>9 DEF PackOversize, Packing, Packed, x
  <2>2. GroupOK(<<x>>)
    BY <1>8, <2>1 DEF GroupOK, name
  <2>3. Follows(<<x>>, Closed)
    <3>1. ASSUME Closed # <<>>
          PROVE  Counted(Closed[Len(Closed)]) \in Nat
      <4>1. Closed \in Seq(Groups)
        BY <1>4 DEF GroupsOK
      <4>2. Closed[Len(Closed)] \in Groups
        BY <3>1, <4>1
      <4> QED
        BY <4>2, CountedType DEF Groups
    <3> QED
      BY <1>1, <1>8, <2>1, <3>1 DEF Follows
  <2>4. GroupsOK(groups')
    BY <1>4, <1>8, <2>1, <2>2, <2>3, GroupsAppend
  <2>5. /\ groups'[Len(groups')] = <<x>> /\ Len(groups') \in DOMAIN groups'
        /\ \A i \in DOMAIN Closed : i \in DOMAIN groups' /\ groups'[i] = Closed[i]
    <3>1. Closed \in Seq(Groups)
      BY <1>4 DEF GroupsOK
    <3> QED
      BY <1>8, <2>1, <3>1, AppendElements
  <2>6. \A p : \/ Holds(paras, p) \/ Holds(current, p)
               \/ \E g \in DOMAIN groups : Holds(groups[g], p)
               => \/ phase' = "pack" /\ (Holds(paras', p) \/ Holds(current', p))
                  \/ \E g \in DOMAIN groups' : Holds(groups'[g], p)
    <3>1. \A p : Holds(<<x>>, p) => \E g \in DOMAIN groups' : Holds(groups'[g], p)
      BY <2>5
    <3>2. \A p : (\E i \in DOMAIN Closed : Holds(Closed[i], p))
                   => \E g \in DOMAIN groups' : Holds(groups'[g], p)
      BY <2>5
    <3> QED
      BY <1>5, <1>8, <2>1, <3>1, <3>2
  <2>7. /\ paras' \in Seq(Paragraphs) /\ current' \in Seq(Paragraphs) /\ currentTokens' \in Nat
        /\ Faithful(paras', sections[section].name) /\ Faithful(current', sections[section].name)
    BY <1>1, <1>2, <1>8, <2>1 DEF name
  <2>8. /\ currentTokens' = Counted(current')
        /\ Len(current') > 1 => Counted(current') <= MaxTokens
        /\ groups' # <<>> =>
             IF current' = <<>> THEN Counted(groups'[Len(groups')]) > MaxTokens
             ELSE Counted(groups'[Len(groups')]) + current'[1].tokens + 1 > MaxTokens
    BY <1>1, <1>8, <2>1, <2>5, CountedNone
  <2> QED
    BY <1>0, <2>4, <2>6, <2>7, <2>8, PackedTo
<1>10. CASE PackNewGroup
  <2>1. /\ paras # <<>> /\ x.tokens <= MaxTokens /\ groups' = Closed
        /\ current # <<>> /\ currentTokens + x.tokens + 1 > MaxTokens
        /\ current' = <<x>> /\ currentTokens' = x.tokens + 1 /\ paras' = Tail(paras)
        /\ phase' = "pack"
    BY <1>10 DEF PackNewGroup, Packing, Packed, Overflows, x
  <2>2. GroupsOK(groups')
    BY <1>4, <2>1
  <2>3. \A p : \/ Holds(paras, p) \/ Holds(current, p)
               \/ \E g \in DOMAIN groups : Holds(groups[g], p)
               => \/ phase' = "pack" /\ (Holds(paras', p) \/ Holds(current', p))
                  \/ \E g \in DOMAIN groups' : Holds(groups'[g], p)
    BY <1>5, <1>8, <2>1
  <2>4. /\ paras' \in Seq(Paragraphs) /\ current' \in Seq(Paragraphs) /\ currentTokens' \in Nat
        /\ Faithful(paras', sections[section].name) /\ Faithful(current', sections[section].name)
    BY <1>8, <2>1 DEF name
  <2>5. Counted(groups'[Len(groups')]) + x.tokens + 1 > MaxTokens
    <3>1. Counted(groups'[Len(groups')]) = Counted(current) /\ currentTokens = Counted(current)
      BY <1>3, <1>4, <2>1
    <3> QED
      BY <1>1, <1>6, <1>8, <2>1, <3>1
  <2>6. /\ current' # <<>> /\ currentTokens' = Counted(current') /\ Len(current') = 1
        /\ current'[1] = x
    BY <1>8, <2>1
  <2> QED
    BY <1>0, <2>2, <2>3, <2>4, <2>5, <2>6, PackedTo
<1>11. CASE PackAppend
  <2>1. /\ paras # <<>> /\ x.tokens <= MaxTokens /\ groups' = groups
        /\ current # <<>> => currentTokens + x.tokens + 1 <= MaxTokens
        /\ current' = Append(current, x) /\ currentTokens' = currentTokens + x.tokens + 1
        /\ paras' = Tail(paras) /\ phase' = "pack"
    <3>1. current # <<>> => ~ (currentTokens + x.tokens + 1 > MaxTokens)
      BY <1>11 DEF PackAppend, Overflows, x
    <3>2. /\ paras # <<>> /\ x.tokens <= MaxTokens /\ groups' = groups
          /\ current' = Append(current, x) /\ currentTokens' = currentTokens + x.tokens + 1
          /\ paras' = Tail(paras) /\ phase' = "pack"
      BY <1>11 DEF PackAppend, Packing, Packed, x
    <3> QED
      BY <1>1, <1>8, <3>1, <3>2
  <2>2. GroupsOK(groups')
    <3>1. GroupsOK(groups)
      BY <1>0 DEF ChunkerInv, DataTypes, PackInv, PackingGreedy, GroupsOK, GroupOK
    <3> QED
      BY <2>1, <3>1
  <2>3. /\ \A p : Holds(current', p) <=> Holds(current, p) \/ x.at = p
        /\ Faithful(current', name)
    BY <1>1, <1>2, <1>8, <2>1, HeldByAppend
  <2>4. \A p : \/ Holds(paras, p) \/ Holds(current, p)
               \/ \E g \in DOMAIN groups : Holds(groups[g], p)
               => \/ phase' = "pack" /\ (Holds(paras', p) \/ Holds(current', p))
                  \/ \E g \in DOMAIN groups' : Holds(groups'[g], p)
    <3>1. \A p : Holds(<<x>>, p) <=> x.at = p
      BY HeldByOne
    <3> QED
      BY <1>8, <2>1, <2>3, <3>1
  <2>5. /\ paras' \in Seq(Paragraphs) /\ current' \in Seq(Paragraphs) /\ currentTokens' \in Nat
        /\ current' # <<>>
    BY <1>1, <1>8, <2>1, AppendElements
  <2>6. Counted(current') = Counted(current) + x.tokens + 1
    BY <1>1, <1>8, <2>1, CountedAppend
  <2>7. currentTokens' = Counted(current') /\ (Len(current') > 1 => Counted(current') <= MaxTokens)
    <3>1. currentTokens' = Counted(current')
      BY <1>3, <2>1, <2>6
    <3>2. CASE current = <<>>
      <4>1. Len(current') = 1
        BY <1>8, <2>1, <3>2
      <4> QED
        BY <3>1, <4>1
    <3>3. CASE current # <<>>
      BY <2>1, <3>1, <3>3
    <3> QED
      BY <3>2, <3>3
  <2>8. groups' # <<>> => Counted(groups'[Len(groups')]) + current'[1].tokens + 1 > MaxTokens
    <3>1. CASE current = <<>>
      <4>1. current'[1] = x
        BY <2>1, <3>1
      <4>2. ASSUME groups # <<>>
            PROVE  Counted(groups[Len(groups)]) \in Nat
        <5>1. groups[Len(groups)] \in Groups
          BY <1>1, <4>2
        <5> QED
          BY <5>1, CountedType DEF Groups
      <4> QED
        BY <1>1, <1>3, <1>8, <2>1, <3>1, <4>1, <4>2
    <3>2. CASE current # <<>>
      <4>1. 1 \in DOMAIN current
        BY <1>1, <3>2
      <4>2. current'[1] = current[1]
        BY <1>1, <1>8, <2>1, <4>1, AppendElements
      <4> QED
        BY <1>3, <2>1, <3>2, <4>2
    <3> QED
      BY <3>1, <3>2
  <2>9. Faithful(paras', sections[section].name) /\ Faithful(current', sections[section].name)
    BY <1>8, <2>1, <2>3 DEF name
  <2> QED
    BY <1>0, <2>2, <2>4, <2>5, <2>7, <2>8, <2>9, PackedTo
<1> QED
  BY <1>7, <1>9, <1>10, <1>11

-----------------------------------------------------------------------------
(* Emitting. *)

(* Windows that cover a group's joined text cover its paragraphs. *)
LEMMA WindowsCover ==
  ASSUME NEW cs, NEW g \in Seq(Paragraphs), NEW j \in DOMAIN g, NEW t \in 1..g[j].tokens,
         \A x \in 1..Joined(g) :
           \E i \in DOMAIN cs : cs[i].group = g /\ cs[i].from < x /\ x <= cs[i].to
  PROVE  \E i \in DOMAIN cs : cs[i].group = g /\ t \in TokensIn(cs[i], j)
<1> DEFINE x == Before(g, j) + t
<1>1. Before(g, j) \in Nat /\ Before(g, j) + g[j].tokens <= Joined(g)
  BY PlaceOfParagraph
<1>2. g[j].tokens \in Nat /\ Joined(g) \in Int
  <2>1. g[j] \in Paragraphs
    OBVIOUS
  <2> QED
    BY <2>1, JoinedType DEF Paragraphs
<1>3. x \in 1..Joined(g)
  BY <1>1, <1>2
<1>4. PICK i \in DOMAIN cs : cs[i].group = g /\ cs[i].from < x /\ x <= cs[i].to
  BY <1>3
<1>5. t \in TokensIn(cs[i], j)
  BY <1>4 DEF TokensIn, Before
<1> QED
  BY <1>4, <1>5

NewChunk(from, to) ==
  [section |-> sections[section].name, index |-> Len(chunks), group |-> groups[1],
   from |-> from, to |-> to]

LEMMA ChunkAdded ==
  ASSUME ChunkerInv, phase = "emit", groups # <<>>, UNCHANGED <<doc, phase, splitVars, section>>,
         NEW from \in Nat, NEW to \in Nat, from < to, to - from <= MaxTokens,
         to <= Joined(groups[1]),
         chunks' = Append(chunks, NewChunk(from, to))
  PROVE  /\ ChunkerTypeOK' /\ ChunksInv' /\ chunks' \in Seq(Chunks)
         /\ \A i \in DOMAIN chunks : i \in DOMAIN chunks' /\ chunks'[i] = chunks[i]
         /\ \E i \in DOMAIN chunks' : chunks'[i] = NewChunk(from, to)
<1> DEFINE c == NewChunk(from, to)
           n == Len(chunks)
           name == sections[section].name
<1>0. /\ doc' = doc /\ phase' = phase /\ best' = best /\ scanned' = scanned /\ cut' = cut
      /\ sections' = sections /\ section' = section
  BY DEF splitVars
<1>1. chunks \in Seq(Chunks) /\ groups[1] \in Groups /\ MaxTokens \in Nat /\ n \in Nat
  BY ChunkerAssumption DEF ChunkerInv, DataTypes
<1>2. section > 0 /\ name \in Nat /\ Faithful(groups[1], name)
  <2>1. section > 0 /\ \A g \in DOMAIN groups : Faithful(groups[g], name)
    BY DEF ChunkerInv, PackInv
  <2>2. 1 \in DOMAIN groups
    BY DEF ChunkerInv, DataTypes
  <2>3. section \in DOMAIN sections
    BY <2>1 DEF ChunkerInv, DataTypes, ChunkerTypeOK
  <2> DEFINE R == [name : Nat, text : Seq(Paragraphs)]
  <2>4. sections \in Seq(R)
    BY DEF ChunkerInv, DataTypes
  <2> HIDE DEF R
  <2>5. sections[section] \in R
    BY <2>3, <2>4
  <2> QED
    BY <2>1, <2>2, <2>5 DEF R
<1>3. c \in Chunks
  BY <1>1, <1>2 DEF Chunks, NewChunk
<1>4. /\ c.section = name /\ c.index = n /\ c.group = groups[1] /\ c.from = from /\ c.to = to
  BY DEF NewChunk
<1> HIDE DEF c, name
<1>5. /\ chunks' \in Seq(Chunks) /\ DOMAIN chunks = 1..n
      /\ n + 1 \in DOMAIN chunks' /\ chunks'[n + 1] = c
      /\ \A i \in DOMAIN chunks : i \in DOMAIN chunks' /\ chunks'[i] = chunks[i]
      /\ \A i \in DOMAIN chunks' : i \in DOMAIN chunks \/ i = n + 1
  <2>1. chunks' = Append(chunks, c)
    BY DEF c
  <2> QED
    BY <1>1, <1>3, <2>1, AppendElements
<1> HIDE DEF n
<1>6. ChunkerTypeOK'
  <2>1. ASSUME NEW i \in DOMAIN chunks'
        PROVE  /\ chunks'[i].index = i - 1
               /\ chunks'[i].from \in 0..chunks'[i].to - 1
               /\ chunks'[i].to - chunks'[i].from <= MaxTokens
               /\ chunks'[i].to <= Joined(chunks'[i].group)
    <3>1. CASE i \in DOMAIN chunks
      BY <1>5, <3>1 DEF ChunkerInv, ChunkerTypeOK
    <3>2. CASE i = n + 1
      BY <1>1, <1>4, <1>5, <3>2
    <3> QED
      BY <1>5, <3>1, <3>2
  <2>2. End' = End
    BY <1>0 DEF End
  <2> QED
    BY <1>0, <2>1, <2>2 DEF ChunkerInv, ChunkerTypeOK
<1>7. ChunksInv'
  <2>1. \A text, s : Faithful(text, s)' <=> Faithful(text, s)
    BY <1>0, DocumentStays
  <2>2. ASSUME NEW i \in DOMAIN chunks'
        PROVE  Faithful(chunks'[i].group, chunks'[i].section)
    <3>1. CASE i \in DOMAIN chunks
      BY <1>5, <3>1 DEF ChunkerInv, ChunksInv
    <3>2. CASE i = n + 1
      BY <1>1, <1>2, <1>4, <1>5, <3>2
    <3> QED
      BY <1>5, <3>1, <3>2
  <2>3. ASSUME NEW i \in DOMAIN chunks'
        PROVE  Faithful(chunks[i].group, chunks[i].section)'
    BY <2>1, <2>2
  <2>4. ASSUME SectionsAscend
        PROVE  \A i \in DOMAIN chunks' :
                 /\ section > 0 /\ chunks'[i].section <= name
                 /\ \A j \in DOMAIN chunks' : i < j => chunks'[i].section <= chunks'[j].section
    <3>1. \A i \in DOMAIN chunks :
            /\ chunks[i].section <= name
            /\ \A j \in DOMAIN chunks : i < j => chunks[i].section <= chunks[j].section
      BY <2>4 DEF ChunkerInv, ChunksInv, name
    <3>2. \A i \in DOMAIN chunks' : chunks'[i].section <= name
      BY <1>2, <1>4, <1>5, <3>1
    <3>3. ASSUME NEW i \in DOMAIN chunks', NEW j \in DOMAIN chunks', i < j
          PROVE  chunks'[i].section <= chunks'[j].section
      <4>1. CASE j = n + 1
        BY <1>4, <1>5, <3>2, <4>1
      <4>2. CASE j \in DOMAIN chunks
        <5>1. i \in DOMAIN chunks
          BY <1>1, <1>5, <3>3, <4>2
        <5> QED
          BY <1>5, <3>1, <3>3, <4>2, <5>1
      <4> QED
        BY <1>5, <4>1, <4>2
    <3> QED
      BY <1>2, <3>2, <3>3
  <2>5. SectionsAscend' <=> SectionsAscend
    BY <1>0 DEF SectionsAscend
  <2> QED
    BY <1>0, <2>3, <2>4, <2>5 DEF ChunksInv, name
<1> QED
  BY <1>5, <1>6, <1>7 DEF c

(* A group is left when its windows cover it. *)
LEMMA GroupDone ==
  ASSUME ChunkerInv, phase = "emit", groups # <<>>,
         UNCHANGED <<doc, phase, splitVars, section, paras, current, currentTokens>>,
         groups' = Tail(groups), start' = 0, chunks' \in Seq(Chunks),
         \A i \in DOMAIN chunks : i \in DOMAIN chunks' /\ chunks'[i] = chunks[i],
         \A x \in 1..Joined(groups[1]) :
           \E i \in DOMAIN chunks' :
             chunks'[i].group = groups[1] /\ chunks'[i].from < x /\ x <= chunks'[i].to
  PROVE  DataTypes' /\ PackInv' /\ NoneLost' /\ EmitInv' /\ PackingGreedy'
<1> DEFINE name == sections[section].name
<1>0. doc' = doc /\ sections' = sections /\ section' = section /\ phase' = "emit"
  BY DEF splitVars
<1>1. GroupsOK(groups)
  BY DEF ChunkerInv, DataTypes, PackInv, PackingGreedy, GroupsOK, GroupOK
<1>2. GroupsOK(groups')
  BY <1>1, GroupsTail
<1>3. \A text, s : Faithful(text, s)' <=> Faithful(text, s)
  BY <1>0, DocumentStays
<1>4. DataTypes'
  BY <1>0, <1>2 DEF ChunkerInv, DataTypes, GroupsOK
<1>5. PackInv'
  <2>1. section' > 0
    BY <1>0 DEF ChunkerInv, PackInv
  <2>2. Faithful(paras, sections[section].name)' /\ Faithful(current, sections[section].name)'
    <3>1. Faithful(paras', sections'[section'].name) /\ Faithful(current', sections'[section'].name)
      BY <1>0 DEF ChunkerInv, PackInv
    <3> QED
      BY <1>3, <3>1
  <2>3. ASSUME NEW g \in DOMAIN groups'
        PROVE  Faithful(groups[g], sections[section].name)'
    <3>1. Faithful(groups'[g], sections'[section'].name)
      BY <1>0, <1>2 DEF GroupsOK, GroupOK
    <3>2. Faithful(groups[g], sections[section].name)'
      BY <1>3, <3>1
    <3> QED
      BY <1>2, <3>2 DEF GroupsOK, GroupOK
  <2> QED
    BY <1>0, <2>1, <2>2, <2>3 DEF PackInv
<1>6. PackingGreedy'
  BY <1>2 DEF PackingGreedy, GroupsOK, GroupOK
<1>7. EmitInv'
  <2>1. 1..start' = {}
    OBVIOUS
  <2> QED
    BY <2>1 DEF EmitInv
<1>8. /\ groups[1] \in Seq(Paragraphs) /\ Faithful(groups[1], name)
      /\ \A i \in DOMAIN groups : i = 1 \/ (i - 1 \in DOMAIN groups' /\ groups'[i - 1] = groups[i])
  <2>1. groups \in Seq(Groups)
    BY <1>1 DEF GroupsOK
  <2>2. /\ 1 \in DOMAIN groups
        /\ \A i \in DOMAIN groups : i = 1 \/ (i - 1 \in DOMAIN groups' /\ groups'[i - 1] = groups[i])
    BY <2>1, TailElements
  <2>3. groups[1] \in Groups /\ GroupOK(groups[1])
    BY <1>1, <2>1, <2>2 DEF GroupsOK
  <2> QED
    BY <2>2, <2>3 DEF Groups, GroupOK
<1>9. ASSUME NEW p \in DOMAIN doc, Holds(groups[1], p)
      PROVE  Covered(p)'
  <2> DEFINE g == groups[1]
  <2>1. PICK j \in DOMAIN g : g[j].at = p
    BY <1>9 DEF Holds
  <2>2. g[j].tokens = doc[p].tokens
    BY <1>8, <2>1 DEF Faithful
  <2>3. g \in Seq(Paragraphs)
        /\ \A x \in 1..Joined(g) :
             \E i \in DOMAIN chunks' :
               chunks'[i].group = g /\ chunks'[i].from < x /\ x <= chunks'[i].to
    BY <1>8
  <2> HIDE DEF g
  <2>4. \A t \in 1..g[j].tokens :
          \E i \in DOMAIN chunks' : chunks'[i].group = g /\ t \in TokensIn(chunks'[i], j)
    BY <2>3, WindowsCover
  <2>5. \A t \in 1..doc'[p].tokens :
          \E i \in DOMAIN chunks' : \E k \in DOMAIN chunks'[i].group :
            chunks'[i].group[k].at = p /\ t \in TokensIn(chunks'[i], k)
    BY <1>0, <2>1, <2>2, <2>4
  <2> QED
    BY <2>5 DEF Covered
<1>10. \A p : Covered(p) => Covered(p)'
  BY <1>0, CoveredGrows
<1>11. ASSUME NEW p \in DOMAIN doc, OnItsWay(p)
       PROVE  OnItsWay(p)'
  <2>1. CASE Covered(p)
    BY <1>10, <2>1 DEF OnItsWay
  <2>2. CASE ~Covered(p)
    <3>1. PICK i \in DOMAIN groups : Holds(groups[i], p)
      BY <1>11, <2>2 DEF OnItsWay
    <3>2. CASE i = 1
      BY <1>9, <3>1, <3>2 DEF OnItsWay
    <3>3. CASE i # 1
      <4>1. i - 1 \in DOMAIN groups' /\ Holds(groups'[i - 1], p)
        BY <1>8, <3>1, <3>3
      <4> QED
        BY <1>0, <4>1 DEF OnItsWay
    <3> QED
      BY <3>2, <3>3
  <2> QED
    BY <2>1, <2>2
<1>12. NoneLost'
  BY <1>0, <1>10, <1>11 DEF ChunkerInv, NoneLost
<1> QED
  BY <1>4, <1>5, <1>6, <1>7, <1>12

LEMMA EmitStep ==
  ASSUME ChunkerInv, WholeGroup \/ Window \/ EndWindows
  PROVE  ChunkerInv'
<1> DEFINE g == groups[1]
<1>0. /\ phase = "emit" /\ groups # <<>>
      /\ UNCHANGED <<doc, phase, splitVars, section>>
      /\ UNCHANGED <<paras, current, currentTokens>>
      /\ doc' = doc /\ sections' = sections /\ section' = section
  BY DEF WholeGroup, Window, EndWindows, Emitting, Emitted, splitVars
<1>1. /\ g = Head(groups) /\ groups \in Seq(Groups) /\ g \in Groups /\ 1 \in DOMAIN groups
      /\ g \in Seq(Paragraphs) /\ chunks \in Seq(Chunks) /\ start \in Nat
  <2>1. groups \in Seq(Groups) /\ chunks \in Seq(Chunks) /\ start \in Nat
    BY DEF ChunkerInv, DataTypes
  <2>2. g = Head(groups) /\ 1 \in DOMAIN groups /\ g \in Groups
    BY <1>0, <2>1, TailElements
  <2> QED
    BY <2>1, <2>2 DEF Groups
<1>2. Joined(g) \in Nat \ {0} /\ MaxTokens \in Nat /\ Overlap \in Nat /\ Overlap < MaxTokens
  BY <1>1, JoinedType, ChunkerAssumption DEF Groups
<1>3. /\ start # 0 => Joined(g) > MaxTokens
      /\ \A x \in 1..start : x <= Joined(g) =>
           \E i \in DOMAIN chunks : chunks[i].group = g /\ chunks[i].from < x /\ x <= chunks[i].to
  BY DEF ChunkerInv, EmitInv
<1>4. ScanInv' /\ SplitInv'
  <2>1. /\ phase # "scan" /\ phase' # "scan"
        /\ phase \notin {"scan", "split"} /\ phase' \notin {"scan", "split"}
    BY <1>0
  <2> QED
    BY <1>0, <2>1, ScanStays, SplitStays DEF ChunkerInv
<1> HIDE DEF g
<1>5. CASE WholeGroup
  <2>1. /\ Joined(g) <= MaxTokens /\ groups' = Tail(groups) /\ start' = start
        /\ chunks' = Append(chunks, NewChunk(0, Joined(g)))
    BY <1>1, <1>5 DEF WholeGroup, Emit, ChunkIndex, NewChunk, g
  <2>2. start' = 0
    BY <1>2, <1>3, <2>1
  <2>3. 0 \in Nat /\ 0 < Joined(g) /\ Joined(g) - 0 <= MaxTokens /\ Joined(g) <= Joined(g)
    BY <1>2, <2>1
  <2>4. /\ ChunkerTypeOK' /\ ChunksInv' /\ chunks' \in Seq(Chunks)
        /\ \A i \in DOMAIN chunks : i \in DOMAIN chunks' /\ chunks'[i] = chunks[i]
        /\ \E i \in DOMAIN chunks' : chunks'[i] = NewChunk(0, Joined(g))
    BY <1>0, <1>2, <2>1, <2>3, ChunkAdded DEF g
  <2>5. ASSUME NEW x \in 1..Joined(g)
        PROVE  \E i \in DOMAIN chunks' :
                 chunks'[i].group = g /\ chunks'[i].from < x /\ x <= chunks'[i].to
    <3>1. PICK i \in DOMAIN chunks' : chunks'[i] = NewChunk(0, Joined(g))
      BY <2>4
    <3>2. chunks'[i].group = g /\ chunks'[i].from = 0 /\ chunks'[i].to = Joined(g)
      BY <3>1 DEF NewChunk, g
    <3> QED
      BY <1>2, <3>2
  <2>6. DataTypes' /\ PackInv' /\ NoneLost' /\ EmitInv' /\ PackingGreedy'
    BY <1>0, <2>1, <2>2, <2>4, <2>5, GroupDone DEF g
  <2> QED
    BY <1>4, <2>4, <2>6 DEF ChunkerInv
<1>6. CASE EndWindows
  <2>1. /\ start >= Joined(g) /\ groups' = Tail(groups) /\ start' = 0 /\ chunks' = chunks
    BY <1>1, <1>6 DEF EndWindows
  <2>2. \A x \in 1..Joined(g) : x \in 1..start /\ x <= Joined(g)
    BY <1>1, <1>2, <2>1
  <2>3. \A x \in 1..Joined(g) :
          \E i \in DOMAIN chunks' :
            chunks'[i].group = g /\ chunks'[i].from < x /\ x <= chunks'[i].to
    BY <1>3, <2>1, <2>2
  <2>4. DataTypes' /\ PackInv' /\ NoneLost' /\ EmitInv' /\ PackingGreedy'
    BY <1>0, <1>1, <2>1, <2>3, GroupDone DEF g
  <2>5. ChunkerTypeOK' /\ ChunksInv'
    <3>1. phase \in Later /\ phase' \in Later
      BY <1>0 DEF Later
    <3> QED
      BY <1>0, <2>1, <3>1, LaterStays
  <2> QED
    BY <1>4, <2>4, <2>5 DEF ChunkerInv
<1>7. CASE Window
  <2> DEFINE to == WindowEnd(Joined(g))
  <2>1. /\ Joined(g) > MaxTokens /\ start < Joined(g) /\ groups' = groups
        /\ start' = start + MaxTokens - Overlap
        /\ chunks' = Append(chunks, NewChunk(start, to))
    BY <1>1, <1>7 DEF Window, Emit, ChunkIndex, NewChunk, g
  <2>2. /\ to \in Nat /\ start < to /\ to - start <= MaxTokens /\ to <= Joined(g)
        /\ to = Joined(g) \/ to = start + MaxTokens
    BY <1>1, <1>2, <2>1 DEF WindowEnd
  <2> HIDE DEF to
  <2>4. /\ ChunkerTypeOK' /\ ChunksInv' /\ chunks' \in Seq(Chunks)
        /\ \A i \in DOMAIN chunks : i \in DOMAIN chunks' /\ chunks'[i] = chunks[i]
        /\ \E i \in DOMAIN chunks' : chunks'[i] = NewChunk(start, to)
    BY <1>0, <1>1, <2>1, <2>2, ChunkAdded DEF g
  <2>5. start' \in Nat /\ start' # 0 /\ start' <= start + MaxTokens
    BY <1>1, <1>2, <2>1
  <2>6. EmitInv'
    <3>1. ASSUME NEW x \in 1..start', x <= Joined(g)
          PROVE  \E i \in DOMAIN chunks' :
                   chunks'[i].group = g /\ chunks'[i].from < x /\ x <= chunks'[i].to
      <4>1. CASE x <= start
        <5>1. x \in 1..start
          BY <1>1, <4>1
        <5>2. PICK i \in DOMAIN chunks : chunks[i].group = g /\ chunks[i].from < x /\ x <= chunks[i].to
          BY <1>3, <3>1, <5>1
        <5> QED
          BY <2>4, <5>2
      <4>2. CASE ~ (x <= start)
        <5>1. PICK i \in DOMAIN chunks' : chunks'[i] = NewChunk(start, to)
          BY <2>4
        <5>2. chunks'[i].group = g /\ chunks'[i].from = start /\ chunks'[i].to = to
          BY <5>1 DEF NewChunk, g
        <5>3. start < x /\ x <= to
          BY <1>1, <1>2, <2>2, <2>5, <3>1, <4>2
        <5> QED
          BY <5>2, <5>3
      <4> QED
        BY <4>1, <4>2
    <3>2. phase' = "emit" /\ groups' # <<>> /\ groups'[1] = g
      BY <1>0, <2>1 DEF g
    <3> QED
      BY <2>1, <3>1, <3>2 DEF EmitInv
  <2>7. DataTypes'
    BY <1>0, <2>1, <2>4, <2>5 DEF ChunkerInv, DataTypes
  <2>8. PackInv'
    <3>1. \A text, s : Faithful(text, s)' <=> Faithful(text, s)
      BY <1>0, DocumentStays
    <3> QED
      BY <1>0, <2>1, <3>1 DEF ChunkerInv, PackInv
  <2>9. NoneLost'
    <3>1. \A p : Covered(p) => Covered(p)'
      BY <1>0, <2>4, CoveredGrows
    <3>2. \A p : OnItsWay(p) => OnItsWay(p)'
      BY <1>0, <2>1, <3>1 DEF OnItsWay
    <3> QED
      BY <1>0, <3>1, <3>2 DEF ChunkerInv, NoneLost
  <2>10. PackingGreedy'
    BY <2>1 DEF ChunkerInv, PackingGreedy
  <2> QED
    BY <1>4, <2>4, <2>6, <2>7, <2>8, <2>9, <2>10 DEF ChunkerInv
<1> QED
  BY <1>5, <1>6, <1>7

LEMMA ChunkerStutter ==
  ASSUME ChunkerInv, UNCHANGED chunkerVars
  PROVE  ChunkerInv'
<1>0. /\ doc' = doc /\ phase' = phase /\ best' = best /\ scanned' = scanned /\ cut' = cut
      /\ sections' = sections /\ section' = section /\ paras' = paras /\ groups' = groups
      /\ current' = current /\ currentTokens' = currentTokens /\ start' = start /\ chunks' = chunks
  BY DEF chunkerVars, splitVars, packVars
<1>1. /\ Headers' = Headers /\ End' = End /\ Text' = Text
      /\ \A m : Span(m)' = Span(m) /\ (IsHeader(m)' <=> IsHeader(m))
      /\ \A text, name : Faithful(text, name)' <=> Faithful(text, name)
  BY <1>0, DocumentStays
<1>2. ChunkerTypeOK'
  BY <1>0, <1>1 DEF ChunkerInv, ChunkerTypeOK
<1>3. DataTypes'
  BY <1>0 DEF ChunkerInv, DataTypes
<1>4. ScanInv'
  BY <1>0, <1>1 DEF ChunkerInv, ScanInv
<1>5. SplitInv'
  BY <1>0, <1>1 DEF ChunkerInv, SplitInv, Holds
<1>6. PackInv'
  BY <1>0, <1>1 DEF ChunkerInv, PackInv
<1>7. NoneLost'
  <2>1. \A p : Covered(p)' <=> Covered(p)
    BY <1>0 DEF Covered
  <2>2. \A p : OnItsWay(p)' <=> OnItsWay(p)
    BY <1>0, <2>1 DEF OnItsWay
  <2> QED
    BY <1>0, <2>1, <2>2 DEF ChunkerInv, NoneLost
<1>8. EmitInv'
  BY <1>0 DEF ChunkerInv, EmitInv
<1>9. ChunksInv'
  BY <1>0, ChunksStay DEF ChunkerInv
<1>10. PackingGreedy'
  BY <1>0 DEF ChunkerInv, PackingGreedy
<1> QED
  BY <1>2, <1>3, <1>4, <1>5, <1>6, <1>7, <1>8, <1>9, <1>10 DEF ChunkerInv

LEMMA ChunkerInductive == ChunkerSpec => []ChunkerInv
<1>1. ChunkerInit => ChunkerInv
  BY InitChunker
<1>2. ChunkerInv /\ [ChunkerNext]_chunkerVars => ChunkerInv'
  BY ScanStep, SplitStep, SectionStep, PackStep, EmitStep, ChunkerStutter DEF ChunkerNext
<1> QED
  BY <1>1, <1>2, PTL DEF ChunkerSpec

-----------------------------------------------------------------------------
(* chunk_filing: no chunk is empty, larger than the chunk size or beyond   *)
(* its group's text, and each has the number of its place among them, for  *)
(* every document, every size and overlap, and whatever joining costs.     *)
THEOREM ChunkerTypeCorrect == ChunkerSpec => []ChunkerTypeOK
<1>1. ChunkerInv => ChunkerTypeOK
  BY DEF ChunkerInv
<1> QED
  BY <1>1, ChunkerInductive, PTL

(* pack_paragraphs begins a group only where the last one has no room.     *)
THEOREM PackingGreedyCorrect == ChunkerSpec => []PackingGreedy
<1>1. ChunkerInv => PackingGreedy
  BY DEF ChunkerInv
<1> QED
  BY <1>1, ChunkerInductive, PTL

(* make_chunk_id: with the sections in ascending order no two chunks have  *)
(* one id, whatever their number.                                          *)
THEOREM AscendingIdsUniqueCorrect == ChunkerSpec => []AscendingIdsUnique
<1>1. ChunkerInv => AscendingIdsUnique
  <2> SUFFICES ASSUME ChunkerInv, SectionsAscend, NEW i \in DOMAIN chunks, NEW j \in DOMAIN chunks, i # j
               PROVE  MakeChunkId(chunks[i].section, chunks[i].index)
                        # MakeChunkId(chunks[j].section, chunks[j].index)
    BY DEF AscendingIdsUnique, ChunkIdsUnique
  <2>1. /\ i \in Nat \ {0} /\ j \in Nat \ {0}
        /\ \A k \in DOMAIN chunks : chunks[k] \in Chunks
    BY DEF ChunkerInv, DataTypes
  <2>2. \A k \in DOMAIN chunks : chunks[k].section \in Nat /\ chunks[k].index = k - 1
    BY <2>1 DEF Chunks, ChunkerInv, ChunkerTypeOK
  <2>3. CASE i < j
    <3>1. chunks[i].section <= chunks[j].section
      BY <2>3 DEF ChunkerInv, ChunksInv
    <3>2. i - 1 \in Nat /\ j - 1 \in Nat /\ i - 1 < j - 1
      BY <2>1, <2>3
    <3> QED
      BY <2>2, <3>1, <3>2, AscendingIdsDiffer
  <2>4. CASE j < i
    <3>1. chunks[j].section <= chunks[i].section
      BY <2>4 DEF ChunkerInv, ChunksInv
    <3>2. i - 1 \in Nat /\ j - 1 \in Nat /\ j - 1 < i - 1
      BY <2>1, <2>4
    <3> QED
      BY <2>2, <3>1, <3>2, AscendingIdsDiffer
  <2> QED
    BY <2>1, <2>3, <2>4
<1> QED
  BY <1>1, ChunkerInductive, PTL

(* chunk_filing: every token of the filing is in a chunk, the headers that *)
(* lost included, and only in chunks of the section it stands in.          *)
THEOREM EveryTokenInItsSectionCorrect == ChunkerSpec => []EveryTokenInItsSection
<1>1. ChunkerInv => EveryTokenInItsSection
  <2> SUFFICES ASSUME ChunkerInv, phase = "done", NEW p \in Text
               PROVE  /\ Covered(p)
                      /\ \A i \in DOMAIN chunks :
                           Holds(chunks[i].group, p) => chunks[i].section = SectionOf(p)
    BY DEF EveryTokenInItsSection
  <2>1. /\ Len(doc) \in Nat /\ DOMAIN doc = 1..Len(doc) /\ End = Len(doc) + 1
        /\ p \in DOMAIN doc
    BY DocType DEF ChunkerInv, DataTypes, Text
  <2>2. cut = End
    BY DEF ChunkerInv, SplitInv
  <2>3. p < cut
    BY <2>1, <2>2
  <2>4. PICK k \in DOMAIN sections : Holds(sections[k].text, p)
    BY <2>3 DEF ChunkerInv, SplitInv
  <2>5. section = Len(sections) /\ DOMAIN sections = 1..Len(sections) /\ Len(sections) \in Nat
    BY DEF ChunkerInv, NoneLost, DataTypes
  <2>6. k < section \/ k = section
    BY <2>5
  <2>7. (k < section => Covered(p)) /\ (k = section => OnItsWay(p))
    BY <2>1, <2>4 DEF ChunkerInv, NoneLost
  <2>8. Covered(p)
    BY <2>6, <2>7 DEF OnItsWay
  <2>9. ASSUME NEW i \in DOMAIN chunks, Holds(chunks[i].group, p)
        PROVE  chunks[i].section = SectionOf(p)
    <3>1. PICK q \in DOMAIN chunks[i].group : chunks[i].group[q].at = p
      BY <2>9 DEF Holds
    <3>2. Faithful(chunks[i].group, chunks[i].section)
      BY DEF ChunkerInv, ChunksInv
    <3> QED
      BY <3>1, <3>2 DEF Faithful
  <2> QED
    BY <2>8, <2>9
<1> QED
  BY <1>1, ChunkerInductive, PTL
=============================================================================
