------------------------- MODULE FinancialFactsProofs -------------------------
(***************************************************************************)
(* The store of XBRL figures, for every sequence of documents and every    *)
(* number of overlapping requests.  StoredVersionHolds is not inductive: a *)
(* request that has stored half of its document leaves the table half up   *)
(* to date.  StoringInv says what the other half is waiting for.           *)
(***************************************************************************)
EXTENDS FinancialFacts, FiniteSetTheorems, WellFoundedInduction, TLAPS

(* Documents are sequences of entries, whose filing dates can be compared. *)
LEMMA DocumentType ==
  ASSUME NEW v \in DOMAIN Documents
  PROVE  /\ Documents[v] \in Seq(Items)
         /\ \A n \in DOMAIN Documents[v] :
              Documents[v][n] \in Items /\ Documents[v][n].filed \in Nat
<1>1. Documents[v] \in Seq(Items)
  BY FactsAssumption
<1>2. \A n \in DOMAIN Documents[v] : Documents[v][n] \in Items
  BY <1>1
<1> QED
  BY <1>1, <1>2 DEF Items

(* extract_annual_facts keeps, for every annual entry, the entry of the    *)
(* same figure filed last.                                                 *)
LEMMA LatestKept ==
  ASSUME NEW document \in Seq(Items), NEW n \in DOMAIN document, document[n].annual
  PROVE  \E j \in ExtractAnnualFacts(document) :
           Key(j) = Key(document[n]) /\ j.filed >= document[n].filed
<1> DEFINE
      S == DOMAIN document
      T == {m \in S : document[m].annual /\ Key(document[m]) = Key(document[n])}
      Upwards(m) == {k \in T : k = m \/ Supersedes(document, k, m)}
      D == {Upwards(m) : m \in T}
<1>1. S = 1..Len(document) /\ Len(document) \in Nat
  OBVIOUS
<1>2. \A m \in S : m \in Nat /\ document[m].filed \in Nat
  <2>1. \A m \in S : m \in Nat /\ document[m] \in Items
    BY <1>1
  <2> QED
    BY <2>1 DEF Items
<1>3. D \subseteq FiniteSubsetsOf(S) /\ D # {}
  <2>1. IsFiniteSet(S)
    BY <1>1, FS_Interval
  <2>2. \A m \in T : IsFiniteSet(Upwards(m)) /\ Upwards(m) \in SUBSET S
    BY <2>1, FS_Subset
  <2>3. n \in T
    OBVIOUS
  <2> HIDE DEF S, T, Upwards
  <2> QED
    BY <2>2, <2>3 DEF FiniteSubsetsOf
<1>4. PICK d \in D : \A e \in D : ~ (<<e, d>> \in StrictSubsetOrdering(S))
  <2> HIDE DEF D, S
  <2> QED
    BY <1>3, WFMin, FS_StrictSubsetOrderingWellFounded
<1>5. PICK m \in T : d = Upwards(m)
  BY <1>4
<1>6. ASSUME NEW k \in T, k # m
      PROVE  Supersedes(document, m, k)
  <2> SUFFICES ASSUME Supersedes(document, k, m)
               PROVE  FALSE
    BY <1>2, <1>6 DEF Supersedes
  <2>1. Upwards(k) \subseteq Upwards(m)
    BY <1>2 DEF Supersedes
  <2>2. m \in Upwards(m) /\ m \notin Upwards(k)
    BY <1>2, <1>6 DEF Supersedes
  <2>3. Upwards(k) \in D /\ Upwards(k) \in SUBSET S /\ d \in SUBSET S
    BY <1>5
  <2> DEFINE e == Upwards(k)
  <2>4. e \subseteq d /\ e # d /\ e \in SUBSET S /\ d \in SUBSET S /\ e \in D
    BY <1>5, <2>1, <2>2, <2>3
  <2> HIDE DEF e, S, D, T, Upwards
  <2>5. <<e, d>> \in StrictSubsetOrdering(S)
    BY <2>4 DEF StrictSubsetOrdering
  <2> QED
    BY <1>4, <2>4, <2>5
<1>7. document[m] \in ExtractAnnualFacts(document)
  BY <1>6 DEF ExtractAnnualFacts
<1>8. document[m].filed >= document[n].filed
  <2>1. m = n \/ Supersedes(document, m, n)
    BY <1>6
  <2> QED
    BY <1>2, <2>1 DEF Supersedes
<1> QED
  BY <1>7, <1>8

(* What is kept are annual entries of the document. *)
LEMMA KeptAreEntries ==
  ASSUME NEW document, NEW j \in ExtractAnnualFacts(document)
  PROVE  j \in Range(document) /\ j.annual
  BY DEF ExtractAnnualFacts, Range

-----------------------------------------------------------------------------
(* One upsert, for an entry of the document. *)
LEMMA UpsertKeeps ==
  ASSUME \A k \in DOMAIN table : table[k].filed \in Nat,
         NEW i, i.filed \in Nat, Upsert(i)
  PROVE  /\ DOMAIN table' = DOMAIN table \cup {Key(i)}
         /\ table'[Key(i)].filed >= i.filed
         /\ \A k \in DOMAIN table : table'[k].filed >= table[k].filed
         /\ \A k \in DOMAIN table' :
              (k \in DOMAIN table /\ table'[k] = table[k]) \/ (k = Key(i) /\ table'[k] = Row(i))
<1>0. \A x, y \in Nat : x >= x /\ (x >= y \/ y >= x)
  OBVIOUS
<1>1. CASE Key(i) \in DOMAIN table => i.filed >= table[Key(i)].filed
  <2>1. table' = Set(table, Key(i), Row(i))
    BY <1>1 DEF Upsert
  <2>2. /\ DOMAIN table' = DOMAIN table \cup {Key(i)}
        /\ table'[Key(i)] = Row(i)
        /\ \A k \in DOMAIN table : k # Key(i) => table'[k] = table[k]
    BY <2>1 DEF Set
  <2>3. Row(i).filed = i.filed
    BY DEF Row
  <2>4. \A k \in DOMAIN table : table'[k].filed >= table[k].filed
    BY <1>0, <1>1, <2>2, <2>3
  <2>5. table'[Key(i)].filed >= i.filed
    BY <1>0, <2>2, <2>3
  <2>6. ASSUME NEW k \in DOMAIN table'
        PROVE  (k \in DOMAIN table /\ table'[k] = table[k]) \/ (k = Key(i) /\ table'[k] = Row(i))
    BY <2>2
  <2>7. DOMAIN table' = DOMAIN table \cup {Key(i)}
    BY <2>2
  <2> QED
    BY <2>4, <2>5, <2>6, <2>7
<1>2. CASE Key(i) \in DOMAIN table /\ ~ (i.filed >= table[Key(i)].filed)
  <2>1. table' = table
    BY <1>2 DEF Upsert
  <2>2. table'[Key(i)].filed >= i.filed
    BY <1>0, <1>2, <2>1
  <2>3. DOMAIN table' = DOMAIN table \cup {Key(i)}
    BY <1>2, <2>1
  <2>4. \A k \in DOMAIN table : table'[k].filed >= table[k].filed
    BY <1>0, <2>1
  <2>5. \A k \in DOMAIN table' : k \in DOMAIN table /\ table'[k] = table[k]
    BY <2>1
  <2> QED
    BY <2>2, <2>3, <2>4, <2>5
<1> QED
  BY <1>1, <1>2

-----------------------------------------------------------------------------
(* Types. *)

(* Entries of the versions served so far. *)
LEMMA ItemType ==
  ASSUME version \in DOMAIN Documents
  PROVE  /\ \A i \in AllItems : i \in Items /\ i.filed \in Nat
         /\ \A v \in 1..version : v \in DOMAIN Documents
         /\ \A v \in 1..version : Range(Documents[v]) \subseteq AllItems
<1>1. version \in Nat /\ \A v \in 1..version : v \in DOMAIN Documents
  BY FactsAssumption
<1>2. ASSUME NEW v \in 1..version, NEW i \in Range(Documents[v])
      PROVE  i \in Items /\ i.filed \in Nat
  <2>1. PICK n \in DOMAIN Documents[v] : i = Documents[v][n]
    BY <1>2 DEF Range
  <2> QED
    BY <1>1, <2>1, DocumentType
<1> QED
  BY <1>1, <1>2 DEF AllItems

(* The document only grows. *)
LEMMA ItemsGrow ==
  ASSUME version \in Nat, version' \in Nat, version' >= version
  PROVE  AllItems \subseteq AllItems'
<1>1. 1..version \subseteq 1..version'
  OBVIOUS
<1> QED
  BY <1>1 DEF AllItems

(* Capping takes the first figures, _MAX_FACTS at most. *)
LEMMA CappedPrefix ==
  ASSUME NEW S, NEW s \in Seq(S)
  PROVE  /\ Capped(s) \in Seq(S)
         /\ Len(Capped(s)) <= Len(s) /\ Len(Capped(s)) <= MaxFacts
         /\ \A n \in 1..Len(Capped(s)) : Capped(s)[n] = s[n]
<1>0. Len(s) \in Nat /\ MaxFacts \in Nat /\ \A n \in 1..Len(s) : s[n] \in S
  BY FactsAssumption
<1>1. CASE Len(s) <= MaxFacts
  BY <1>0, <1>1 DEF Capped
<1>2. CASE ~ (Len(s) <= MaxFacts)
  <2> DEFINE few == [n \in 1..MaxFacts |-> s[n]]
  <2>1. few \in [1..MaxFacts -> S]
    BY <1>0, <1>2
  <2>2. \A n \in 1..MaxFacts : few[n] = s[n]
    OBVIOUS
  <2>3. Capped(s) = few
    BY <1>2 DEF Capped
  <2> HIDE DEF few
  <2>4. few \in Seq(S) /\ Len(few) = MaxFacts
    BY <1>0, <2>1
  <2> QED
    BY <1>0, <1>2, <2>2, <2>3, <2>4
<1> QED
  BY <1>1, <1>2

(* A set with 0 that has n when it has n - 1 has all of 0..L. *)
LEMMA UpTo ==
  ASSUME NEW L \in Nat, NEW T, 0 \in T, \A n \in 1..L : n - 1 \in T => n \in T
  PROVE  0..L \subseteq T
<1> DEFINE Rest == (0..L) \ T
<1> SUFFICES ASSUME Rest # {} PROVE FALSE
  OBVIOUS
<1>1. Rest \subseteq Nat
  OBVIOUS
<1>2. PICK n \in Rest : \A m \in Rest : ~ (<<m, n>> \in OpToRel(<, Nat))
  <2> HIDE DEF Rest
  <2> QED
    BY <1>1, WFMin, NatLessThanWellFounded
<1>3. \A m \in Rest : ~ (m < n)
  BY <1>1, <1>2, Zenon DEF OpToRel
<1>4. n # 0 /\ n \in 0..L
  OBVIOUS
<1>5. n \in 1..L /\ n - 1 \in 0..L /\ n - 1 < n
  BY <1>4
<1> QED
  BY <1>3, <1>5

(* A function given by its value at 0 and by a step from one number to the *)
(* next.                                                                   *)
Runs(f, k, V, base, step) ==
  /\ f \in [0..k -> V]
  /\ f[0] = base
  /\ \A n \in 1..k : f[n] = step[<<n, f[n - 1]>>]

LEMMA Recursion ==
  ASSUME NEW L \in Nat, NEW V, NEW base \in V, NEW step \in [(1..L) \X V -> V]
  PROVE  \E f : Runs(f, L, V, base, step)
<1> DEFINE
      To(k, f) == Runs(f, k, V, base, step)
      T == {k \in 0..L : \E f : To(k, f)}
<1>1. 0 \in T
  <2> DEFINE f == [n \in 0..0 |-> base]
  <2>1. f \in [0..0 -> V] /\ f[0] = base /\ 1..0 = {} /\ 0 \in 0..L
    OBVIOUS
  <2>2. To(0, f)
    <3> HIDE DEF f
    <3> QED
      BY <2>1 DEF Runs
  <2> HIDE DEF f, To
  <2> QED
    BY <2>1, <2>2
<1>2. ASSUME NEW k \in 1..L, k - 1 \in T
      PROVE  k \in T
  <2>1. PICK f : To(k - 1, f)
    BY <1>2
  <2> DEFINE
        next == step[<<k, f[k - 1]>>]
        h == [n \in 0..k |-> IF n = k THEN next ELSE f[n]]
  <2>2. k - 1 \in 0..k - 1 /\ k \in Nat /\ k # 0
    OBVIOUS
  <2>3. next \in V
    <3>1. f[k - 1] \in V
      BY <2>1, <2>2 DEF Runs
    <3> QED
      BY <3>1
  <2>4. h[k] = next /\ \A n \in 0..k - 1 : n \in 0..k /\ n # k /\ h[n] = f[n]
    BY <2>2
  <2>5. h \in [0..k -> V]
    <3>1. \A n \in 0..k : n = k \/ n \in 0..k - 1
      OBVIOUS
    <3>2. \A n \in 0..k - 1 : f[n] \in V
      BY <2>1 DEF Runs
    <3> HIDE DEF next
    <3> QED
      BY <2>3, <3>1, <3>2
  <2>6. ASSUME NEW n \in 1..k
        PROVE  h[n] = step[<<n, h[n - 1]>>]
    <3>1. n - 1 \in 0..k - 1 /\ (n = k \/ (n \in 1..k - 1 /\ n \in 0..k - 1))
      OBVIOUS
    <3>2. h[n - 1] = f[n - 1]
      BY <2>4, <3>1
    <3>3. CASE n = k
      BY <2>4, <3>2, <3>3
    <3>4. CASE n \in 1..k - 1 /\ n \in 0..k - 1
      <4>1. f[n] = step[<<n, f[n - 1]>>]
        BY <2>1, <3>4 DEF Runs
      <4>2. h[n] = f[n]
        BY <2>4, <3>4
      <4> HIDE DEF h
      <4> QED
        BY <3>2, <4>1, <4>2
    <3> QED
      BY <3>1, <3>3, <3>4
  <2>7. h[0] = base
    BY <2>1, <2>2, <2>4 DEF Runs
  <2>8. To(k, h)
    <3> HIDE DEF h
    <3> QED
      BY <2>5, <2>6, <2>7 DEF Runs
  <2>9. k \in 0..L
    OBVIOUS
  <2> HIDE DEF To, h
  <2> QED
    BY <2>8, <2>9
<1>3. L \in T
  <2>1. L \in 0..L
    OBVIOUS
  <2> HIDE DEF T
  <2> QED
    BY <1>1, <1>2, <2>1, UpTo
<1> QED
  BY <1>3


(* Of a row, by its key. *)
Year(k) == YearOf[k[2]]
Rank(g, k) == IndexIn(g, k[1])

(* A row of a group's concepts has a rank in the group. *)
LEMMA RankType ==
  ASSUME NEW g \in Seq(Nat), NEW k, k[1] \in Range(g)
  PROVE  Rank(g, k) \in Nat
<1>1. PICK n \in DOMAIN g : g[n] = k[1]
  BY DEF Range
<1>2. IndexIn(g, k[1]) \in DOMAIN g
  BY <1>1 DEF IndexIn
<1>3. DOMAIN g = 1..Len(g) /\ Len(g) \in Nat
  OBVIOUS
<1> QED
  BY <1>2, <1>3 DEF Rank

(* The loop's body. *)
ByYearStep(g, k, b) ==
  IF Preferred(g, k, Year(k), b) THEN Set(b, Year(k), k) ELSE b

(* What the loop over the rows has chosen after each. *)
LEMMA ByYearLoop ==
  ASSUME NEW g, NEW R, NEW s \in Seq(R), \A k \in R : Year(k) \in Nat
  PROVE  \E u : /\ u[0] = <<>>
                /\ \A n \in 1..Len(s) : u[n] = ByYearStep(g, s[n], u[n - 1])
                /\ ByYear(g, s) = u[Len(s)]
<1> DEFINE
      L == Len(s)
      V == UNION {[D -> R] : D \in SUBSET Nat}
      Is(u) == u = [n \in 0..L |-> IF n = 0 THEN <<>>
                                   ELSE IF Preferred(g, s[n], YearOf[s[n][2]], u[n - 1])
                                   THEN Set(u[n - 1], YearOf[s[n][2]], s[n]) ELSE u[n - 1]]
      step == [p \in (1..L) \X V |-> ByYearStep(g, s[p[1]], p[2])]
<1>1. L \in Nat /\ \A n \in 1..L : s[n] \in R
  OBVIOUS
<1>2. <<>> \in V
  <2>1. <<>> \in [{} -> R]
    OBVIOUS
  <2> QED
    BY <2>1
<1>3. \A b \in V : \A k \in R : ByYearStep(g, k, b) \in V
  <2> SUFFICES ASSUME NEW D \in SUBSET Nat, NEW b \in [D -> R], NEW k \in R
               PROVE  ByYearStep(g, k, b) \in V
    OBVIOUS
  <2>1. Set(b, Year(k), k) \in [D \cup {Year(k)} -> R]
    BY DEF Set
  <2>2. D \cup {Year(k)} \in SUBSET Nat
    OBVIOUS
  <2>3. Set(b, Year(k), k) \in V
    BY <2>1, <2>2
  <2>4. b \in V
    OBVIOUS
  <2> HIDE DEF V
  <2> QED
    BY <2>3, <2>4 DEF ByYearStep
<1>4. step \in [(1..L) \X V -> V]
  <2>1. \A p \in (1..L) \X V : s[p[1]] \in R /\ p[2] \in V
    BY <1>1
  <2> HIDE DEF V, L
  <2> QED
    BY <1>3, <2>1
<1>5. PICK f \in [0..L -> V] : f[0] = <<>> /\ \A n \in 1..L : f[n] = step[<<n, f[n - 1]>>]
  <2>1. L \in Nat
    BY <1>1
  <2> HIDE DEF V, L, step
  <2>2. \E f : Runs(f, L, V, <<>>, step)
    BY <2>1, <1>2, <1>4, Recursion
  <2> QED
    BY <2>2 DEF Runs
<1>6. \A n \in 1..L : f[n] = ByYearStep(g, s[n], f[n - 1])
  <2> SUFFICES ASSUME NEW n \in 1..L PROVE f[n] = ByYearStep(g, s[n], f[n - 1])
    OBVIOUS
  <2>1. n - 1 \in 0..L
    BY <1>1
  <2>2. f[n - 1] \in V
    <3> HIDE DEF V, L
    <3> QED
      BY <1>5, <2>1
  <2>3. step[<<n, f[n - 1]>>] = ByYearStep(g, s[n], f[n - 1])
    <3> HIDE DEF V, L
    <3> QED
      BY <2>2
  <2> HIDE DEF V, L, step
  <2> QED
    BY <1>5, <2>3
<1>7. Is(f)
  <2> HIDE DEF V, L, step
  <2>1. \A n \in 0..L : n # 0 => n \in 1..L
    BY <1>1
  <2>2. \A n \in 0..L : f[n] = IF n = 0 THEN <<>>
                               ELSE IF Preferred(g, s[n], YearOf[s[n][2]], f[n - 1])
                               THEN Set(f[n - 1], YearOf[s[n][2]], s[n]) ELSE f[n - 1]
    BY <1>5, <1>6, <2>1 DEF ByYearStep, Year
  <2> QED
    BY <1>5, <2>2
<1> DEFINE u == CHOOSE x : Is(x)
<1>8. Is(u)
  <2> HIDE DEF Is
  <2> QED
    BY <1>7
<1>9. ByYear(g, s) = u[L]
  BY DEF ByYear
<1>10. u[0] = <<>> /\ \A n \in 1..L : u[n] = ByYearStep(g, s[n], u[n - 1])
  <2> HIDE DEF u, L
  <2>1. 0 \in 0..L /\ \A n \in 1..L : n # 0 /\ n \in 0..L
    BY <1>1
  <2>2. u[0] = <<>>
    BY <1>8, <2>1
  <2>3. \A n \in 1..L : u[n] = IF Preferred(g, s[n], YearOf[s[n][2]], u[n - 1])
                               THEN Set(u[n - 1], YearOf[s[n][2]], s[n]) ELSE u[n - 1]
    BY <1>8, <2>1
  <2> QED
    BY <2>2, <2>3 DEF ByYearStep, Year
<1> HIDE DEF u
<1> QED
  BY <1>9, <1>10

(* What the loop has chosen after the first n rows: for every year there   *)
(* is a row of the year, and none before it in order of preference.        *)
Chosen(g, R, s, b, n) ==
  /\ DOMAIN b = {Year(s[m]) : m \in 1..n}
  /\ \A y \in DOMAIN b :
       /\ b[y] \in R /\ Year(b[y]) = y
       /\ \A m \in 1..n : Year(s[m]) = y => Rank(g, b[y]) <= Rank(g, s[m])

(* The body keeps that. *)
LEMMA ChosenStep ==
  ASSUME NEW g \in Seq(Nat), NEW R, \A k \in R : Year(k) \in Nat /\ Rank(g, k) \in Nat,
         NEW s \in Seq(R), NEW n \in 1..Len(s), NEW b, Chosen(g, R, s, b, n - 1)
  PROVE  Chosen(g, R, s, ByYearStep(g, s[n], b), n)
<1> DEFINE
      k == s[n]
      c == ByYearStep(g, k, b)
<1>1. k \in R /\ (\A m \in 1..n : s[m] \in R)
  <2>1. \A m \in 1..n : m \in 1..Len(s)
    OBVIOUS
  <2> QED
    BY <2>1
<1>2. \A m \in 1..n : m = n \/ m \in 1..n - 1
  OBVIOUS
<1>3. n \in 1..n /\ \A m \in 1..n - 1 : m \in 1..n
  OBVIOUS
<1>4. CASE Preferred(g, k, Year(k), b)
  <2>1. c = Set(b, Year(k), k)
    BY <1>4 DEF ByYearStep
  <2>2. DOMAIN c = DOMAIN b \cup {Year(k)} /\ c[Year(k)] = k
    BY <2>1 DEF Set
  <2>3. \A y \in DOMAIN b : y # Year(k) => c[y] = b[y]
    BY <2>1 DEF Set
  <2> HIDE DEF c
  <2>4. DOMAIN c = {Year(s[m]) : m \in 1..n}
    BY <1>2, <1>3, <2>2 DEF Chosen
  <2>5. ASSUME NEW m \in 1..n, Year(s[m]) = Year(k)
        PROVE  Rank(g, k) <= Rank(g, s[m])
    <3>1. CASE m = n
      <4>1. \A x \in Nat : x <= x
        OBVIOUS
      <4> QED
        BY <1>1, <3>1, <4>1
    <3>2. CASE m \in 1..n - 1
      <4>1. Year(k) \in DOMAIN b
        BY <2>5, <3>2 DEF Chosen
      <4>2. Rank(g, b[Year(k)]) <= Rank(g, s[m]) /\ b[Year(k)] \in R
        BY <2>5, <3>2, <4>1 DEF Chosen
      <4>3. Rank(g, k) < Rank(g, b[Year(k)])
        BY <1>4, <4>1 DEF Preferred, Rank
      <4>4. Rank(g, k) \in Nat /\ Rank(g, b[Year(k)]) \in Nat /\ Rank(g, s[m]) \in Nat
        BY <1>1, <4>2
      <4>5. \A x, y, z \in Nat : (x < y /\ y <= z) => x <= z
        OBVIOUS
      <4> HIDE DEF k
      <4> QED
        BY <4>2, <4>3, <4>4, <4>5
    <3> QED
      BY <1>2, <3>1, <3>2
  <2>6. ASSUME NEW y \in DOMAIN b, y # Year(k)
        PROVE  /\ c[y] \in R /\ Year(c[y]) = y
               /\ \A m \in 1..n : Year(s[m]) = y => Rank(g, c[y]) <= Rank(g, s[m])
    <3>1. c[y] = b[y] /\ Year(s[n]) # y
      BY <2>3, <2>6
    <3>2. b[y] \in R /\ Year(b[y]) = y
      BY DEF Chosen
    <3>3. \A m \in 1..n - 1 : Year(s[m]) = y => Rank(g, b[y]) <= Rank(g, s[m])
      BY DEF Chosen
    <3> HIDE DEF k
    <3> QED
      BY <1>2, <3>1, <3>2, <3>3
  <2> HIDE DEF k
  <2>7. ASSUME NEW y \in DOMAIN c
        PROVE  /\ c[y] \in R /\ Year(c[y]) = y
               /\ \A m \in 1..n : Year(s[m]) = y => Rank(g, c[y]) <= Rank(g, s[m])
    <3>1. CASE y = Year(k)
      BY <1>1, <2>2, <2>5, <3>1
    <3>2. CASE y # Year(k)
      BY <2>2, <2>6, <3>2
    <3> QED
      BY <3>1, <3>2
  <2>8. Chosen(g, R, s, c, n)
    BY <2>4, <2>7 DEF Chosen
  <2> QED
    BY <2>8 DEF c, k
<1>5. CASE ~ Preferred(g, k, Year(k), b)
  <2>1. c = b
    BY <1>5 DEF ByYearStep
  <2>2. Year(k) \in DOMAIN b /\ ~ (Rank(g, k) < Rank(g, b[Year(k)]))
    BY <1>5 DEF Preferred, Rank
  <2>3. b[Year(k)] \in R
    BY <2>2 DEF Chosen
  <2>4. Rank(g, b[Year(k)]) <= Rank(g, k)
    <3>1. Rank(g, k) \in Nat /\ Rank(g, b[Year(k)]) \in Nat
      BY <1>1, <2>3
    <3>2. \A x, y \in Nat : ~ (x < y) => y <= x
      OBVIOUS
    <3> HIDE DEF k
    <3> QED
      BY <2>2, <3>1, <3>2
  <2>5. DOMAIN b = {Year(s[m]) : m \in 1..n}
    BY <1>2, <1>3, <2>2 DEF Chosen
  <2>6. ASSUME NEW y \in DOMAIN b
        PROVE  /\ b[y] \in R /\ Year(b[y]) = y
               /\ \A m \in 1..n : Year(s[m]) = y => Rank(g, b[y]) <= Rank(g, s[m])
    <3>1. b[y] \in R /\ Year(b[y]) = y
      BY DEF Chosen
    <3>2. \A m \in 1..n - 1 : Year(s[m]) = y => Rank(g, b[y]) <= Rank(g, s[m])
      BY DEF Chosen
    <3>3. Year(s[n]) = y => Rank(g, b[y]) <= Rank(g, s[n])
      BY <2>4
    <3> QED
      BY <1>2, <3>1, <3>2, <3>3
  <2>7. Chosen(g, R, s, b, n)
    BY <2>5, <2>6 DEF Chosen
  <2> QED
    BY <2>1, <2>7
<1> QED
  BY <1>4, <1>5

(* The rows chosen by year, when the loop over the rows has ended.         *)
LEMMA ByYearChooses ==
  ASSUME NEW g \in Seq(Nat), NEW R, \A k \in R : Year(k) \in Nat /\ Rank(g, k) \in Nat,
         NEW s \in Seq(R)
  PROVE  Chosen(g, R, s, ByYear(g, s), Len(s))
<1>1. PICK u : /\ u[0] = <<>>
               /\ \A n \in 1..Len(s) : u[n] = ByYearStep(g, s[n], u[n - 1])
               /\ ByYear(g, s) = u[Len(s)]
  BY ByYearLoop
<1> DEFINE T == {n \in 0..Len(s) : Chosen(g, R, s, u[n], n)}
<1>2. Len(s) \in Nat
  OBVIOUS
<1>3. 0 \in T
  <2>1. DOMAIN u[0] = {} /\ 1..0 = {} /\ 0 \in 0..Len(s)
    BY <1>1, <1>2
  <2> QED
    BY <2>1 DEF Chosen
<1>4. ASSUME NEW n \in 1..Len(s), n - 1 \in T
      PROVE  n \in T
  <2>1. Chosen(g, R, s, u[n - 1], n - 1) /\ n \in 0..Len(s)
    BY <1>4
  <2>2. Chosen(g, R, s, ByYearStep(g, s[n], u[n - 1]), n)
    BY <2>1, ChosenStep
  <2> QED
    BY <1>1, <2>1, <2>2
<1>5. Len(s) \in T
  <2>1. Len(s) \in 0..Len(s)
    BY <1>2
  <2> HIDE DEF T
  <2> QED
    BY <1>2, <1>3, <1>4, <2>1, UpTo
<1> QED
  BY <1>1, <1>5

(* Of the years asked for, the years selected are years there are.         *)
LEMMA PresentType ==
  ASSUME NEW b, NEW years \in Seq(Nat), years # <<>>
  PROVE  SelectedYears(b, years) \in Seq(DOMAIN b \cap Range(years))
<1> DEFINE
      L == Len(years)
      D == DOMAIN b \cap Range(years)
      V == Seq(D)
      Next1(y, p) == IF y \in DOMAIN b THEN Append(p, y) ELSE p
      Is(u) == u = [n \in 0..L |-> IF n = 0 THEN <<>>
                                   ELSE IF years[n] \in DOMAIN b
                                   THEN Append(u[n - 1], years[n]) ELSE u[n - 1]]
      step == [p \in (1..L) \X V |-> Next1(years[p[1]], p[2])]
<1>1. L \in Nat /\ <<>> \in V
  OBVIOUS
<1>2. \A n \in 1..L : \A p \in V : Next1(years[n], p) \in V
  <2>1. \A S : \A y \in S : \A p \in Seq(S) : Append(p, y) \in Seq(S)
    OBVIOUS
  <2>2. \A n \in 1..L : years[n] \in Range(years)
    BY DEF Range
  <2>3. \A n \in 1..L : years[n] \in DOMAIN b => years[n] \in D
    BY <2>2
  <2> HIDE DEF D, L
  <2> QED
    BY <2>1, <2>3
<1> HIDE DEF D
<1>3. step \in [(1..L) \X V -> V]
  <2> HIDE DEF V, L, Next1
  <2> QED
    BY <1>2
<1>4. PICK f : Runs(f, L, V, <<>>, step)
  <2>1. L \in Nat
    BY <1>1
  <2> HIDE DEF V, L, step
  <2> QED
    BY <2>1, <1>1, <1>3, Recursion
<1>5. Is(f)
  <2> SUFFICES ASSUME NEW n \in 0..L, n # 0
               PROVE  f[n] = Next1(years[n], f[n - 1])
    <3>1. f \in [0..L -> V] /\ f[0] = <<>>
      BY <1>4 DEF Runs
    <3> HIDE DEF V, L
    <3> QED
      BY <3>1
  <2>1. n \in 1..L /\ n - 1 \in 0..L
    BY <1>1
  <2>2. f[n - 1] \in V
    <3> HIDE DEF V, L, step
    <3> QED
      BY <1>4, <2>1 DEF Runs
  <2>3. step[<<n, f[n - 1]>>] = Next1(years[n], f[n - 1])
    <3> HIDE DEF V, L, Next1
    <3> QED
      BY <2>1, <2>2
  <2> HIDE DEF V, L, step, Next1
  <2> QED
    BY <1>4, <2>1, <2>3 DEF Runs
<1> DEFINE u == CHOOSE x : Is(x)
<1>6. Is(u)
  <2> HIDE DEF Is
  <2> QED
    BY <1>5
<1>7. SelectedYears(b, years) = u[L]
  BY DEF SelectedYears
<1> DEFINE T == {n \in 0..L : u[n] \in V}
<1>8. 0 \in T
  <2> HIDE DEF u, V
  <2>1. 0 \in 0..L
    BY <1>1
  <2> QED
    BY <1>1, <1>6, <2>1
<1>9. ASSUME NEW n \in 1..L, n - 1 \in T
      PROVE  n \in T
  <2> HIDE DEF u
  <2>1. n \in 0..L /\ n # 0 /\ u[n - 1] \in V
    BY <1>1, <1>9
  <2>2. u[n] = Next1(years[n], u[n - 1])
    <3> HIDE DEF V, L
    <3> QED
      BY <1>6, <2>1
  <2> HIDE DEF V, L, Next1
  <2> QED
    BY <1>2, <2>1, <2>2
<1>10. L \in T
  <2>1. L \in 0..L /\ L \in Nat
    BY <1>1
  <2> HIDE DEF T, L
  <2> QED
    BY <1>8, <1>9, <2>1, UpTo
<1> HIDE DEF u
<1> QED
  BY <1>7, <1>10 DEF D

(* A row is looked up however the rows of its year are ordered.            *)
LEMMA EveryRowComes ==
  ASSUME NEW rows, IsFiniteSet(rows), NEW s \in SetToSeqs(rows)
  PROVE  s \in Seq(rows) /\ \A k \in rows : \E m \in 1..Len(s) : s[m] = k
<1> DEFINE
      N == Cardinality(rows)
      D == 1..N
<1>1. N \in Nat
  BY FS_CardinalityType
<1>2. s \in [D -> rows] /\ \A i, j \in D : i # j => s[i] # s[j]
  BY DEF SetToSeqs
<1>3. s \in Injection(D, rows)
  BY <1>2 DEF Injection, IsInjective
<1>4. IsFiniteSet(D) /\ Cardinality(D) = N
  <2>1. Cardinality(1..N) = IF 1 > N THEN 0 ELSE N - 1 + 1
    BY <1>1, FS_Interval
  <2>2. IsFiniteSet(1..N)
    BY <1>1, FS_Interval
  <2> HIDE DEF N
  <2> QED
    BY <1>1, <2>1, <2>2
<1>5. s \in Surjection(D, rows)
  <2> HIDE DEF D
  <2> QED
    BY <1>3, <1>4, FS_Injection
<1>6. s \in Seq(rows) /\ Len(s) = N
  <2> HIDE DEF N
  <2> QED
    BY <1>1, <1>2
<1>7. \A k \in rows : \E m \in D : s[m] = k
  BY <1>5 DEF Surjection
<1> QED
  BY <1>6, <1>7

(* The years selected are years of the rows that are asked for, or the     *)
(* latest of them and no other.                                            *)
LEMMA YearsSelected ==
  ASSUME NEW b, DOMAIN b \subseteq Nat, NEW years \in Seq(Nat),
         DOMAIN b # {} => \E x \in DOMAIN b : \A y \in DOMAIN b : x >= y
  PROVE  /\ SelectedYears(b, years) \in Seq(DOMAIN b)
         /\ years # <<>> => \A n \in DOMAIN SelectedYears(b, years) :
                              SelectedYears(b, years)[n] \in Range(years)
         /\ years = <<>> => /\ Len(SelectedYears(b, years)) <= 1
                            /\ \A n \in DOMAIN SelectedYears(b, years) :
                                 \A y \in DOMAIN b : SelectedYears(b, years)[n] >= y
<1>1. CASE years # <<>>
  <2> DEFINE D == DOMAIN b \cap Range(years)
             ys == SelectedYears(b, years)
  <2>1. ys \in Seq(D)
    BY <1>1, PresentType
  <2> HIDE DEF ys
  <2>2. D \subseteq DOMAIN b /\ D \subseteq Range(years)
    OBVIOUS
  <2> HIDE DEF D
  <2>3. ys \in Seq(DOMAIN b) /\ \A n \in DOMAIN ys : ys[n] \in D
    BY <2>1, <2>2
  <2> QED
    BY <1>1, <2>2, <2>3 DEF ys
<1>2. CASE years = <<>> /\ DOMAIN b = {}
  <2>1. SelectedYears(b, years) = <<>>
    BY <1>2 DEF SelectedYears
  <2>2. <<>> \in Seq(DOMAIN b) /\ DOMAIN <<>> = {} /\ Len(<<>>) <= 1
    OBVIOUS
  <2> QED
    BY <1>2, <2>1, <2>2
<1>3. CASE years = <<>> /\ DOMAIN b # {}
  <2> DEFINE top == Max(DOMAIN b)
  <2>1. top \in DOMAIN b /\ \A y \in DOMAIN b : top >= y
    BY <1>3 DEF Max
  <2>2. SelectedYears(b, years) = <<top>>
    BY <1>3 DEF SelectedYears
  <2> HIDE DEF top
  <2>3. /\ <<top>> \in Seq(DOMAIN b) /\ DOMAIN <<top>> = 1..1 /\ <<top>>[1] = top
        /\ Len(<<top>>) <= 1 /\ \A n \in 1..1 : n = 1
    BY <2>1
  <2> QED
    BY <1>3, <2>1, <2>2, <2>3
<1> QED
  BY <1>1, <1>2, <1>3

(* What a lookup finds: of a year it takes, no row is preferred to the one *)
(* it takes; it takes only years it is asked for, or the latest alone.     *)
LEMMA LookupFinds ==
  ASSUME NEW g \in Seq(Nat), NEW rows, IsFiniteSet(rows),
         rows \subseteq Nat \X DOMAIN YearOf, \A k \in rows : k[1] \in Range(g),
         NEW s \in SetToSeqs(rows),
         \A m, n \in DOMAIN s : m < n => YearOf[s[m][2]] >= YearOf[s[n][2]],
         NEW years \in Seq(Nat)
  PROVE  LET b == ByYear(g, s)
             ys == SelectedYears(b, years)
         IN  /\ ys \in Seq(DOMAIN b)
             /\ years = <<>> => Len(ys) <= 1
             /\ \A n \in DOMAIN ys :
                  /\ b[ys[n]] \in rows
                  /\ years # <<>> => Year(b[ys[n]]) \in Range(years)
                  /\ \A k \in rows :
                       /\ Year(k) = Year(b[ys[n]]) => Rank(g, b[ys[n]]) <= Rank(g, k)
                       /\ years = <<>> => Year(k) <= Year(b[ys[n]])
<1> DEFINE
      b == ByYear(g, s)
      ys == SelectedYears(b, years)
<1>1. s \in Seq(rows) /\ \A k \in rows : \E m \in 1..Len(s) : s[m] = k
  BY EveryRowComes
<1>2. \A k \in rows : Year(k) \in Nat /\ Rank(g, k) \in Nat
  BY FactsAssumption, RankType DEF Year
<1>3. Chosen(g, rows, s, b, Len(s))
  BY <1>1, <1>2, ByYearChooses
<1> HIDE DEF b
<1>4. \A m \in 1..Len(s) : s[m] \in rows
  BY <1>1
<1>5. DOMAIN b \subseteq Nat
  BY <1>2, <1>3, <1>4 DEF Chosen
<1>6. ASSUME DOMAIN b # {}
      PROVE  \E x \in DOMAIN b : \A y \in DOMAIN b : x >= y
  <2>1. Len(s) \in Nat /\ DOMAIN s = 1..Len(s)
    BY <1>1
  <2>2. PICK l \in 1..Len(s) : TRUE
    BY <1>3, <1>6 DEF Chosen
  <2>3. 1 \in 1..Len(s) /\ \A m \in 1..Len(s) : m = 1 \/ 1 < m
    BY <2>1, <2>2
  <2>4. \A m \in 1..Len(s) : Year(s[1]) >= Year(s[m])
    <3>1. \A x \in Nat : x >= x
      OBVIOUS
    <3> QED
      BY <1>2, <1>4, <2>1, <2>3, <3>1 DEF Year
  <2>5. Year(s[1]) \in DOMAIN b
    BY <1>3, <2>3 DEF Chosen
  <2> QED
    BY <1>3, <2>4, <2>5 DEF Chosen
<1>7. /\ ys \in Seq(DOMAIN b)
      /\ years # <<>> => \A n \in DOMAIN ys : ys[n] \in Range(years)
      /\ years = <<>> => Len(ys) <= 1
      /\ years = <<>> => \A n \in DOMAIN ys : \A y \in DOMAIN b : ys[n] >= y
  BY <1>5, <1>6, YearsSelected
<1> HIDE DEF ys
<1>8. ASSUME NEW n \in DOMAIN ys
      PROVE  /\ b[ys[n]] \in rows
             /\ years # <<>> => Year(b[ys[n]]) \in Range(years)
             /\ \A k \in rows :
                  /\ Year(k) = Year(b[ys[n]]) => Rank(g, b[ys[n]]) <= Rank(g, k)
                  /\ years = <<>> => Year(k) <= Year(b[ys[n]])
  <2>1. ys[n] \in DOMAIN b
    BY <1>7
  <2>2. b[ys[n]] \in rows /\ Year(b[ys[n]]) = ys[n]
    BY <1>3, <2>1 DEF Chosen
  <2>3. ASSUME NEW k \in rows
        PROVE  /\ Year(k) = Year(b[ys[n]]) => Rank(g, b[ys[n]]) <= Rank(g, k)
               /\ years = <<>> => Year(k) <= Year(b[ys[n]])
    <3>1. PICK m \in 1..Len(s) : s[m] = k
      BY <1>1
    <3>2. Year(k) = Year(b[ys[n]]) => Rank(g, b[ys[n]]) <= Rank(g, k)
      BY <1>3, <2>1, <2>2, <3>1 DEF Chosen
    <3>3. Year(k) \in DOMAIN b
      BY <1>3, <3>1 DEF Chosen
    <3>4. ASSUME years = <<>>
          PROVE  Year(k) <= Year(b[ys[n]])
      <4>1. ys[n] >= Year(k)
        BY <1>7, <3>3, <3>4
      <4>2. ys[n] \in Nat /\ Year(k) \in Nat
        BY <1>5, <2>1, <3>3
      <4>3. \A x, y \in Nat : x >= y => y <= x
        OBVIOUS
      <4> QED
        BY <2>2, <4>1, <4>2, <4>3
    <3> QED
      BY <3>2, <3>4
  <2>4. years # <<>> => Year(b[ys[n]]) \in Range(years)
    BY <1>7, <2>2
  <2> QED
    BY <2>2, <2>3, <2>4
<1> QED
  BY <1>7, <1>8 DEF b, ys

-----------------------------------------------------------------------------
(* What a lookup adds to a question's figures, before the cap. *)
LEMMA LookupAdds ==
  ASSUME FactsTypeOK, NEW t \in Readers, LookupGroup(t)
  PROVE  LET g == Head(asked[t])
             rows == {k \in DOMAIN table : k[1] \in Range(g)}
         IN \E found \in Seq(Figures) :
              /\ chunks' = [chunks EXCEPT ![t] =
                   IF Len(asked[t]) = 1 THEN Capped(chunks[t] \o found) ELSE chunks[t] \o found]
              /\ question[t].years = <<>> => Len(found) <= 1
              /\ \A n \in DOMAIN found :
                   question[t].years # <<>> => YearOf[found[n].end] \in Range(question[t].years)
              /\ \A n \in DOMAIN found : \A k \in rows :
                   /\ YearOf[k[2]] = YearOf[found[n].end] =>
                        IndexIn(g, found[n].concept) <= IndexIn(g, k[1])
                   /\ question[t].years = <<>> => YearOf[k[2]] <= YearOf[found[n].end]
<1> DEFINE
      g == Head(asked[t])
      rows == {k \in DOMAIN table : k[1] \in Range(g)}
      years == question[t].years
<1>1. g \in Seq(Nat)
  <2>1. asked[t] \in Seq(Groups) /\ asked[t] # <<>>
    BY DEF FactsTypeOK, LookupGroup
  <2>2. g \in Groups
    BY <2>1
  <2> QED
    BY <2>2, FactsAssumption
<1>2. years \in Seq(Nat)
  <2>1. question[t] \in Questions \cup {NoQuestion}
    BY DEF FactsTypeOK
  <2>2. NoQuestion.years = <<>> /\ <<>> \in Seq(Nat)
    BY DEF NoQuestion
  <2>3. \A q \in Questions : q.years \in Seq(Nat)
    BY FactsAssumption
  <2> QED
    BY <2>1, <2>2, <2>3
<1>3. /\ rows \subseteq Nat \X DOMAIN YearOf /\ IsFiniteSet(rows)
      /\ \A k \in rows : k[1] \in Range(g) /\ table[k].value \in Nat
  <2>1. rows \subseteq DOMAIN table
    OBVIOUS
  <2>2. IsFiniteSet(rows)
    BY <2>1, FS_Subset DEF FactsTypeOK
  <2>3. \A k \in DOMAIN table : table[k].value \in Nat
    BY DEF FactsTypeOK
  <2>4. rows \subseteq Nat \X DOMAIN YearOf
    BY <2>1 DEF FactsTypeOK
  <2> QED
    BY <2>1, <2>2, <2>3, <2>4
<1>4. PICK s \in SetToSeqs(rows) :
        /\ \A m, n \in DOMAIN s : m < n => YearOf[s[m][2]] >= YearOf[s[n][2]]
        /\ LET byYear == ByYear(g, s)
               ys == SelectedYears(byYear, years)
               found == [n \in DOMAIN ys |->
                           LET k == byYear[ys[n]] IN
                           [concept |-> k[1], end |-> k[2], value |-> table[k].value]]
               all == chunks[t] \o found
           IN chunks' = [chunks EXCEPT ![t] = IF Len(asked[t]) = 1 THEN Capped(all) ELSE all]
  BY DEF LookupGroup
<1> DEFINE
      b == ByYear(g, s)
      ys == SelectedYears(b, years)
      found == [n \in DOMAIN ys |->
                  LET k == b[ys[n]] IN
                  [concept |-> k[1], end |-> k[2], value |-> table[k].value]]
<1>5. chunks' = [chunks EXCEPT ![t] =
        IF Len(asked[t]) = 1 THEN Capped(chunks[t] \o found) ELSE chunks[t] \o found]
  BY <1>4
<1>6. /\ ys \in Seq(DOMAIN b)
      /\ years = <<>> => Len(ys) <= 1
      /\ \A n \in DOMAIN ys :
           /\ b[ys[n]] \in rows
           /\ years # <<>> => Year(b[ys[n]]) \in Range(years)
           /\ \A k \in rows :
                /\ Year(k) = Year(b[ys[n]]) => Rank(g, b[ys[n]]) <= Rank(g, k)
                /\ years = <<>> => Year(k) <= Year(b[ys[n]])
  <2> HIDE DEF g, rows, years
  <2> QED
    BY <1>1, <1>2, <1>3, <1>4, LookupFinds
<1> HIDE DEF b, ys, g, rows, years
<1>7. ASSUME NEW n \in DOMAIN ys
      PROVE  /\ found[n] \in Figures
             /\ found[n].concept = b[ys[n]][1] /\ found[n].end = b[ys[n]][2]
  <2>1. b[ys[n]] \in Nat \X DOMAIN YearOf /\ table[b[ys[n]]].value \in Nat
    BY <1>3, <1>6
  <2>2. found[n] = [concept |-> b[ys[n]][1], end |-> b[ys[n]][2], value |-> table[b[ys[n]]].value]
    OBVIOUS
  <2> HIDE DEF found
  <2> QED
    BY <2>1, <2>2 DEF Figures
<1>8. found \in Seq(Figures) /\ DOMAIN found = DOMAIN ys /\ Len(found) = Len(ys)
  <2>1. DOMAIN ys = 1..Len(ys) /\ Len(ys) \in Nat
    BY <1>6
  <2>2. \A n \in 1..Len(ys) : found[n] \in Figures
    BY <1>7, <2>1
  <2>3. found = [n \in 1..Len(ys) |-> found[n]]
    BY <2>1
  <2> HIDE DEF found
  <2> QED
    BY <2>1, <2>2, <2>3
<1>9. \A n \in DOMAIN found : \A k \in rows :
        /\ YearOf[k[2]] = YearOf[found[n].end] =>
             IndexIn(g, found[n].concept) <= IndexIn(g, k[1])
        /\ years = <<>> => YearOf[k[2]] <= YearOf[found[n].end]
  <2> HIDE DEF found
  <2> QED
    BY <1>6, <1>7, <1>8 DEF Year, Rank
<1>10. \A n \in DOMAIN found : years # <<>> => YearOf[found[n].end] \in Range(years)
  <2> HIDE DEF found
  <2> QED
    BY <1>6, <1>7, <1>8 DEF Year
<1>11. years = <<>> => Len(found) <= 1
  BY <1>6, <1>8
<1> HIDE DEF found
<1> QED
  BY <1>5, <1>8, <1>9, <1>10, <1>11 DEF g, rows, years
-----------------------------------------------------------------------------
(* A row has the type of an entry's figure. *)
LEMMA TableTypeStep ==
  ASSUME FactsTypeOK, [FactsNext]_factsVars
  PROVE  /\ IsFiniteSet(DOMAIN table') /\ DOMAIN table' \subseteq Nat \X DOMAIN YearOf
         /\ table' \in [DOMAIN table' -> [filed : Nat, value : Nat]]
<1>1. CASE table' = table
  BY <1>1 DEF FactsTypeOK
<1>2. ASSUME NEW r \in Requests, NEW i \in pending[r], Upsert(i)
      PROVE  /\ IsFiniteSet(DOMAIN table') /\ DOMAIN table' \subseteq Nat \X DOMAIN YearOf
             /\ table' \in [DOMAIN table' -> [filed : Nat, value : Nat]]
  <2>1. i \in Items
    BY ItemType DEF FactsTypeOK
  <2>2. Key(i) \in Nat \X DOMAIN YearOf /\ Row(i) \in [filed : Nat, value : Nat]
    BY <2>1 DEF Items, Key, Row
  <2>3. CASE table' = table
    BY <2>3 DEF FactsTypeOK
  <2>4. CASE table' = Set(table, Key(i), Row(i))
    <3>1. DOMAIN table' = DOMAIN table \cup {Key(i)}
      BY <2>4 DEF Set
    <3>2. IsFiniteSet(DOMAIN table')
      <4>1. IsFiniteSet(DOMAIN table)
        BY DEF FactsTypeOK
      <4> QED
        BY <3>1, <4>1, FS_AddElement
    <3>3. table' \in [DOMAIN table' -> [filed : Nat, value : Nat]]
      BY <2>2, <2>4 DEF Set, FactsTypeOK
    <3>4. DOMAIN table' \subseteq Nat \X DOMAIN YearOf
      BY <2>2, <3>1 DEF FactsTypeOK
    <3> QED
      BY <3>2, <3>3, <3>4
  <2> QED
    BY <1>2, <2>3, <2>4 DEF Upsert
<1>3. table' = table \/ \E r \in Requests : \E i \in pending[r] : Upsert(i)
  BY DEF FactsNext, FilingAppears, FetchCompanyFacts, StoreFact, StoreRaises, EndStore,
         Ask, LookupGroup, LookupGroupRaises, factsVars
<1> QED
  BY <1>1, <1>2, <1>3

(* So have the figures found for a question. *)
LEMMA FiguresTypeStep ==
  ASSUME FactsTypeOK, [FactsNext]_factsVars
  PROVE  /\ question' \in [Readers -> Questions \cup {NoQuestion}]
         /\ chunks' \in [Readers -> Seq(Figures)]
<1>0. /\ question \in [Readers -> Questions \cup {NoQuestion}]
      /\ chunks \in [Readers -> Seq(Figures)]
  BY DEF FactsTypeOK
<1>1. CASE UNCHANGED <<question, chunks>>
  BY <1>0, <1>1
<1>2. ASSUME NEW t \in Readers, Ask(t)
      PROVE  /\ question' \in [Readers -> Questions \cup {NoQuestion}]
             /\ chunks' \in [Readers -> Seq(Figures)]
  <2>1. chunks' \in [Readers -> Seq(Figures)]
    <3>1. <<>> \in Seq(Figures)
      OBVIOUS
    <3> QED
      BY <1>0, <1>2, <3>1 DEF Ask
  <2>2. question' \in [Readers -> Questions \cup {NoQuestion}]
    BY <1>0, <1>2 DEF Ask
  <2> QED
    BY <2>1, <2>2
<1>3. ASSUME NEW t \in Readers, LookupGroup(t)
      PROVE  /\ question' \in [Readers -> Questions \cup {NoQuestion}]
             /\ chunks' \in [Readers -> Seq(Figures)]
  <2>1. PICK found \in Seq(Figures) :
          chunks' = [chunks EXCEPT ![t] =
            IF Len(asked[t]) = 1 THEN Capped(chunks[t] \o found) ELSE chunks[t] \o found]
    BY <1>3, LookupAdds
  <2>2. chunks[t] \o found \in Seq(Figures)
    BY <1>0, <2>1
  <2>3. Capped(chunks[t] \o found) \in Seq(Figures)
    BY <2>2, CappedPrefix
  <2>4. chunks' \in [Readers -> Seq(Figures)]
    BY <1>0, <2>1, <2>2, <2>3
  <2>5. question' = question
    BY <1>3 DEF LookupGroup
  <2> QED
    BY <1>0, <2>4, <2>5
<1>4. ASSUME NEW t \in Readers, LookupGroupRaises(t)
      PROVE  /\ question' \in [Readers -> Questions \cup {NoQuestion}]
             /\ chunks' \in [Readers -> Seq(Figures)]
  <2>1. <<>> \in Seq(Figures)
    OBVIOUS
  <2> QED
    BY <1>0, <1>4, <2>1 DEF LookupGroupRaises
<1> QED
  BY <1>1, <1>2, <1>3, <1>4
  DEF FactsNext, FilingAppears, FetchCompanyFacts, StoreFact, StoreRaises, EndStore,
      factsVars, readVars

(* The rest of the state. *)
ServiceType ==
  /\ version \in DOMAIN Documents
  /\ fetched \in [Requests -> 0..version]
  /\ pending \in [Requests -> SUBSET AllItems]
  /\ stored \subseteq 1..version
  /\ asked \in [Readers -> Seq(Groups)]
  /\ DOMAIN chunks = Readers
  /\ \A t \in Readers : asked[t] # <<>> \/ Len(chunks[t]) <= MaxFacts

LEMMA ServiceTypeStep ==
  ASSUME FactsTypeOK, [FactsNext]_factsVars
  PROVE  ServiceType'
<1> SUFFICES ASSUME ServiceType
             PROVE  ServiceType'
  BY DEF FactsTypeOK, ServiceType
<1> USE DEF ServiceType
<1>0. version \in Nat /\ version >= 1
  BY FactsAssumption
<1>1. CASE UNCHANGED factsVars
  BY <1>1 DEF factsVars, storingVars, readVars, AllItems
<1>2. CASE FilingAppears
  <2>1. version' \in DOMAIN Documents /\ 0..version \subseteq 0..version' /\ 1..version \subseteq 1..version'
    BY <1>0, <1>2, FactsAssumption DEF FilingAppears
  <2>2. AllItems \subseteq AllItems'
    BY <1>0, <1>2, ItemsGrow DEF FilingAppears
  <2>3. UNCHANGED <<fetched, pending, stored, asked, chunks>>
    BY <1>2 DEF FilingAppears, storingVars, readVars
  <2> QED
    BY <2>1, <2>2, <2>3
<1>3. ASSUME NEW r \in Requests, FetchCompanyFacts(r) \/ StoreFact(r) \/ StoreRaises(r) \/ EndStore(r)
      PROVE  ServiceType'
  <2>1. UNCHANGED <<version, asked, chunks>>
    BY <1>3 DEF FetchCompanyFacts, StoreFact, StoreRaises, EndStore, readVars
  <2>2. AllItems' = AllItems
    BY <2>1 DEF AllItems
  <2>3. CASE FetchCompanyFacts(r)
    <3>1. ExtractAnnualFacts(Documents[version]) \subseteq AllItems
      BY <1>0, ItemType, KeptAreEntries
    <3>2. fetched' \in [Requests -> 0..version] /\ pending' \in [Requests -> SUBSET AllItems] /\ stored' = stored
      BY <1>0, <2>3, <3>1 DEF FetchCompanyFacts
    <3> QED
      BY <2>1, <2>2, <3>2
  <2>4. CASE StoreFact(r)
    <3>1. pending' \in [Requests -> SUBSET AllItems] /\ UNCHANGED <<fetched, stored>>
      BY <2>4 DEF StoreFact
    <3> QED
      BY <2>1, <2>2, <3>1
  <2>5. CASE StoreRaises(r)
    <3>1. fetched' \in [Requests -> 0..version] /\ pending' \in [Requests -> SUBSET AllItems] /\ stored' = stored
      BY <1>0, <2>5 DEF StoreRaises
    <3> QED
      BY <2>1, <2>2, <3>1
  <2>6. CASE EndStore(r)
    <3>1. fetched[r] \in 1..version
      BY <1>0, <2>6 DEF EndStore
    <3>2. fetched' \in [Requests -> 0..version]
      BY <1>0, <2>6 DEF EndStore
    <3>3. stored' \subseteq 1..version /\ pending' = pending
      BY <2>6, <3>1 DEF EndStore
    <3> QED
      BY <2>1, <2>2, <3>2, <3>3
  <2> QED
    BY <1>3, <2>3, <2>4, <2>5, <2>6
<1>4. ASSUME NEW t \in Readers, Ask(t) \/ LookupGroup(t) \/ LookupGroupRaises(t)
      PROVE  ServiceType'
  <2>1. UNCHANGED <<version, fetched, pending, stored>> /\ AllItems' = AllItems
    BY <1>4 DEF Ask, LookupGroup, LookupGroupRaises, storingVars, AllItems
  <2>2. Len(<<>>) <= MaxFacts
    BY FactsAssumption
  <2>3. CASE Ask(t)
    <3>1. PICK q \in Questions : asked' = [asked EXCEPT ![t] = q.groups]
      BY <2>3 DEF Ask
    <3>2. q.groups \in Seq(Groups)
      BY FactsAssumption
    <3>3. asked' \in [Readers -> Seq(Groups)]
      BY <3>1, <3>2
    <3>4. DOMAIN chunks' = Readers /\ \A u \in Readers : asked'[u] # <<>> \/ Len(chunks'[u]) <= MaxFacts
      BY <2>2, <2>3, <3>1 DEF Ask
    <3> QED
      BY <2>1, <3>3, <3>4
  <2>4. CASE LookupGroup(t)
    <3>1. asked' = [asked EXCEPT ![t] = Tail(@)] /\ asked[t] # <<>> /\ asked[t] \in Seq(Groups)
      BY <2>4 DEF LookupGroup
    <3>2. asked' \in [Readers -> Seq(Groups)]
      BY <3>1
    <3>3. PICK all \in Seq(Figures) :
            chunks' = [chunks EXCEPT ![t] = IF Len(asked[t]) = 1 THEN Capped(all) ELSE all]
      <4>1. PICK found \in Seq(Figures) :
              chunks' = [chunks EXCEPT ![t] =
                IF Len(asked[t]) = 1 THEN Capped(chunks[t] \o found) ELSE chunks[t] \o found]
        BY <2>4, LookupAdds
      <4>2. chunks[t] \o found \in Seq(Figures)
        <5>1. chunks[t] \in Seq(Figures)
          BY DEF FactsTypeOK
        <5> QED
          BY <4>1, <5>1
      <4> QED
        BY <4>1, <4>2
    <3>4. asked'[t] = <<>> => Len(asked[t]) = 1
      <4>1. asked'[t] = Tail(asked[t])
        BY <3>1
      <4>2. ASSUME NEW gs \in Seq(Groups), gs # <<>>, Tail(gs) = <<>>
            PROVE  Len(gs) = 1
        <5>1. Len(Tail(gs)) = Len(gs) - 1
          BY <4>2
        <5>2. Len(<<>>) = 0 /\ Len(gs) \in Nat
          OBVIOUS
        <5>3. Len(Tail(gs)) = 0
          BY <4>2, <5>2
        <5> QED
          BY <5>1, <5>2, <5>3
      <4> QED
        BY <3>1, <4>1, <4>2
    <3>5. DOMAIN chunks' = Readers
      BY <3>3
    <3>6. asked'[t] # <<>> \/ Len(chunks'[t]) <= MaxFacts
      <4>1. CASE Len(asked[t]) = 1
        <5>1. chunks'[t] = Capped(all)
          BY <3>3, <4>1
        <5> QED
          BY <5>1, CappedPrefix
      <4> QED
        BY <3>4, <4>1
    <3>7. \A u \in Readers \ {t} : asked'[u] = asked[u] /\ chunks'[u] = chunks[u]
      BY <3>1, <3>3
    <3> QED
      BY <2>1, <3>2, <3>5, <3>6, <3>7
  <2>5. CASE LookupGroupRaises(t)
    <3>1. <<>> \in Seq(Groups)
      OBVIOUS
    <3>2. asked' \in [Readers -> Seq(Groups)]
      BY <2>5, <3>1 DEF LookupGroupRaises
    <3>3. DOMAIN chunks' = Readers /\ \A u \in Readers : asked'[u] # <<>> \/ Len(chunks'[u]) <= MaxFacts
      BY <2>2, <2>5 DEF LookupGroupRaises
    <3> QED
      BY <2>1, <3>2, <3>3
  <2> QED
    BY <1>4, <2>3, <2>4, <2>5
<1> QED
  BY <1>1, <1>2, <1>3, <1>4 DEF FactsNext

LEMMA FactsTypeStep ==
  ASSUME FactsTypeOK, [FactsNext]_factsVars
  PROVE  FactsTypeOK'
BY TableTypeStep, FiguresTypeStep, ServiceTypeStep DEF FactsTypeOK, ServiceType

-----------------------------------------------------------------------------
(* The figures a lookup appends are those LookupAdds speaks of. *)
LEMMA PriorityStep ==
  ASSUME FactsTypeOK, [FactsNext]_factsVars, NEW t \in Readers,
         Len(chunks'[t]) > Len(chunks[t])
  PROVE  LET g == Head(asked[t])
             rows == {k \in DOMAIN table : k[1] \in Range(g)}
             years == question[t].years
         IN /\ years = <<>> => Len(chunks'[t]) = Len(chunks[t]) + 1
            /\ \A n \in Len(chunks[t]) + 1 .. Len(chunks'[t]) :
                 LET c == chunks'[t][n] IN
                 /\ years # <<>> => YearOf[c.end] \in Range(years)
                 /\ \A k \in rows :
                      /\ YearOf[k[2]] = YearOf[c.end] => IndexIn(g, c.concept) <= IndexIn(g, k[1])
                      /\ years = <<>> => YearOf[k[2]] <= YearOf[c.end]
<1> DEFINE
      g == Head(asked[t])
      rows == {k \in DOMAIN table : k[1] \in Range(g)}
      years == question[t].years
      Wins(c) == /\ years # <<>> => YearOf[c.end] \in Range(years)
                 /\ \A k \in rows :
                      /\ YearOf[k[2]] = YearOf[c.end] => IndexIn(g, c.concept) <= IndexIn(g, k[1])
                      /\ years = <<>> => YearOf[k[2]] <= YearOf[c.end]
<1>1. chunks \in [Readers -> Seq(Figures)] /\ chunks[t] \in Seq(Figures) /\ Len(chunks[t]) \in Nat
  <2>1. chunks \in [Readers -> Seq(Figures)]
    BY DEF FactsTypeOK
  <2>2. chunks[t] \in Seq(Figures)
    BY <2>1
  <2> QED
    BY <2>1, <2>2
<1>2. LookupGroup(t)
  <2>1. chunks'[t] # chunks[t] /\ chunks'[t] # <<>>
    <3>1. \A x \in Nat : ~ (x > x) /\ ~ (0 > x)
      OBVIOUS
    <3>2. Len(<<>>) = 0
      OBVIOUS
    <3> QED
      BY <1>1, <3>1, <3>2
  <2>2. \A u \in Readers : Ask(u) \/ LookupGroupRaises(u) => chunks' = [chunks EXCEPT ![u] = <<>>]
    BY DEF Ask, LookupGroupRaises
  <2>3. \A u \in Readers : LookupGroup(u) => \E x : chunks' = [chunks EXCEPT ![u] = x]
    BY LookupAdds
  <2>4. chunks' = chunks \/ \E u \in Readers : Ask(u) \/ LookupGroup(u) \/ LookupGroupRaises(u)
    BY DEF FactsNext, FilingAppears, FetchCompanyFacts, StoreFact, StoreRaises, EndStore,
           factsVars, readVars
  <2> QED
    BY <1>1, <2>1, <2>2, <2>3, <2>4
<1>3. PICK found \in Seq(Figures) :
        /\ chunks' = [chunks EXCEPT ![t] =
             IF Len(asked[t]) = 1 THEN Capped(chunks[t] \o found) ELSE chunks[t] \o found]
        /\ years = <<>> => Len(found) <= 1
        /\ \A n \in DOMAIN found : Wins(found[n])
  BY <1>2, LookupAdds
<1> HIDE DEF Wins
<1> DEFINE all == chunks[t] \o found
<1>4. all \in Seq(Figures) /\ Len(all) = Len(chunks[t]) + Len(found) /\ Len(found) \in Nat
  BY <1>1, <1>3
<1>5. /\ Len(chunks'[t]) \in Nat /\ Len(chunks'[t]) <= Len(all)
      /\ \A n \in 1..Len(chunks'[t]) : chunks'[t][n] = all[n]
  <2>1. chunks'[t] = IF Len(asked[t]) = 1 THEN Capped(all) ELSE all
    BY <1>1, <1>3
  <2> HIDE DEF all
  <2>2. Capped(all) \in Seq(Figures) /\ Len(Capped(all)) <= Len(all)
        /\ \A n \in 1..Len(Capped(all)) : Capped(all)[n] = all[n]
    BY <1>4, CappedPrefix
  <2>3. Len(Capped(all)) \in Nat /\ Len(all) \in Nat /\ Len(all) <= Len(all)
    BY <1>4, <2>2
  <2> QED
    BY <2>1, <2>2, <2>3
<1>6. ASSUME NEW n \in Len(chunks[t]) + 1 .. Len(chunks'[t])
      PROVE  Wins(chunks'[t][n])
  <2> DEFINE m == n - Len(chunks[t])
  <2>1. n \in 1..Len(chunks'[t]) /\ m \in 1..Len(found) /\ n > Len(chunks[t]) /\ n \in 1..Len(all)
    <3> HIDE DEF all
    <3> QED
      BY <1>1, <1>4, <1>5
  <2>2. all[n] = found[m]
    BY <1>1, <1>3, <2>1
  <2>3. m \in DOMAIN found
    BY <2>1, <1>3
  <2> HIDE DEF all, m
  <2> QED
    BY <1>3, <1>5, <2>1, <2>2, <2>3
<1>7. years = <<>> => Len(chunks'[t]) = Len(chunks[t]) + 1
  <2> HIDE DEF all, years
  <2> QED
    BY <1>1, <1>3, <1>4, <1>5
<1> QED
  BY <1>6, <1>7 DEF Wins

(* Filing dates of the table's rows can be compared. *)
LEMMA RowType ==
  ASSUME FactsTypeOK
  PROVE  \A k \in DOMAIN table : table[k].filed \in Nat
BY DEF FactsTypeOK

(* An upsert leaves every figure that was up to date so. *)
LEMMA UpToDateKept ==
  ASSUME \A k \in DOMAIN table : table[k].filed \in Nat,
         \A k \in DOMAIN table : k \in DOMAIN table' /\ table'[k].filed >= table[k].filed
                                  /\ table'[k].filed \in Nat,
         NEW x, x.filed \in Nat, UpToDate(x)
  PROVE  UpToDate(x)'
<1>1. Key(x)' = Key(x)
  BY DEF Key
<1>2. Key(x) \in DOMAIN table' /\ table'[Key(x)].filed >= x.filed
  BY DEF UpToDate
<1> QED
  BY <1>1, <1>2 DEF UpToDate

(* Before the first download there is nothing to store. *)
LEMMA StoringInit ==
  FactsInit => StoringInv
<1> SUFFICES ASSUME FactsInit
             PROVE  StoringInv
  OBVIOUS
<1>1. 1 \in DOMAIN Documents
  <2>1. Len(Documents) \in Nat /\ DOMAIN Documents = 1..Len(Documents) /\ Len(Documents) # 0
    BY FactsAssumption
  <2> QED
    BY <2>1
<1>2. FactsTypeOK
  <2>1. <<>> \in Seq(Groups) /\ <<>> \in Seq(Figures) /\ Len(<<>>) = 0 /\ 0 <= MaxFacts
    BY FactsAssumption
  <2>2. DOMAIN table = {} /\ table \in [{} -> [filed : Nat, value : Nat]] /\ IsFiniteSet({})
    BY FS_EmptySet DEF FactsInit
  <2>3. question \in [Readers -> Questions \cup {NoQuestion}] /\ chunks \in [Readers -> Seq(Figures)]
    BY <2>1 DEF FactsInit
  <2>4. ServiceType
    BY <1>1, <2>1 DEF FactsInit, ServiceType
  <2> QED
    BY <2>2, <2>3, <2>4 DEF FactsTypeOK, ServiceType
<1>3. DOMAIN table = {} /\ stored = {}
  BY DEF FactsInit
<1> QED
  BY <1>2, <1>3 DEF FactsInit, StoringInv, RowsAsReported, StoredVersionHolds

(* No row goes back to an older filing, whatever request stores it. *)
LEMMA RowsNeverOlder ==
  ASSUME StoringInv, [FactsNext]_factsVars
  PROVE  \A k \in DOMAIN table :
           k \in DOMAIN table' /\ table'[k].filed >= table[k].filed /\ table'[k].filed \in Nat
<1>1. \A k \in DOMAIN table : table[k].filed \in Nat
  BY RowType DEF StoringInv
<1>2. CASE table' = table
  <2>1. \A x \in Nat : x >= x
    OBVIOUS
  <2> QED
    BY <1>1, <1>2, <2>1
<1>3. ASSUME NEW r \in Requests, NEW i \in pending[r], Upsert(i)
      PROVE  \A k \in DOMAIN table :
               k \in DOMAIN table' /\ table'[k].filed >= table[k].filed /\ table'[k].filed \in Nat
  <2>1. i.filed \in Nat
    BY ItemType DEF StoringInv, FactsTypeOK
  <2>2. Row(i).filed = i.filed
    BY DEF Row
  <2>3. \A k \in DOMAIN table : table'[k].filed >= table[k].filed /\ k \in DOMAIN table'
    BY <1>1, <1>3, <2>1, UpsertKeeps
  <2>4. \A k \in DOMAIN table : table'[k].filed \in Nat
    BY <1>1, <1>3, <2>1, <2>2, <2>3, UpsertKeeps
  <2> QED
    BY <2>3, <2>4
<1>4. table' = table \/ \E r \in Requests : \E i \in pending[r] : Upsert(i)
  BY DEF FactsNext, FilingAppears, FetchCompanyFacts, StoreFact, StoreRaises, EndStore,
         Ask, LookupGroup, LookupGroupRaises, factsVars
<1> QED
  BY <1>2, <1>3, <1>4

(* Rows stay figures some 10-K reported. *)
LEMMA RowsAsReportedStep ==
  ASSUME StoringInv, [FactsNext]_factsVars
  PROVE  RowsAsReported'
<1>1. AllItems \subseteq AllItems'
  <2>1. version \in Nat
    BY FactsAssumption DEF StoringInv, FactsTypeOK
  <2>2. version' = version \/ version' = version + 1
    BY DEF FactsNext, FilingAppears, FetchCompanyFacts, StoreFact,
           StoreRaises, EndStore, Ask, LookupGroup, LookupGroupRaises, factsVars
  <2> QED
    BY <2>1, <2>2, ItemsGrow
<1>2. SUFFICES ASSUME NEW k \in DOMAIN table'
               PROVE  \E i \in AllItems : i.annual /\ Key(i) = k /\ Row(i) = table'[k]
  BY <1>1 DEF RowsAsReported, Key, Row
<1>3. CASE k \in DOMAIN table /\ table'[k] = table[k]
  BY <1>3 DEF StoringInv, RowsAsReported
<1>4. CASE ~ (k \in DOMAIN table /\ table'[k] = table[k])
  <2>1. PICK r \in Requests : StoreFact(r)
    BY <1>4
    DEF FactsNext, FilingAppears, FetchCompanyFacts, StoreRaises, EndStore,
        Ask, LookupGroup, LookupGroupRaises, factsVars
  <2>2. PICK i \in pending[r] : Upsert(i)
    BY <2>1 DEF StoreFact
  <2>3. i \in AllItems /\ i.annual /\ i.filed \in Nat
    BY ItemType DEF StoringInv, FactsTypeOK
  <2>4. k = Key(i) /\ table'[k] = Row(i)
    <3>1. \A l \in DOMAIN table : table[l].filed \in Nat
      BY RowType DEF StoringInv
    <3> QED
      BY <1>4, <2>2, <2>3, <3>1, UpsertKeeps
  <2> QED
    BY <2>3, <2>4
<1> QED
  BY <1>3, <1>4

(* A request that has downloaded a version keeps, of each figure, the      *)
(* latest entry to store until the table has it.                           *)
Waits(r, i) == \E j \in pending[r] : Key(j) = Key(i) /\ j.filed >= i.filed

LEMMA WaitsOrStored ==
  ASSUME StoringInv, [FactsNext]_factsVars, NEW r \in Requests, fetched'[r] # 0,
         NEW i \in Range(Documents[fetched'[r]]), i.annual
  PROVE  UpToDate(i)' \/ \E j \in pending'[r] : Key(j) = Key(i) /\ j.filed >= i.filed
<1>0. version \in DOMAIN Documents /\ fetched[r] \in 0..version /\ version \in Nat /\ version >= 1
  BY FactsAssumption DEF StoringInv, FactsTypeOK
<1>1. CASE FetchCompanyFacts(r)
  <2>1. fetched'[r] = version /\ pending'[r] = ExtractAnnualFacts(Documents[version])
    BY <1>1 DEF FetchCompanyFacts, StoringInv, FactsTypeOK
  <2>2. PICK n \in DOMAIN Documents[version] : i = Documents[version][n]
    BY <2>1 DEF Range
  <2> QED
    BY <1>0, <2>1, <2>2, DocumentType, LatestKept
<1>2. CASE ~ FetchCompanyFacts(r)
  <2>1. fetched'[r] = fetched[r]
    BY <1>2
    DEF StoringInv, FactsTypeOK, FactsNext, FilingAppears, FetchCompanyFacts, StoreFact,
        StoreRaises, EndStore, Ask, LookupGroup, LookupGroupRaises, factsVars, storingVars
  <2>2. UpToDate(i) \/ Waits(r, i)
    BY <2>1 DEF StoringInv, Waits
  <2>3. i.filed \in Nat
    BY <1>0, <2>1, ItemType
  <2>4. CASE UpToDate(i)
    BY <2>3, <2>4, RowType, RowsNeverOlder, UpToDateKept DEF StoringInv
  <2>5. CASE Waits(r, i)
    <3>1. PICK j \in pending[r] : Key(j) = Key(i) /\ j.filed >= i.filed
      BY <2>5 DEF Waits
    <3>2. CASE j \in pending'[r]
      BY <3>1, <3>2
    <3>3. CASE j \notin pending'[r]
      <4>1. StoreFact(r) /\ Upsert(j)
        BY <1>2, <2>1, <3>3
        DEF StoringInv, FactsTypeOK, FactsNext, FilingAppears, FetchCompanyFacts, StoreFact,
            StoreRaises, EndStore, Ask, LookupGroup, LookupGroupRaises, factsVars, storingVars
      <4>2. j.filed \in Nat /\ Row(j).filed = j.filed
        BY ItemType DEF StoringInv, FactsTypeOK, Row
      <4>3. \A l \in DOMAIN table : table[l].filed \in Nat
        BY RowType DEF StoringInv
      <4>4. Key(j) \in DOMAIN table' /\ table'[Key(j)].filed >= j.filed
        BY <4>1, <4>2, <4>3, UpsertKeeps
      <4>5. table'[Key(j)].filed \in Nat
        BY <4>1, <4>2, <4>3, <4>4, UpsertKeeps, RowsNeverOlder
      <4>6. Key(i) \in DOMAIN table' /\ table'[Key(i)].filed >= i.filed
        BY <2>3, <3>1, <4>2, <4>4, <4>5
      <4> QED
        BY <4>6 DEF UpToDate, Key
    <3> QED
      BY <3>2, <3>3
  <2> QED
    BY <2>2, <2>4, <2>5
<1> QED
  BY <1>1, <1>2

(* What was stored to the end stays, and a request that ends its storing   *)
(* waits for nothing.                                                      *)
LEMMA StoredVersionStep ==
  ASSUME StoringInv, [FactsNext]_factsVars
  PROVE  StoredVersionHolds'
<1> SUFFICES ASSUME NEW v \in stored', NEW i \in Range(Documents[v]), i.annual
             PROVE  UpToDate(i)'
  BY DEF StoredVersionHolds
<1>0. version \in DOMAIN Documents /\ stored \subseteq 1..version /\ fetched \in [Requests -> 0..version]
  BY DEF StoringInv, FactsTypeOK
<1>1. UpToDate(i) /\ v \in 1..version
  <2>1. CASE v \in stored
    BY <1>0, <2>1 DEF StoringInv, StoredVersionHolds
  <2>2. CASE v \notin stored
    <3>1. PICK r \in Requests : EndStore(r) /\ v = fetched[r]
      BY <2>2
      DEF FactsNext, FilingAppears, FetchCompanyFacts, StoreFact, StoreRaises, EndStore,
          Ask, LookupGroup, LookupGroupRaises, factsVars, storingVars
    <3>2. v # 0 /\ pending[r] = {}
      BY <3>1 DEF EndStore
    <3>3. v \in 1..version
      <4>1. version \in Nat
        BY <1>0, FactsAssumption
      <4> QED
        BY <1>0, <3>1, <3>2, <4>1
    <3> QED
      BY <3>1, <3>2, <3>3 DEF StoringInv
  <2> QED
    BY <2>1, <2>2
<1>2. i.filed \in Nat
  BY <1>0, <1>1, ItemType
<1> QED
  BY <1>1, <1>2, RowType, RowsNeverOlder, UpToDateKept DEF StoringInv

LEMMA StoringStep ==
  StoringInv /\ [FactsNext]_factsVars => StoringInv'
<1> SUFFICES ASSUME StoringInv, [FactsNext]_factsVars
             PROVE  StoringInv'
  OBVIOUS
<1>1. FactsTypeOK'
  BY FactsTypeStep DEF StoringInv
<1>2. ASSUME NEW r \in Requests, NEW i \in pending'[r]
      PROVE  i.annual
  <2>1. CASE i \in pending[r]
    BY <2>1 DEF StoringInv
  <2>2. CASE i \notin pending[r]
    <3>1. pending'[r] = ExtractAnnualFacts(Documents[version])
      BY <1>2, <2>2
      DEF StoringInv, FactsTypeOK, FactsNext, FilingAppears, FetchCompanyFacts, StoreFact,
          StoreRaises, EndStore, Ask, LookupGroup, LookupGroupRaises, factsVars, storingVars
    <3> QED
      BY <1>2, <3>1, KeptAreEntries
  <2> QED
    BY <2>1, <2>2
<1>3. \A r \in Requests : fetched'[r] # 0 =>
        \A i \in Range(Documents[fetched'[r]]) : i.annual =>
          UpToDate(i)' \/ \E j \in pending'[r] : Key(j) = Key(i) /\ j.filed >= i.filed
  BY WaitsOrStored
<1> QED
  BY <1>1, <1>2, <1>3, RowsAsReportedStep, StoredVersionStep DEF StoringInv, Key

-----------------------------------------------------------------------------
(* StoringInv holds of every reachable state. *)
LEMMA StoringInductive == FactsSpec => []StoringInv
  BY StoringInit, StoringStep, PTL DEF FactsSpec

(* Every version a request stores is one EDGAR has served, what it still   *)
(* has to store are entries of those, and a question whose lookups have    *)
(* ended has at most _MAX_FACTS figures (facts_for_question).              *)
THEOREM FactsTypeCorrect == FactsSpec => []FactsTypeOK
<1>1. StoringInv => FactsTypeOK
  BY DEF StoringInv
<1> QED
  BY <1>1, StoringInductive, PTL

(* A row's value and filing date come from one entry of the document, an   *)
(* annual one, however many requests write the row (store_financial_facts).*)
THEOREM RowsAsReportedCorrect == FactsSpec => []RowsAsReported
<1>1. StoringInv => RowsAsReported
  BY DEF StoringInv
<1> QED
  BY <1>1, StoringInductive, PTL

(* Once a version of the document is stored to the end, the table never    *)
(* lacks a figure of it nor has an older one, whatever the requests that   *)
(* overlap, fail or store older versions do.                               *)
THEOREM StoredVersionHoldsCorrect == FactsSpec => []StoredVersionHolds
<1>1. StoringInv => StoredVersionHolds
  BY DEF StoringInv
<1> QED
  BY <1>1, StoringInductive, PTL

(* No step removes a row or replaces it by one filed earlier.              *)
THEOREM FiguresNeverOlderCorrect == FactsSpec => FiguresNeverOlder
<1>1. StoringInv /\ [FactsNext]_factsVars =>
        [\A k \in DOMAIN table : k \in DOMAIN table' /\ table'[k].filed >= table[k].filed]_factsVars
  BY RowsNeverOlder
<1> QED
  BY <1>1, StoringInductive, PTL DEF FactsSpec, FiguresNeverOlder

(* The loop over the rows of a year keeps the one of the preferred concept,*)
(* whatever order the database returns them in, and a question that names  *)
(* no year gets the latest (_lookup_group).                                *)
THEOREM PriorityWinsCorrect == FactsSpec => PriorityWins
<1>1. StoringInv /\ [FactsNext]_factsVars =>
        [\A t \in Readers :
           Len(chunks'[t]) > Len(chunks[t]) =>
             LET g == Head(asked[t])
                 rows == {k \in DOMAIN table : k[1] \in Range(g)}
                 years == question[t].years
             IN /\ years = <<>> => Len(chunks'[t]) = Len(chunks[t]) + 1
                /\ \A n \in Len(chunks[t]) + 1 .. Len(chunks'[t]) :
                     LET c == chunks'[t][n] IN
                     /\ years # <<>> => YearOf[c.end] \in Range(years)
                     /\ \A k \in rows :
                          /\ YearOf[k[2]] = YearOf[c.end] =>
                               IndexIn(g, c.concept) <= IndexIn(g, k[1])
                          /\ years = <<>> => YearOf[k[2]] <= YearOf[c.end]]_factsVars
  BY PriorityStep DEF StoringInv
<1> QED
  BY <1>1, StoringInductive, PTL DEF FactsSpec, PriorityWins
=============================================================================
