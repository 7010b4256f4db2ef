---------------------------- MODULE FinancialFacts ----------------------------
(***************************************************************************)
(* The XBRL figures of one company, from EDGAR's companyfacts document to  *)
(* the context of a question.  Ingestion requests download the document,   *)
(* keep the annual figures (of the same figure, the one filed last) and    *)
(* upsert them row by row, each row its own transaction; requests overlap  *)
(* and the document grows between their downloads.  The query API looks    *)
(* figures up one group of concepts after the other.                       *)
(*                                                                         *)
(* Concepts are numbered in alphabetical order and dates in time order.    *)
(***************************************************************************)
EXTENDS Naturals, Sequences, SequencesExt, FiniteSetsExt

CONSTANTS
  Documents,  \* successive versions of the document, sequences of Items
  YearOf,     \* YearOf[p]: calendar year of period end p
  Groups,     \* _METRIC_KEYWORDS: sequences of concepts, the first preferred
  Questions,  \* [groups : Seq(Groups), years : Seq(Nat)]
  MaxFacts,   \* _MAX_FACTS
  Requests, Readers

(* An entry of the document; annual: a 10-K's figure for a fiscal year.    *)
Items == [concept : Nat, end : DOMAIN YearOf, filed : Nat, value : Nat, annual : BOOLEAN]

ASSUME FactsAssumption ==
  /\ Documents \in Seq(Seq(Items)) \ {<<>>}
  /\ \A v \in 1..Len(Documents) - 1 : IsPrefix(Documents[v], Documents[v + 1])
  /\ YearOf \in [DOMAIN YearOf -> Nat]
  /\ Groups \subseteq Seq(Nat)
  /\ Questions \subseteq [groups : Seq(Groups), years : Seq(Nat)]
  /\ MaxFacts \in Nat

VARIABLES
  version,   \* the document EDGAR serves
  table,     \* financial_facts: table[<<concept, end>>] is [filed, value]
  fetched,   \* version a request has downloaded, 0 when it has not
  pending,   \* its figures not yet upserted
  stored,    \* history: versions a request has stored to the end
  question,  \* of a reader
  asked,     \* groups it has not looked up
  chunks     \* figures found, [concept, end, value]

storingVars == <<fetched, pending, stored>>
readVars == <<question, asked, chunks>>
factsVars == <<version, table, storingVars, readVars>>

NoQuestion == [groups |-> <<>>, years |-> <<>>]

FactsInit ==
  /\ version = 1
  /\ table = <<>>
  /\ fetched = [r \in Requests |-> 0]
  /\ pending = [r \in Requests |-> {}]
  /\ stored = {}
  /\ question = [t \in Readers |-> NoQuestion]
  /\ asked = [t \in Readers |-> <<>>]
  /\ chunks = [t \in Readers |-> <<>>]

-----------------------------------------------------------------------------
(* extract_annual_facts *)

Key(i) == <<i.concept, i.end>>

(* Faulty variant: the entry seen last wins. *)
SupersedesAlways(document, n, m) == n > m

(* Of two entries for one figure, the n-th and the m-th, the n-th is kept. *)
Supersedes(document, n, m) ==
  \/ document[n].filed > document[m].filed
  \/ document[n].filed = document[m].filed /\ n < m

ExtractAnnualFacts(document) ==
  LET annual == {n \in DOMAIN document : document[n].annual}
      best == {n \in annual : \A m \in annual \ {n} :
                 Key(document[m]) = Key(document[n]) => Supersedes(document, n, m)}
  IN  {document[n] : n \in best}

(* The order the figures are stored in. *)
SortedBefore(i, j) == i.concept < j.concept \/ (i.concept = j.concept /\ i.end < j.end)

(* EDGAR: another 10-K is filed. *)
FilingAppears ==
  /\ version < Len(Documents)
  /\ version' = version + 1
  /\ UNCHANGED <<table, storingVars, readVars>>

FetchCompanyFacts(r) ==
  /\ fetched[r] = 0
  /\ fetched' = [fetched EXCEPT ![r] = version]
  /\ pending' = [pending EXCEPT ![r] = ExtractAnnualFacts(Documents[version])]
  /\ UNCHANGED <<version, table, stored, readVars>>

(* store_financial_facts *)

Set(f, k, v) == [x \in DOMAIN f \cup {k} |-> IF x = k THEN v ELSE f[x]]

Row(i) == [filed |-> i.filed, value |-> i.value]

(* Faulty variant: DO UPDATE without its WHERE. *)
UpsertUnguarded(i) == table' = Set(table, Key(i), Row(i))

(* Faulty variant: DO UPDATE does not set filed. *)
UpsertKeepsFiled(i) ==
  table' = IF Key(i) \notin DOMAIN table THEN Set(table, Key(i), Row(i))
           ELSE IF i.filed >= table[Key(i)].filed
                THEN Set(table, Key(i), [table[Key(i)] EXCEPT !.value = i.value]) ELSE table

(* INSERT ... ON CONFLICT DO UPDATE ... WHERE EXCLUDED.filed >= filed *)
Upsert(i) ==
  table' = IF Key(i) \in DOMAIN table => i.filed >= table[Key(i)].filed
             THEN Set(table, Key(i), Row(i)) ELSE table

StoreFact(r) ==
  /\ \E i \in pending[r] :
       /\ \A j \in pending[r] \ {i} : SortedBefore(i, j)
       /\ Upsert(i)
       /\ pending' = [pending EXCEPT ![r] = @ \ {i}]
  /\ UNCHANGED <<version, fetched, stored, readVars>>

(* The statement fails or the process dies: the rows before it stay. *)
StoreRaises(r) ==
  /\ pending[r] # {}
  /\ pending' = [pending EXCEPT ![r] = {}]
  /\ fetched' = [fetched EXCEPT ![r] = 0]
  /\ UNCHANGED <<version, table, stored, readVars>>

EndStore(r) ==
  /\ fetched[r] # 0 /\ pending[r] = {}
  /\ stored' = stored \cup {fetched[r]}
  /\ fetched' = [fetched EXCEPT ![r] = 0]
  /\ UNCHANGED <<version, table, pending, readVars>>

-----------------------------------------------------------------------------
(* facts_for_question *)

Ask(t) ==
  /\ asked[t] = <<>>
  /\ \E q \in Questions :
       /\ question' = [question EXCEPT ![t] = q]
       /\ asked' = [asked EXCEPT ![t] = q.groups]
  /\ chunks' = [chunks EXCEPT ![t] = <<>>]
  /\ UNCHANGED <<version, table, storingVars>>

IndexIn(g, c) == CHOOSE n \in DOMAIN g : g[n] = c

(* Faulty variant: any row replaces the one before it. *)
PreferredLast(g, k, year, byYear) == TRUE

Preferred(g, k, year, byYear) ==
  year \in DOMAIN byYear => IndexIn(g, k[1]) < IndexIn(g, byYear[year][1])

(* Keys of the rows chosen by year, for rows that arrive in the order s. *)
ByYear(g, s) ==
  LET upTo[n \in 0..Len(s)] ==
        IF n = 0 THEN <<>>
        ELSE IF Preferred(g, s[n], YearOf[s[n][2]], upTo[n - 1])
        THEN Set(upTo[n - 1], YearOf[s[n][2]], s[n]) ELSE upTo[n - 1]
  IN  upTo[Len(s)]

(* Of the years asked for those that are there, or the latest. *)
SelectedYears(byYear, years) ==
  LET present[n \in 0..Len(years)] ==
        IF n = 0 THEN <<>>
        ELSE IF years[n] \in DOMAIN byYear THEN Append(present[n - 1], years[n])
        ELSE present[n - 1]
  IN  IF years # <<>> THEN present[Len(years)]
      ELSE IF DOMAIN byYear = {} THEN <<>> ELSE <<Max(DOMAIN byYear)>>

(* Faulty variant: the figures of several groups are not capped. *)
CappedNever(s) == s

Capped(s) == IF Len(s) <= MaxFacts THEN s ELSE [n \in 1..MaxFacts |-> s[n]]

(* Rows come by descending year, and those of a year in any order. *)
LookupGroup(t) ==
  /\ asked[t] # <<>>
  /\ LET g == Head(asked[t])
         rows == {k \in DOMAIN table : k[1] \in Range(g)}
     IN \E s \in SetToSeqs(rows) :
          /\ \A m, n \in DOMAIN s : m < n => YearOf[s[m][2]] >= YearOf[s[n][2]]
          /\ LET byYear == ByYear(g, s)
                 years == SelectedYears(byYear, question[t].years)
                 found == [n \in DOMAIN years |->
                             LET k == byYear[years[n]] IN
                             [concept |-> k[1], end |-> k[2], value |-> table[k].value]]
                 all == chunks[t] \o found
             IN chunks' = [chunks EXCEPT ![t] = IF Len(asked[t]) = 1 THEN Capped(all) ELSE all]
  /\ asked' = [asked EXCEPT ![t] = Tail(@)]
  /\ UNCHANGED <<version, table, storingVars, question>>

(* A failed lookup means no figures at all, never a failed query. *)
LookupGroupRaises(t) ==
  /\ asked[t] # <<>>
  /\ asked' = [asked EXCEPT ![t] = <<>>]
  /\ chunks' = [chunks EXCEPT ![t] = <<>>]
  /\ UNCHANGED <<version, table, storingVars, question>>

FactsNext ==
  \/ FilingAppears
  \/ \E r \in Requests : FetchCompanyFacts(r) \/ StoreFact(r) \/ StoreRaises(r) \/ EndStore(r)
  \/ \E t \in Readers : Ask(t) \/ LookupGroup(t) \/ LookupGroupRaises(t)

FactsSpec == FactsInit /\ [][FactsNext]_factsVars

-----------------------------------------------------------------------------
AllItems == UNION {Range(Documents[v]) : v \in 1..version}

Figures == [concept : Nat, end : DOMAIN YearOf, value : Nat]

FactsTypeOK ==
  /\ version \in DOMAIN Documents
  /\ fetched \in [Requests -> 0..version]
  /\ pending \in [Requests -> SUBSET AllItems]
  /\ stored \subseteq 1..version
  /\ IsFiniteSet(DOMAIN table) /\ DOMAIN table \subseteq Nat \X DOMAIN YearOf
  /\ table \in [DOMAIN table -> [filed : Nat, value : Nat]]
  /\ question \in [Readers -> Questions \cup {NoQuestion}]
  /\ asked \in [Readers -> Seq(Groups)]
  /\ chunks \in [Readers -> Seq(Figures)]
  /\ \A t \in Readers : asked[t] # <<>> \/ Len(chunks[t]) <= MaxFacts

(* A row is a figure as some 10-K reported it: its value and its filing    *)
(* date belong together, and it is annual.                                 *)
RowsAsReported ==
  \A k \in DOMAIN table :
    \E i \in AllItems : i.annual /\ Key(i) = k /\ Row(i) = table[k]

(* "Restated values from later filings overwrite earlier ones", and never  *)
(* the other way round: a request still storing an older document does not *)
(* undo what a later one has stored.                                       *)
FiguresNeverOlder ==
  [][\A k \in DOMAIN table : k \in DOMAIN table' /\ table'[k].filed >= table[k].filed]_factsVars

(* The row for the figure of entry i is i's or a later filing's. *)
UpToDate(i) == Key(i) \in DOMAIN table /\ table[Key(i)].filed >= i.filed

(* Once some request has stored a version of the document to the end, no   *)
(* figure is missing or older than in that version, whatever other         *)
(* requests, interrupted or not, stored before, meanwhile and after.       *)
StoredVersionHolds ==
  \A v \in stored : \A i \in Range(Documents[v]) : i.annual => UpToDate(i)

(* _lookup_group: "per fiscal year, the highest-priority concept with data *)
(* wins".  When a group is looked up, a figure of one of its concepts      *)
(* stands beside no row of the same year with a preferred one, and is of a *)
(* year asked for; when no year is named there is one figure, of the most  *)
(* recent.                                                                 *)
PriorityWins ==
  [][\A t \in Readers :
       Len(chunks'[t]) > Len(chunks[t]) =>
         LET g == Head(asked[t])
             rows == {k \in DOMAIN table : k[1] \in Range(g)}
             years == question[t].years
         IN /\ years = <<>> => Len(chunks'[t]) = Len(chunks[t]) + 1
            /\ \A n \in Len(chunks[t]) + 1 .. Len(chunks'[t]) :
                 LET c == chunks'[t][n] IN
                 /\ years # <<>> => YearOf[c.end] \in Range(years)
                 /\ \A k \in rows :
                      /\ YearOf[k[2]] = YearOf[c.end] => IndexIn(g, c.concept) <= IndexIn(g, k[1])
                      /\ years = <<>> => YearOf[k[2]] <= YearOf[c.end]]_factsVars

(* The strengthening of RowsAsReported and StoredVersionHolds: of each      *)
(* figure of the version it stores, a request has still the latest before   *)
(* it, or the table has it or a later one.                                  *)
StoringInv ==
  /\ FactsTypeOK
  /\ RowsAsReported
  /\ StoredVersionHolds
  /\ \A r \in Requests : \A i \in pending[r] : i.annual
  /\ \A r \in Requests : fetched[r] # 0 =>
       \A i \in Range(Documents[fetched[r]]) : i.annual =>
         UpToDate(i) \/ \E j \in pending[r] : Key(j) = Key(i) /\ j.filed >= i.filed
=============================================================================
