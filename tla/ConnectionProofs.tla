--------------------------- MODULE ConnectionProofs ---------------------------
(***************************************************************************)
(* The two connections of psycopg2 that threads share without the lock of  *)
(* the search session: the facts lookup's of the query API, and the chunk  *)
(* store's of the embedding worker.  The models have no state in common;   *)
(* their proofs stand side by side, for any number of threads, concept     *)
(* groups, statements, outages and errors.                                 *)
(***************************************************************************)
EXTENDS FactsConnection, StoreConnection, SequenceTheorems, TLAPS

(***************************************************************************)
(* OnlyReconnectsFail and UnsetOnlyIfOvertaken.  What carries the first is *)
(* that the connection another thread puts in place is as good as the one  *)
(* a lookup expected: alive, open, and not in an aborted transaction       *)
(* (Undisturbed).                                                          *)
(***************************************************************************)
USE FactsConnectionAssumption

(* A member of conns replaced by another record. *)
LEMMA OneReplaced ==
  ASSUME NEW s \in Seq(Connections), NEW i \in DOMAIN s, NEW r \in Connections
  PROVE  /\ [s EXCEPT ![i] = r] \in Seq(Connections)
         /\ DOMAIN [s EXCEPT ![i] = r] = DOMAIN s
         /\ \A c \in DOMAIN s : [s EXCEPT ![i] = r][c] = IF c = i THEN r ELSE s[c]
<1>1. DOMAIN s = 1..Len(s)
  OBVIOUS
<1>2. [s EXCEPT ![i] = r] \in Seq(Connections)
  BY <1>1, ExceptSeq
<1> QED
  BY <1>2

(* A statement changes the transaction of a connection, or nothing. *)
LEMMA InTransactionType ==
  ASSUME NEW c \in Connections, NEW state \in {"open", "aborted"}
  PROVE  /\ InTransaction(c, state) \in Connections
         /\ InTransaction(c, state).alive = c.alive
         /\ InTransaction(c, state).closed = c.closed
         /\ InTransaction(c, state).autocommit = c.autocommit
         /\ c.autocommit => InTransaction(c, state) = c
         /\ ~c.autocommit => InTransaction(c, state).transaction = state
  BY DEF InTransaction, Connections

(* connect() publishes a fresh connection and keeps the others. *)
LEMMA ConnectAdds ==
  ASSUME FactsConnTypeOK, NEW t \in Threads, Connect(t)
  PROVE  /\ conns' \in Seq(Connections)
         /\ conn' = Len(conns) + 1
         /\ DOMAIN conns' = DOMAIN conns \cup {conn'}
         /\ \A c \in DOMAIN conns : conns'[c] = conns[c]
         /\ conns'[conn'] = Fresh
<1>1. conns \in Seq(Connections) /\ Fresh \in Connections
  BY DEF FactsConnTypeOK, Fresh, Connections
<1>2. conns' = Append(conns, Fresh) /\ conn' = Len(conns) + 1
  BY DEF Connect
<1>3. /\ conns' \in Seq(Connections)
      /\ Len(conns') = Len(conns) + 1
      /\ \A c \in 1..Len(conns) : conns'[c] = conns[c]
      /\ conns'[Len(conns) + 1] = Fresh
  BY <1>1, <1>2, AppendProperties
<1>4. DOMAIN conns = 1..Len(conns) /\ DOMAIN conns' = 1..(Len(conns) + 1) /\ Len(conns) \in Nat
  BY <1>1, <1>3
<1> QED
  BY <1>2, <1>3, <1>4

(* Setting autocommit touches the current connection only. *)
LEMMA SetAutocommitConns ==
  ASSUME FactsConnTypeOK, NEW t \in Threads, SetAutocommit(t)
  PROVE  /\ conns' \in Seq(Connections)
         /\ DOMAIN conns' = DOMAIN conns
         /\ \A c \in DOMAIN conns :
              conns'[c] = IF c = conn THEN [conns[c] EXCEPT !.autocommit = TRUE] ELSE conns[c]
<1> DEFINE r == [conns[conn] EXCEPT !.autocommit = TRUE]
<1>1. conn \in DOMAIN conns /\ conns \in Seq(Connections)
  BY DEF FactsConnTypeOK
<1>2. conns[conn] \in Connections
  BY <1>1, ElementOfSeq
<1>3. r \in Connections
  BY <1>2 DEF Connections
<1>4. conns' = [conns EXCEPT ![conn] = r]
  BY DEF SetAutocommit
<1> HIDE DEF r
<1>5. /\ conns' \in Seq(Connections)
      /\ DOMAIN conns' = DOMAIN conns
      /\ \A c \in DOMAIN conns : conns'[c] = IF c = conn THEN r ELSE conns[c]
  BY <1>1, <1>3, <1>4, OneReplaced
<1> QED
  BY <1>5 DEF r

(* A statement that was sent opens or aborts the transaction of its own    *)
(* connection, if that is without autocommit.                              *)
LEMMA StatementConns ==
  ASSUME FactsConnTypeOK, NEW t \in Threads, NEW state \in {"open", "aborted"},
         conns' = [conns EXCEPT ![cursor[t]] = InTransaction(@, state)]
  PROVE  /\ conns' \in Seq(Connections)
         /\ DOMAIN conns' = DOMAIN conns
         /\ \A c \in DOMAIN conns :
              conns'[c] = IF c = cursor[t] THEN InTransaction(conns[c], state) ELSE conns[c]
<1> DEFINE r == InTransaction(conns[cursor[t]], state)
<1>1. cursor[t] \in DOMAIN conns /\ conns \in Seq(Connections)
  BY DEF FactsConnTypeOK
<1>2. conns[cursor[t]] \in Connections
  BY <1>1, ElementOfSeq
<1>3. r \in Connections
  BY <1>2, InTransactionType
<1>4. conns' = [conns EXCEPT ![cursor[t]] = r]
  OBVIOUS
<1> HIDE DEF r
<1>5. /\ conns' \in Seq(Connections)
      /\ DOMAIN conns' = DOMAIN conns
      /\ \A c \in DOMAIN conns : conns'[c] = IF c = cursor[t] THEN r ELSE conns[c]
  BY <1>1, <1>3, <1>4, OneReplaced
<1> QED
  BY <1>5 DEF r

(* A failed statement closes a connection that is broken, and no other. *)
LEMMA ExecuteRaisesConns ==
  ASSUME FactsConnTypeOK, NEW t \in Threads, ExecuteRaises(t)
  PROVE  /\ conns' \in Seq(Connections)
         /\ DOMAIN conns' = DOMAIN conns
         /\ \A c \in DOMAIN conns :
              /\ conns'[c].alive = conns[c].alive
              /\ conns'[c].autocommit = conns[c].autocommit
              /\ conns'[c].transaction = conns[c].transaction
              /\ conns[c].closed => conns'[c].closed
              /\ conns[c].alive => conns'[c].closed = conns[c].closed
<1> DEFINE x == conns[cursor[t]]
           r == [x EXCEPT !.closed = x.closed \/ ~x.alive]
<1>1. cursor[t] \in DOMAIN conns /\ conns \in Seq(Connections)
  BY DEF FactsConnTypeOK
<1>2. \A c \in DOMAIN conns : conns[c] \in Connections
  BY <1>1, ElementOfSeq
<1>3. /\ r \in Connections
      /\ r.alive = x.alive /\ r.autocommit = x.autocommit /\ r.transaction = x.transaction
      /\ r.closed = (x.closed \/ ~x.alive)
  BY <1>1, <1>2 DEF Connections
<1>4. conns' = [conns EXCEPT ![cursor[t]] = r]
  BY DEF ExecuteRaises
<1> HIDE DEF r
<1>5. /\ conns' \in Seq(Connections)
      /\ DOMAIN conns' = DOMAIN conns
      /\ \A c \in DOMAIN conns : conns'[c] = IF c = cursor[t] THEN r ELSE conns[c]
  BY <1>1, <1>3, <1>4, OneReplaced
<1>6. x.closed \in BOOLEAN /\ x.alive \in BOOLEAN
  BY <1>1, <1>2 DEF Connections
<1> QED
  BY <1>3, <1>5, <1>6

(* All connections break; nothing else about them changes. *)
LEMMA StopConns ==
  ASSUME FactsConnTypeOK, PostgresStops
  PROVE  /\ conns' \in Seq(Connections)
         /\ DOMAIN conns' = DOMAIN conns
         /\ \A c \in DOMAIN conns :
              /\ conns'[c].closed = conns[c].closed
              /\ conns'[c].autocommit = conns[c].autocommit
              /\ conns'[c].transaction = conns[c].transaction
<1> DEFINE e(c) == [conns[c] EXCEPT !.alive = FALSE]
<1>0. conns \in Seq(Connections)
  BY DEF FactsConnTypeOK
<1>1. conns \in Seq(Connections) /\ DOMAIN conns = 1..Len(conns) /\ Len(conns) \in Nat
  BY <1>0
<1>2. \A c \in 1..Len(conns) : conns[c] \in Connections
  BY <1>1, ElementOfSeq
<1>3. \A c \in 1..Len(conns) :
        /\ e(c) \in Connections
        /\ e(c).closed = conns[c].closed
        /\ e(c).autocommit = conns[c].autocommit
        /\ e(c).transaction = conns[c].transaction
  BY <1>2 DEF Connections
<1>4. conns' = [c \in 1..Len(conns) |-> e(c)]
  BY <1>1 DEF PostgresStops
<1> HIDE DEF e
<1>5. [c \in 1..Len(conns) |-> e(c)] \in Seq(Connections)
  BY <1>1, <1>3, IsASeq
<1> QED
  BY <1>1, <1>3, <1>4, <1>5

-----------------------------------------------------------------------------
(* Every connection is a record, and the first of them is there. *)
LEMMA ConnsFacts ==
  ASSUME FactsConnTypeOK
  PROVE  /\ \A c \in DOMAIN conns : conns[c] \in Connections
         /\ conn \in DOMAIN conns /\ 1 \in DOMAIN conns
<1>1. conns \in Seq(Connections) /\ conn \in DOMAIN conns
  BY DEF FactsConnTypeOK
<1>2. DOMAIN conns = 1..Len(conns) /\ Len(conns) \in Nat
  BY <1>1
<1>3. \A c \in DOMAIN conns : conns[c] \in Connections
  BY <1>1, <1>2, ElementOfSeq
<1> QED
  BY <1>1, <1>2, <1>3

(* Initially the types are right. *)
LEMMA FactsConnTypeInit == FactsConnInit => FactsConnTypeOK
<1> SUFFICES ASSUME FactsConnInit
             PROVE  FactsConnTypeOK
  OBVIOUS
<1> DEFINE r == [Fresh EXCEPT !.autocommit = TRUE]
<1>1. conns \in Seq(Connections) /\ DOMAIN conns = {1}
  <2>1. r \in Connections
    BY DEF Fresh, Connections
  <2>2. conns = <<r>>
    BY DEF FactsConnInit
  <2> QED
    BY <2>1, <2>2
<1> QED
  BY <1>1 DEF FactsConnInit, FactsConnTypeOK

(* The end of a lookup resets its locals. *)
LEMMA EndLookupTypes ==
  ASSUME FactsConnTypeOK, NEW t \in Threads, NEW o \in {"facts", "no facts"}, EndLookup(t, o)
  PROVE  /\ pc' \in [Threads -> {"idle", "get", "connect", "autocommit", "cursor", "execute"}]
         /\ cursor' \in [Threads -> DOMAIN conns]
         /\ groups' \in [Threads -> Nat]
         /\ \A u \in Threads : pc'[u] # "idle" => groups'[u] > 0
         /\ outcome' \in [Threads -> {"none", "facts", "no facts"}]
         /\ pc'[t] = "idle" /\ outcome'[t] = o
         /\ \A u \in Threads \ {t} :
              pc'[u] = pc[u] /\ cursor'[u] = cursor[u] /\ outcome'[u] = outcome[u]
  BY ConnsFacts DEF FactsConnTypeOK, EndLookup, Goto

(* Every step keeps the types. *)
LEMMA FactsConnTypeStep ==
  ASSUME FactsConnTypeOK, FactsConnNext
  PROVE  FactsConnTypeOK'
<1>1. ASSUME NEW t \in Threads, FactsForQuestion(t)
      PROVE  FactsConnTypeOK'
  <2>1. conns[conn] \in Connections
    BY ConnsFacts
  <2>2. PICK n \in 1..MaxGroups : groups' = [groups EXCEPT ![t] = n]
    BY <1>1 DEF FactsForQuestion
  <2>3. n \in Nat /\ n > 0
    BY <2>2
  <2>4. clean' \in [Threads -> BOOLEAN]
    BY <1>1, <2>1 DEF FactsForQuestion, FactsConnTypeOK, Connections
  <2> QED
    BY <1>1, <2>2, <2>3, <2>4 DEF FactsConnTypeOK, FactsForQuestion, Goto, dbVars
<1>2. ASSUME NEW t \in Threads, GetConn(t)
      PROVE  FactsConnTypeOK'
  BY <1>2 DEF FactsConnTypeOK, GetConn, Goto, dbVars, lookupVars, historyVars
<1>3. ASSUME NEW t \in Threads, Connect(t)
      PROVE  FactsConnTypeOK'
  BY <1>3, ConnectAdds DEF FactsConnTypeOK, Connect, Goto, dbVars, lookupVars
<1>4. ASSUME NEW t \in Threads, ConnectFails(t) \/ SetAutocommitRaises(t) \/ OpenCursorRaises(t)
      PROVE  FactsConnTypeOK'
  <2>1. EndLookup(t, "no facts") /\ UNCHANGED <<dbVars, conns, conn, historyVars>>
    BY <1>4 DEF ConnectFails, SetAutocommitRaises, OpenCursorRaises, LookupRaises
  <2> QED
    BY <2>1, EndLookupTypes DEF FactsConnTypeOK, dbVars, historyVars
<1>5. ASSUME NEW t \in Threads, SetAutocommit(t)
      PROVE  FactsConnTypeOK'
  BY <1>5, SetAutocommitConns DEF FactsConnTypeOK, SetAutocommit, Goto, dbVars, lookupVars, historyVars
<1>6. ASSUME NEW t \in Threads, OpenCursor(t)
      PROVE  FactsConnTypeOK'
  BY <1>6 DEF FactsConnTypeOK, OpenCursor, Goto, dbVars, historyVars
<1>7. ASSUME NEW t \in Threads, Execute(t)
      PROVE  FactsConnTypeOK'
  <2>1. conns' \in Seq(Connections) /\ DOMAIN conns' = DOMAIN conns
    BY <1>7, StatementConns DEF Execute
  <2>2. UNCHANGED <<up, outages, errors, conn, reconnected, clean>> /\ pc[t] = "execute"
    BY <1>7 DEF Execute, dbVars, historyVars
  <2>3. CASE groups[t] = 1
    <3>1. EndLookup(t, "facts")
      BY <1>7, <2>3 DEF Execute
    <3> QED
      BY <2>1, <2>2, <3>1, EndLookupTypes DEF FactsConnTypeOK
  <2>4. CASE groups[t] # 1
    <3>1. groups[t] - 1 \in Nat /\ groups[t] - 1 > 0
      <4>1. groups[t] \in Nat /\ groups[t] > 0
        BY <2>2 DEF FactsConnTypeOK
      <4> QED
        BY <2>4, <4>1
    <3>2. /\ pc' = [pc EXCEPT ![t] = "get"]
          /\ groups' = [groups EXCEPT ![t] = groups[t] - 1]
          /\ UNCHANGED <<cursor, outcome>>
      BY <1>7, <2>4 DEF Execute, Goto
    <3> QED
      BY <2>1, <2>2, <3>1, <3>2 DEF FactsConnTypeOK
  <2> QED
    BY <2>3, <2>4
<1>8. ASSUME NEW t \in Threads, ExecuteRaises(t)
      PROVE  FactsConnTypeOK'
  <2>1. EndLookup(t, "no facts") /\ UNCHANGED <<dbVars, conn, historyVars>>
    BY <1>8 DEF ExecuteRaises, LookupRaises
  <2> QED
    BY <1>8, <2>1, EndLookupTypes, ExecuteRaisesConns DEF FactsConnTypeOK, dbVars, historyVars
<1>9. ASSUME NEW t \in Threads, StatementError(t)
      PROVE  FactsConnTypeOK'
  <2>1. EndLookup(t, "no facts") /\ UNCHANGED <<up, outages, conn, reconnected>>
    BY <1>9 DEF StatementError, LookupRaises
  <2>2. conns' \in Seq(Connections) /\ DOMAIN conns' = DOMAIN conns
    BY <1>9, StatementConns DEF StatementError
  <2>3. clean' \in [Threads -> BOOLEAN]
    <3>1. cursor[t] \in DOMAIN conns /\ clean \in [Threads -> BOOLEAN]
      BY DEF FactsConnTypeOK
    <3>2. conns[cursor[t]].autocommit \in BOOLEAN
      BY <3>1, ConnsFacts DEF Connections
    <3> QED
      BY <1>9, <3>1, <3>2 DEF StatementError
  <2>4. errors' \in Nat
    <3>1. errors \in Nat /\ errors' = errors + 1
      BY <1>9 DEF StatementError, FactsConnTypeOK
    <3> QED
      BY <3>1
  <2> QED
    BY <2>1, <2>2, <2>3, <2>4, EndLookupTypes DEF FactsConnTypeOK
<1>10. CASE PostgresStops
  <2>1. /\ up' = FALSE /\ outages' = outages + 1 /\ clean' = [t \in Threads |-> FALSE]
        /\ UNCHANGED <<errors, conn, pc, cursor, groups, outcome, reconnected>>
    BY <1>10 DEF PostgresStops, lookupVars
  <2>2. outages' \in Nat
    <3>1. outages \in Nat
      BY DEF FactsConnTypeOK
    <3> QED
      BY <2>1, <3>1
  <2> QED
    BY <1>10, <2>1, <2>2, StopConns DEF FactsConnTypeOK
<1>11. CASE PostgresStarts
  BY <1>11 DEF FactsConnTypeOK, PostgresStarts, lookupVars, historyVars
<1> QED
  BY <1>1, <1>2, <1>3, <1>4, <1>5, <1>6, <1>7, <1>8, <1>9, <1>10, <1>11 DEF FactsConnNext

-----------------------------------------------------------------------------
(* UnsetOnlyIfOvertaken is inductive: who gives up setting autocommit does *)
(* so because of a transaction, or because the connection is closed.       *)
LEMMA UnsetStep ==
  ASSUME FactsConnTypeOK, UnsetOnlyIfOvertaken, FactsConnNext
  PROVE  UnsetOnlyIfOvertaken'
<1> USE ConnsFacts
<1>1. ASSUME NEW t \in Threads, FactsForQuestion(t) \/ GetConn(t) \/ OpenCursor(t)
      PROVE  UnsetOnlyIfOvertaken'
  <2>1. UNCHANGED <<conns, conn>> /\ pc[t] # "autocommit"
    BY <1>1 DEF FactsForQuestion, GetConn, OpenCursor
  <2>2. \A u \in Threads \ {t} : pc'[u] = pc[u]
    BY <1>1 DEF FactsForQuestion, GetConn, OpenCursor, Goto, FactsConnTypeOK
  <2> QED
    BY <2>1, <2>2 DEF UnsetOnlyIfOvertaken
<1>2. ASSUME NEW t \in Threads, Connect(t)
      PROVE  UnsetOnlyIfOvertaken'
  <2>1. pc'[t] = "autocommit"
    BY <1>2 DEF Connect, Goto, FactsConnTypeOK
  <2> QED
    BY <2>1 DEF UnsetOnlyIfOvertaken
<1>3. ASSUME NEW t \in Threads, ConnectFails(t) \/ OpenCursorRaises(t)
      PROVE  UnsetOnlyIfOvertaken'
  <2>1. UNCHANGED <<conns, conn>> /\ pc[t] # "autocommit" /\ EndLookup(t, "no facts")
    BY <1>3 DEF ConnectFails, OpenCursorRaises, LookupRaises
  <2> QED
    BY <2>1, EndLookupTypes DEF UnsetOnlyIfOvertaken
<1>4. ASSUME NEW t \in Threads, SetAutocommit(t)
      PROVE  UnsetOnlyIfOvertaken'
  <2>1. conns'[conn'].autocommit
    BY <1>4, SetAutocommitConns DEF SetAutocommit, Connections
  <2> QED
    BY <2>1 DEF UnsetOnlyIfOvertaken
<1>5. ASSUME NEW t \in Threads, SetAutocommitRaises(t)
      PROVE  UnsetOnlyIfOvertaken'
  BY <1>5 DEF SetAutocommitRaises, CanSetAutocommit, UnsetOnlyIfOvertaken
<1>6. ASSUME NEW t \in Threads, Execute(t)
      PROVE  UnsetOnlyIfOvertaken'
  <2>1. conn' = conn /\ pc[t] = "execute"
    BY <1>6 DEF Execute
  <2>2. \A u \in Threads \ {t} : pc'[u] = pc[u]
    BY <1>6, EndLookupTypes DEF Execute, Goto, FactsConnTypeOK
  <2>3. \/ conns'[conn] = conns[conn]
        \/ conns'[conn] = InTransaction(conns[conn], "open")
    BY <1>6, StatementConns DEF Execute
  <2>4. /\ conns'[conn].autocommit = conns[conn].autocommit
        /\ conns'[conn].closed = conns[conn].closed
        /\ conns'[conn].transaction \in {conns[conn].transaction, "open"}
    <3>1. conns[conn] \in Connections
      BY ElementOfSeq DEF FactsConnTypeOK
    <3>2. CASE conns'[conn] = conns[conn]
      BY <3>2
    <3>3. CASE conns'[conn] = InTransaction(conns[conn], "open")
      BY <3>1, <3>3, InTransactionType
    <3> QED
      BY <2>3, <3>2, <3>3
  <2> QED
    BY <2>1, <2>2, <2>4 DEF UnsetOnlyIfOvertaken
<1>7. ASSUME NEW t \in Threads, ExecuteRaises(t)
      PROVE  UnsetOnlyIfOvertaken'
  <2>1. conn' = conn /\ pc[t] = "execute" /\ EndLookup(t, "no facts")
    BY <1>7 DEF ExecuteRaises, LookupRaises
  <2> QED
    BY <1>7, <2>1, EndLookupTypes, ExecuteRaisesConns DEF UnsetOnlyIfOvertaken
<1>8. ASSUME NEW t \in Threads, StatementError(t)
      PROVE  UnsetOnlyIfOvertaken'
  <2>1. conn' = conn /\ pc[t] = "execute" /\ EndLookup(t, "no facts")
    BY <1>8 DEF StatementError, LookupRaises
  <2>2. \/ conns'[conn] = conns[conn]
        \/ conns'[conn] = InTransaction(conns[conn], "aborted")
    BY <1>8, StatementConns DEF StatementError
  <2>3. /\ conns'[conn].autocommit = conns[conn].autocommit
        /\ conns'[conn].closed = conns[conn].closed
        /\ conns'[conn].transaction \in {conns[conn].transaction, "aborted"}
    <3>1. conns[conn] \in Connections
      BY ElementOfSeq DEF FactsConnTypeOK
    <3>2. CASE conns'[conn] = conns[conn]
      BY <3>2
    <3>3. CASE conns'[conn] = InTransaction(conns[conn], "aborted")
      BY <3>1, <3>3, InTransactionType
    <3> QED
      BY <2>2, <3>2, <3>3
  <2> QED
    BY <2>1, <2>3, EndLookupTypes DEF UnsetOnlyIfOvertaken
<1>9. CASE PostgresStops
  <2>1. conn' = conn /\ pc' = pc
    BY <1>9 DEF PostgresStops
  <2> QED
    BY <1>9, <2>1, StopConns DEF UnsetOnlyIfOvertaken
<1>10. CASE PostgresStarts
  BY <1>10 DEF PostgresStarts, UnsetOnlyIfOvertaken
<1> QED
  BY <1>1, <1>2, <1>3, <1>4, <1>5, <1>6, <1>7, <1>8, <1>9, <1>10 DEF FactsConnNext

-----------------------------------------------------------------------------
(* What other threads' steps leave of a lookup's knowledge: its own        *)
(* position and histories are as they were, and connections only improve.  *)
LEMMA StillUndisturbed ==
  ASSUME FactsConnTypeOK, NEW u \in Threads, Undisturbed(u), up',
         pc'[u] = pc[u], cursor'[u] = cursor[u],
         \A c \in DOMAIN conns :
           /\ conns[c].alive => conns'[c].alive /\ (conns'[c].closed => conns[c].closed)
           /\ conns[c].closed => conns'[c].closed
           /\ conns[c].transaction # "aborted" => conns'[c].transaction # "aborted",
         conn' = conn \/ conns'[conn'] = Fresh
  PROVE  Undisturbed(u)'
<1>1. conn \in DOMAIN conns /\ cursor[u] \in DOMAIN conns
  BY DEF FactsConnTypeOK
<1>2. Fresh.alive /\ ~Fresh.closed /\ Fresh.transaction # "aborted"
  BY DEF Fresh
<1> QED
  BY <1>1, <1>2 DEF Undisturbed, Answers

(* An undisturbed lookup stays so until it is disturbed or reconnects.     *)
LEMMA LookupsStep ==
  ASSUME FactsConnTypeOK, Lookups, FactsConnNext
  PROVE  Lookups'
<1> SUFFICES ASSUME NEW u \in Threads, clean'[u], ~reconnected'[u], pc'[u] # "idle"
             PROVE  Undisturbed(u)'
  BY DEF Lookups
<1>a. clean[u] /\ ~reconnected[u] /\ pc[u] # "idle" => Undisturbed(u)
  BY DEF Lookups
<1> USE ConnsFacts
<1>1. ASSUME NEW t \in Threads, FactsForQuestion(t)
      PROVE  Undisturbed(u)'
  <2>1. UNCHANGED <<up, conns, conn, cursor>>
    BY <1>1 DEF FactsForQuestion, dbVars
  <2>2. CASE u = t
    <3>1. pc'[u] = "get"
      BY <1>1, <2>2 DEF FactsForQuestion, Goto, FactsConnTypeOK
    <3>2. up /\ (conns[conn].closed \/ conns[conn].alive) /\ conns[conn].transaction # "aborted"
      BY <1>1, <2>2 DEF FactsForQuestion, FactsConnTypeOK
    <3> QED
      BY <2>1, <3>1, <3>2 DEF Undisturbed
  <2>3. CASE u # t
    <3>1. pc'[u] = pc[u] /\ clean'[u] = clean[u] /\ reconnected'[u] = reconnected[u]
      BY <1>1, <2>3 DEF FactsForQuestion, Goto, FactsConnTypeOK
    <3> QED
      BY <1>a, <2>1, <3>1 DEF Undisturbed
  <2> QED
    BY <2>2, <2>3
<1>2. ASSUME NEW t \in Threads, GetConn(t)
      PROVE  Undisturbed(u)'
  <2>1. /\ UNCHANGED <<up, conns, conn, cursor, reconnected, clean>>
        /\ pc[t] = "get" /\ pc' = [pc EXCEPT ![t] = IF Usable THEN "cursor" ELSE "connect"]
    BY <1>2 DEF GetConn, Goto, dbVars, lookupVars, historyVars
  <2> QED
    BY <1>a, <2>1 DEF Undisturbed, Usable, FactsConnTypeOK
<1>3. ASSUME NEW t \in Threads, Connect(t)
      PROVE  Undisturbed(u)'
  <2>1. u # t
    BY <1>3 DEF Connect, FactsConnTypeOK
  <2>2. /\ pc'[u] = pc[u] /\ clean'[u] = clean[u] /\ reconnected'[u] = reconnected[u]
        /\ up' = up /\ cursor' = cursor
    BY <1>3, <2>1 DEF Connect, Goto, dbVars, lookupVars, FactsConnTypeOK
  <2>3. Undisturbed(u) /\ up'
    BY <1>a, <2>2 DEF Undisturbed
  <2>4. conns'[conn'] = Fresh /\ \A c \in DOMAIN conns : conns'[c] = conns[c]
    BY <1>3, ConnectAdds
  <2> QED
    BY <2>2, <2>3, <2>4, StillUndisturbed
<1>4. ASSUME NEW t \in Threads, ConnectFails(t) \/ SetAutocommitRaises(t) \/ OpenCursorRaises(t)
      PROVE  Undisturbed(u)'
  <2>1. EndLookup(t, "no facts") /\ UNCHANGED <<up, conns, conn, reconnected, clean>>
    BY <1>4 DEF ConnectFails, SetAutocommitRaises, OpenCursorRaises, LookupRaises, dbVars, historyVars
  <2>2. u # t /\ pc'[u] = pc[u] /\ cursor'[u] = cursor[u]
    BY <2>1, EndLookupTypes
  <2> QED
    BY <1>a, <2>1, <2>2 DEF Undisturbed
<1>5. ASSUME NEW t \in Threads, SetAutocommit(t)
      PROVE  Undisturbed(u)'
  <2>1. /\ UNCHANGED <<up, conn, cursor, reconnected, clean>>
        /\ pc[t] = "autocommit" /\ pc' = [pc EXCEPT ![t] = "cursor"]
    BY <1>5 DEF SetAutocommit, Goto, dbVars, lookupVars, historyVars
  <2>2. Undisturbed(u) /\ up'
    BY <1>a, <2>1 DEF Undisturbed, FactsConnTypeOK
  <2>3. u # t /\ pc'[u] = pc[u]
    BY <2>1, <2>2 DEF Undisturbed, FactsConnTypeOK
  <2>4. \A c \in DOMAIN conns :
          /\ conns'[c].alive = conns[c].alive /\ conns'[c].closed = conns[c].closed
          /\ conns'[c].transaction = conns[c].transaction
    BY <1>5, SetAutocommitConns DEF Connections
  <2> QED
    BY <2>1, <2>2, <2>3, <2>4, StillUndisturbed
<1>6. ASSUME NEW t \in Threads, OpenCursor(t)
      PROVE  Undisturbed(u)'
  <2>1. /\ UNCHANGED <<up, conns, conn, reconnected, clean>>
        /\ pc[t] = "cursor" /\ pc' = [pc EXCEPT ![t] = "execute"]
        /\ ~conns[conn].closed /\ cursor' = [cursor EXCEPT ![t] = conn]
    BY <1>6 DEF OpenCursor, Goto, dbVars, historyVars
  <2> QED
    BY <1>a, <2>1 DEF Undisturbed, Answers, FactsConnTypeOK
<1>7. ASSUME NEW t \in Threads, Execute(t)
      PROVE  Undisturbed(u)'
  <2>1. UNCHANGED <<up, conn, reconnected, clean>> /\ pc[t] = "execute"
    BY <1>7 DEF Execute, dbVars, historyVars
  <2>2. \A v \in Threads \ {t} : pc'[v] = pc[v] /\ cursor'[v] = cursor[v]
    BY <1>7, EndLookupTypes DEF Execute, Goto, FactsConnTypeOK
  <2>3. \A c \in DOMAIN conns :
          /\ conns'[c].alive = conns[c].alive /\ conns'[c].closed = conns[c].closed
          /\ conns[c].transaction # "aborted" => conns'[c].transaction # "aborted"
    <3>1. \A c \in DOMAIN conns : conns'[c] \in {conns[c], InTransaction(conns[c], "open")}
      BY <1>7, StatementConns DEF Execute
    <3>2. \A c \in DOMAIN conns :
            InTransaction(conns[c], "open").transaction \in {conns[c].transaction, "open"}
      BY InTransactionType DEF Connections
    <3> QED
      BY <3>1, <3>2, InTransactionType
  <2>4. CASE u = t
    <3>1. pc'[u] = "get"
      BY <1>7, <2>4, EndLookupTypes DEF Execute, Goto, FactsConnTypeOK
    <3>2. Undisturbed(u)
      BY <1>a, <2>1, <2>4
    <3> QED
      BY <2>1, <2>3, <3>1, <3>2 DEF Undisturbed
  <2>5. CASE u # t
    <3>1. Undisturbed(u) /\ up' /\ pc'[u] = pc[u] /\ cursor'[u] = cursor[u]
      BY <1>a, <2>1, <2>2, <2>5 DEF Undisturbed
    <3> QED
      BY <2>1, <2>3, <3>1, StillUndisturbed
  <2> QED
    BY <2>4, <2>5
<1>8. ASSUME NEW t \in Threads, ExecuteRaises(t)
      PROVE  Undisturbed(u)'
  <2>1. EndLookup(t, "no facts") /\ UNCHANGED <<up, conn, reconnected, clean>>
    BY <1>8 DEF ExecuteRaises, LookupRaises, dbVars, historyVars
  <2>2. u # t /\ pc'[u] = pc[u] /\ cursor'[u] = cursor[u]
    BY <2>1, EndLookupTypes
  <2>3. Undisturbed(u) /\ up'
    BY <1>a, <2>1, <2>2 DEF Undisturbed
  <2> QED
    BY <1>8, <2>1, <2>2, <2>3, ExecuteRaisesConns, StillUndisturbed
<1>9. ASSUME NEW t \in Threads, StatementError(t)
      PROVE  Undisturbed(u)'
  <2>1. EndLookup(t, "no facts") /\ UNCHANGED <<up, conn, reconnected>>
    BY <1>9 DEF StatementError, LookupRaises
  <2>2. u # t /\ pc'[u] = pc[u] /\ cursor'[u] = cursor[u]
    BY <2>1, EndLookupTypes
  <2>3. clean[u] /\ conns[cursor[t]].autocommit /\ cursor[t] \in DOMAIN conns
    BY <1>9 DEF StatementError, FactsConnTypeOK
  <2>4. \A c \in DOMAIN conns : conns'[c] = conns[c]
    <3>1. \A c \in DOMAIN conns :
            conns'[c] = IF c = cursor[t] THEN InTransaction(conns[c], "aborted") ELSE conns[c]
      BY <1>9, StatementConns DEF StatementError
    <3>2. InTransaction(conns[cursor[t]], "aborted") = conns[cursor[t]]
      BY <2>3 DEF InTransaction
    <3> QED
      BY <3>1, <3>2
  <2>5. Undisturbed(u) /\ up'
    BY <1>a, <2>1, <2>2, <2>3 DEF Undisturbed
  <2> QED
    BY <2>1, <2>2, <2>4, <2>5, StillUndisturbed
<1>10. CASE PostgresStops
  BY <1>10 DEF PostgresStops
<1>11. CASE PostgresStarts
  <2>1. ~up /\ UNCHANGED <<pc, reconnected, clean>>
    BY <1>11 DEF PostgresStarts, historyVars
  <2> QED
    BY <1>a, <2>1 DEF Undisturbed
<1> QED
  BY <1>1, <1>2, <1>3, <1>4, <1>5, <1>6, <1>7, <1>8, <1>9, <1>10, <1>11 DEF FactsConnNext

-----------------------------------------------------------------------------
(* A lookup that loses its facts was disturbed, or had reconnected.        *)
LEMMA OnlyReconnectsStep ==
  ASSUME FactsConnTypeOK, Lookups, OnlyReconnectsFail, FactsConnNext
  PROVE  OnlyReconnectsFail'
<1> SUFFICES ASSUME NEW u \in Threads, outcome'[u] = "no facts", clean'[u], ~reconnected'[u]
             PROVE  FALSE
  BY DEF OnlyReconnectsFail
<1>a. outcome[u] = "no facts" /\ clean[u] => reconnected[u]
  BY DEF OnlyReconnectsFail
<1>b. clean[u] /\ ~reconnected[u] /\ pc[u] # "idle" => Undisturbed(u)
  BY DEF Lookups
<1>1. ASSUME NEW t \in Threads, FactsForQuestion(t)
      PROVE  FALSE
  <2>1. u # t
    BY <1>1 DEF FactsForQuestion, FactsConnTypeOK
  <2> QED
    BY <1>1, <1>a, <2>1 DEF FactsForQuestion, FactsConnTypeOK
<1>2. ASSUME NEW t \in Threads, GetConn(t) \/ SetAutocommit(t) \/ OpenCursor(t)
      PROVE  FALSE
  BY <1>2, <1>a DEF GetConn, SetAutocommit, OpenCursor, historyVars
<1>3. ASSUME NEW t \in Threads, Connect(t)
      PROVE  FALSE
  BY <1>3, <1>a DEF Connect, FactsConnTypeOK
<1>4. ASSUME NEW t \in Threads, ConnectFails(t) \/ SetAutocommitRaises(t) \/ OpenCursorRaises(t)
      PROVE  FALSE
  <2>1. EndLookup(t, "no facts") /\ UNCHANGED <<reconnected, clean>>
    BY <1>4 DEF ConnectFails, SetAutocommitRaises, OpenCursorRaises, LookupRaises, historyVars
  <2>2. u = t
    BY <1>a, <2>1, EndLookupTypes
  <2>3. \/ pc[t] = "connect" /\ ~up
        \/ pc[t] = "autocommit"
        \/ pc[t] = "cursor" /\ conns[conn].closed
    BY <1>4 DEF ConnectFails, SetAutocommitRaises, OpenCursorRaises
  <2> QED
    BY <1>b, <2>1, <2>2, <2>3 DEF Undisturbed
<1>5. ASSUME NEW t \in Threads, Execute(t)
      PROVE  FALSE
  <2>1. UNCHANGED <<reconnected, clean>>
    BY <1>5 DEF Execute, historyVars
  <2>2. EndLookup(t, "facts") \/ UNCHANGED outcome
    BY <1>5 DEF Execute
  <2> QED
    BY <1>a, <2>1, <2>2, EndLookupTypes
<1>6. ASSUME NEW t \in Threads, ExecuteRaises(t)
      PROVE  FALSE
  <2>1. EndLookup(t, "no facts") /\ UNCHANGED <<reconnected, clean>>
    BY <1>6 DEF ExecuteRaises, LookupRaises, historyVars
  <2>2. u = t
    BY <1>a, <2>1, EndLookupTypes
  <2> QED
    BY <1>6, <1>b, <2>1, <2>2 DEF ExecuteRaises, Undisturbed
<1>7. ASSUME NEW t \in Threads, StatementError(t)
      PROVE  FALSE
  <2>1. EndLookup(t, "no facts") /\ UNCHANGED reconnected
    BY <1>7 DEF StatementError, LookupRaises
  <2>2. u # t /\ clean[u]
    BY <1>7 DEF StatementError
  <2> QED
    BY <1>a, <2>1, <2>2, EndLookupTypes
<1>8. CASE PostgresStops
  BY <1>8 DEF PostgresStops
<1>9. CASE PostgresStarts
  BY <1>9, <1>a DEF PostgresStarts, historyVars
<1> QED
  BY <1>1, <1>2, <1>3, <1>4, <1>5, <1>6, <1>7, <1>8, <1>9 DEF FactsConnNext

-----------------------------------------------------------------------------
(* The inductive invariant. *)
LEMMA FactsConnInvInit == FactsConnInit => FactsConnInv
<1> SUFFICES ASSUME FactsConnInit
             PROVE  FactsConnInv
  OBVIOUS
<1>1. \A t \in Threads : pc[t] = "idle" /\ outcome[t] = "none"
  BY DEF FactsConnInit
<1>2. conns[conn].autocommit
  BY DEF FactsConnInit, Fresh
<1> QED
  BY <1>1, <1>2, FactsConnTypeInit DEF FactsConnInv, Lookups, OnlyReconnectsFail, UnsetOnlyIfOvertaken

(* Every step keeps it. *)
LEMMA FactsConnInvStep == FactsConnInv /\ [FactsConnNext]_factsConnVars => FactsConnInv'
<1> SUFFICES ASSUME FactsConnInv, [FactsConnNext]_factsConnVars
             PROVE  FactsConnInv'
  OBVIOUS
<1>1. CASE FactsConnNext
  BY <1>1, FactsConnTypeStep, UnsetStep, LookupsStep, OnlyReconnectsStep DEF FactsConnInv
<1>2. CASE UNCHANGED factsConnVars
  <2>1. UNCHANGED <<up, outages, errors, conns, conn, pc, cursor, groups, outcome, reconnected, clean>>
    BY <1>2 DEF factsConnVars, dbVars, lookupVars, historyVars
  <2> QED
    BY <2>1 DEF FactsConnInv, FactsConnTypeOK, Lookups, Undisturbed, Answers, OnlyReconnectsFail,
                UnsetOnlyIfOvertaken
<1> QED
  BY <1>1, <1>2

(* A lookup fails only if it was disturbed or replaced the connection      *)
(* itself: rag/facts.py's unguarded reconnect harms no other lookup.       *)
THEOREM OnlyReconnectsFailCorrect == FactsConnSpec => []OnlyReconnectsFail
<1>1. FactsConnInv => OnlyReconnectsFail
  BY DEF FactsConnInv
<1> QED
  BY <1>1, FactsConnInvInit, FactsConnInvStep, PTL DEF FactsConnSpec

(* The shared connection stays without autocommit only inside a            *)
(* transaction that another thread began too early.                        *)
THEOREM UnsetOnlyIfOvertakenCorrect == FactsConnSpec => []UnsetOnlyIfOvertaken
<1>1. FactsConnInv => UnsetOnlyIfOvertaken
  BY DEF FactsConnInv
<1> QED
  BY <1>1, FactsConnInvInit, FactsConnInvStep, PTL DEF FactsConnSpec

HIDE FactsConnectionAssumption

(***************************************************************************)
(* StoredBeforeEmbedded.  The consumer's writes wait in the session its    *)
(* transaction began on, which nobody else commits; what the probe does to *)
(* sessions leaves them there, or kills the session, or is on record as    *)
(* spoilt.                                                                 *)
(***************************************************************************)
USE StoreConnectionAssumption

(* A session replaced by another record. *)
LEMMA SessionReplaced ==
  ASSUME StoreConnTypeOK, NEW s \in DOMAIN sessions, NEW r \in Sessions,
         sessions' = [sessions EXCEPT ![s] = r]
  PROVE  /\ sessions' \in Seq(Sessions)
         /\ DOMAIN sessions' = DOMAIN sessions
         /\ \A x \in DOMAIN sessions : sessions'[x] = IF x = s THEN r ELSE sessions[x]
<1>1. sessions \in Seq(Sessions)
  BY DEF StoreConnTypeOK
<1>2. DOMAIN sessions = 1..Len(sessions)
  BY <1>1
<1>3. sessions' \in Seq(Sessions)
  BY <1>1, <1>2, ExceptSeq
<1> QED
  BY <1>1, <1>3

(* Every session opened is a record of the type. *)
LEMMA SessionType ==
  ASSUME StoreConnTypeOK, NEW s \in DOMAIN sessions
  PROVE  /\ sessions[s] \in Sessions
         /\ sessions[s].alive \in BOOLEAN /\ sessions[s].closed \in BOOLEAN
         /\ sessions[s].transaction \in {"none", "open", "aborted"}
         /\ sessions[s].pending \subseteq Pages \cup {"EMBEDDED"}
<1>1. sessions[s] \in Sessions
  BY ElementOfSeq DEF StoreConnTypeOK
<1> QED
  BY <1>1 DEF Sessions

(* connect() adds a fresh session and makes it the store's. *)
LEMMA OpenAdds ==
  ASSUME StoreConnTypeOK, NEW c \in Callers, OpenSession(c)
  PROVE  /\ sessions' \in Seq(Sessions)
         /\ storeConn' \in DOMAIN sessions'
         /\ DOMAIN sessions' = DOMAIN sessions \cup {storeConn'}
         /\ storeConn' \notin DOMAIN sessions
         /\ \A x \in DOMAIN sessions : sessions'[x] = sessions[x]
         /\ sessions'[storeConn'] = FreshSession
<1>1. sessions \in Seq(Sessions) /\ FreshSession \in Sessions
  BY DEF StoreConnTypeOK, FreshSession, Sessions
<1>2. sessions' = Append(sessions, FreshSession) /\ storeConn' = Len(sessions) + 1
  BY DEF OpenSession
<1>3. /\ sessions' \in Seq(Sessions)
      /\ Len(sessions') = Len(sessions) + 1
      /\ \A x \in 1..Len(sessions) : sessions'[x] = sessions[x]
      /\ sessions'[Len(sessions) + 1] = FreshSession
  BY <1>1, <1>2, AppendProperties
<1>4. /\ DOMAIN sessions = 1..Len(sessions) /\ DOMAIN sessions' = 1..(Len(sessions) + 1)
      /\ Len(sessions) \in Nat
  BY <1>1, <1>3
<1> QED
  BY <1>2, <1>3, <1>4

(* Postgres stops: every session dies and is otherwise as it was. *)
LEMMA StopKeeps ==
  ASSUME StoreConnTypeOK
  PROVE  /\ StopAll \in Seq(Sessions)
         /\ DOMAIN StopAll = DOMAIN sessions
         /\ \A x \in DOMAIN sessions :
              /\ StopAll[x] \in Sessions /\ ~StopAll[x].alive
              /\ StopAll[x].closed = sessions[x].closed
<1>1. sessions \in Seq(Sessions)
  BY DEF StoreConnTypeOK
<1>2. DOMAIN sessions = 1..Len(sessions) /\ Len(sessions) \in Nat
  BY <1>1
<1>3. \A x \in DOMAIN sessions : sessions[x] \in Sessions
  BY <1>1, ElementOfSeq
<1>4. \A x \in DOMAIN sessions :
        /\ StopAll[x] \in Sessions /\ ~StopAll[x].alive
        /\ StopAll[x].closed = sessions[x].closed
  BY <1>3 DEF StopAll, Sessions
<1>5. StopAll \in [1..Len(sessions) -> Sessions]
  BY <1>2, <1>4 DEF StopAll
<1> QED
  BY <1>2, <1>4, <1>5 DEF StopAll

(* What a step writes in one session is a record of the type. *)
LEMMA Updates ==
  ASSUME StoreConnTypeOK, NEW s \in DOMAIN sessions
  PROVE  /\ [sessions[s] EXCEPT !.transaction = "open"] \in Sessions
         /\ [sessions[s] EXCEPT !.transaction = "aborted"] \in Sessions
         /\ [sessions[s] EXCEPT !.closed = TRUE] \in Sessions
         /\ [sessions[s] EXCEPT !.closed = sessions[s].closed \/ ~sessions[s].alive] \in Sessions
         /\ Ended(s) \in Sessions
         /\ \A w \in Pages \cup {"EMBEDDED"} :
              [sessions[s] EXCEPT !.transaction = "open", !.pending = @ \cup {w}] \in Sessions
<1>1. sessions[s] \in Sessions
  BY SessionType
<1> QED
  BY <1>1 DEF Sessions, Ended

-----------------------------------------------------------------------------
(* Type correctness of the steps, by what they do to the sessions.         *)

(* The steps of a caller that replace one session by another record: the   *)
(* session and the record.                                                 *)
LEMMA RegisterSessions ==
  ASSUME StoreConnTypeOK, NEW c \in Callers, Register(c)
  PROVE  /\ sessions' \in Seq(Sessions) /\ DOMAIN sessions' = DOMAIN sessions
         /\ \A x \in DOMAIN sessions :
              sessions'[x] = IF x = storeConn
                               THEN [sessions[x] EXCEPT !.transaction = "open"] ELSE sessions[x]
<1> DEFINE r == [sessions[storeConn] EXCEPT !.transaction = "open"]
<1>1. storeConn \in DOMAIN sessions
  BY DEF StoreConnTypeOK
<1>2. r \in Sessions
  BY <1>1, Updates
<1>3. sessions' = [sessions EXCEPT ![storeConn] = r]
  BY DEF Register
<1> HIDE DEF r
<1>4. /\ sessions' \in Seq(Sessions) /\ DOMAIN sessions' = DOMAIN sessions
      /\ \A x \in DOMAIN sessions : sessions'[x] = IF x = storeConn THEN r ELSE sessions[x]
  BY <1>1, <1>2, <1>3, SessionReplaced
<1> QED
  BY <1>4 DEF r

(* SELECT 1 leaves a transaction open on the probe's connection. *)
LEMMA Select1Sessions ==
  ASSUME StoreConnTypeOK, Select1
  PROVE  /\ sessions' \in Seq(Sessions) /\ DOMAIN sessions' = DOMAIN sessions
         /\ \A x \in DOMAIN sessions :
              sessions'[x] = IF x = using["probe"]
                               THEN [sessions[x] EXCEPT !.transaction = "open"] ELSE sessions[x]
<1> DEFINE i == using["probe"]
           r == [sessions[i] EXCEPT !.transaction = "open"]
<1>1. i \in DOMAIN sessions
  BY DEF StoreConnTypeOK, Callers
<1>2. r \in Sessions
  BY <1>1, Updates
<1>3. sessions' = [sessions EXCEPT ![i] = r]
  BY DEF Select1
<1> HIDE DEF r, i
<1>4. /\ sessions' \in Seq(Sessions) /\ DOMAIN sessions' = DOMAIN sessions
      /\ \A x \in DOMAIN sessions : sessions'[x] = IF x = i THEN r ELSE sessions[x]
  BY <1>1, <1>2, <1>3, SessionReplaced
<1> QED
  BY <1>4 DEF r, i

(* A write of the consumer waits in its session. *)
LEMMA WriteSessions ==
  ASSUME StoreConnTypeOK, Write
  PROVE  \E w \in toWrite :
           /\ toWrite' = toWrite \ {w}
           /\ sessions' \in Seq(Sessions) /\ DOMAIN sessions' = DOMAIN sessions
           /\ \A x \in DOMAIN sessions :
                sessions'[x] = IF x = using["consumer"]
                                 THEN [sessions[x] EXCEPT !.transaction = "open",
                                                          !.pending = @ \cup {w}]
                                 ELSE sessions[x]
<1>1. PICK w \in toWrite :
        /\ toWrite' = toWrite \ {w}
        /\ sessions' = [sessions EXCEPT ![using["consumer"]].transaction = "open",
                                        ![using["consumer"]].pending = @ \cup {w}]
  BY DEF Write
<1> DEFINE i == using["consumer"]
           r == [sessions[i] EXCEPT !.transaction = "open", !.pending = @ \cup {w}]
<1>2. i \in DOMAIN sessions /\ w \in Pages \cup {"EMBEDDED"}
  BY DEF StoreConnTypeOK, Callers
<1>3. r \in Sessions
  BY <1>2, Updates
<1>4. sessions' = [sessions EXCEPT ![i] = r]
  BY <1>1, <1>2 DEF StoreConnTypeOK
<1> HIDE DEF r, i
<1>5. /\ sessions' \in Seq(Sessions) /\ DOMAIN sessions' = DOMAIN sessions
      /\ \A x \in DOMAIN sessions : sessions'[x] = IF x = i THEN r ELSE sessions[x]
  BY <1>2, <1>3, <1>4, SessionReplaced
<1> QED
  BY <1>1, <1>5 DEF r, i

(* A statement without an answer tells the driver of the break. *)
LEMMA NoResponseSessions ==
  ASSUME StoreConnTypeOK, NEW c \in Callers, NoResponse(c)
  PROVE  \E s \in DOMAIN sessions :
           /\ Runs(c, s) /\ ~Responds(s)
           /\ sessions' \in Seq(Sessions) /\ DOMAIN sessions' = DOMAIN sessions
           /\ \A x \in DOMAIN sessions :
                sessions'[x] = IF x = s
                                 THEN [sessions[x] EXCEPT !.closed = sessions[x].closed \/ ~sessions[x].alive]
                                 ELSE sessions[x]
<1>1. PICK s \in DOMAIN sessions :
        /\ Runs(c, s) /\ ~Responds(s)
        /\ sessions' = [sessions EXCEPT ![s].closed = @ \/ ~sessions[s].alive]
  BY DEF NoResponse
<1> DEFINE r == [sessions[s] EXCEPT !.closed = sessions[s].closed \/ ~sessions[s].alive]
<1>2. r \in Sessions
  BY Updates
<1>3. sessions' = [sessions EXCEPT ![s] = r]
  BY <1>1
<1> HIDE DEF r
<1>4. /\ sessions' \in Seq(Sessions) /\ DOMAIN sessions' = DOMAIN sessions
      /\ \A x \in DOMAIN sessions : sessions'[x] = IF x = s THEN r ELSE sessions[x]
  BY <1>2, <1>3, SessionReplaced
<1> QED
  BY <1>1, <1>4 DEF r

(* A statement that fails on a live connection aborts its transaction. *)
LEMMA CancelledSessions ==
  ASSUME StoreConnTypeOK, NEW c \in Callers, Cancelled(c)
  PROVE  \E s \in DOMAIN sessions :
           /\ Runs(c, s) /\ Responds(s) /\ spoilt' = (spoilt \/ Spoils(c, s))
           /\ sessions' \in Seq(Sessions) /\ DOMAIN sessions' = DOMAIN sessions
           /\ \A x \in DOMAIN sessions :
                sessions'[x] = IF x = s
                                 THEN [sessions[x] EXCEPT !.transaction = "aborted"] ELSE sessions[x]
<1>1. PICK s \in DOMAIN sessions :
        /\ Runs(c, s) /\ Responds(s) /\ spoilt' = (spoilt \/ Spoils(c, s))
        /\ sessions' = [sessions EXCEPT ![s].transaction = "aborted"]
  BY DEF Cancelled
<1> DEFINE r == [sessions[s] EXCEPT !.transaction = "aborted"]
<1>2. r \in Sessions
  BY Updates
<1>3. sessions' = [sessions EXCEPT ![s] = r]
  BY <1>1
<1> HIDE DEF r
<1>4. /\ sessions' \in Seq(Sessions) /\ DOMAIN sessions' = DOMAIN sessions
      /\ \A x \in DOMAIN sessions : sessions'[x] = IF x = s THEN r ELSE sessions[x]
  BY <1>2, <1>3, SessionReplaced
<1> QED
  BY <1>1, <1>4 DEF r

(* A commit ends the transaction of the consumer's session. *)
LEMMA CommitSessions ==
  ASSUME StoreConnTypeOK, CommitStore
  PROVE  /\ sessions' \in Seq(Sessions) /\ DOMAIN sessions' = DOMAIN sessions
         /\ \A x \in DOMAIN sessions :
              sessions'[x] = IF x = using["consumer"] THEN Ended(x) ELSE sessions[x]
<1> DEFINE i == using["consumer"]
           r == Ended(i)
<1>1. i \in DOMAIN sessions
  BY DEF StoreConnTypeOK, Callers
<1>2. r \in Sessions
  BY <1>1, Updates
<1>3. sessions' = [sessions EXCEPT ![i] = r]
  BY DEF CommitStore
<1> HIDE DEF r, i
<1>4. /\ sessions' \in Seq(Sessions) /\ DOMAIN sessions' = DOMAIN sessions
      /\ \A x \in DOMAIN sessions : sessions'[x] = IF x = i THEN r ELSE sessions[x]
  BY <1>1, <1>2, <1>3, SessionReplaced
<1> QED
  BY <1>4 DEF r, i

(* A commit that raises finds the connection broken. *)
LEMMA CommitRaisesSessions ==
  ASSUME StoreConnTypeOK, CommitRaises
  PROVE  /\ sessions' \in Seq(Sessions) /\ DOMAIN sessions' = DOMAIN sessions
         /\ \A x \in DOMAIN sessions :
              sessions'[x] = IF x = using["consumer"]
                               THEN [sessions[x] EXCEPT !.closed = TRUE] ELSE sessions[x]
<1> DEFINE i == using["consumer"]
           r == [sessions[i] EXCEPT !.closed = TRUE]
<1>1. i \in DOMAIN sessions
  BY DEF StoreConnTypeOK, Callers
<1>2. r \in Sessions
  BY <1>1, Updates
<1>3. sessions' = [sessions EXCEPT ![i] = r]
  BY DEF CommitRaises
<1> HIDE DEF r, i
<1>4. /\ sessions' \in Seq(Sessions) /\ DOMAIN sessions' = DOMAIN sessions
      /\ \A x \in DOMAIN sessions : sessions'[x] = IF x = i THEN r ELSE sessions[x]
  BY <1>1, <1>2, <1>3, SessionReplaced
<1> QED
  BY <1>4 DEF r, i

(* A rollback ends the transaction, or finds the connection broken. *)
LEMMA RollBackSessions ==
  ASSUME StoreConnTypeOK, RollBack
  PROVE  /\ sessions' \in Seq(Sessions) /\ DOMAIN sessions' = DOMAIN sessions
         /\ \A x \in DOMAIN sessions :
              sessions'[x] = IF x # using["consumer"] THEN sessions[x]
                             ELSE IF Connected(x) THEN Ended(x)
                             ELSE [sessions[x] EXCEPT !.closed = TRUE]
<1> DEFINE i == using["consumer"]
           r == IF Connected(i) THEN Ended(i) ELSE [sessions[i] EXCEPT !.closed = TRUE]
<1>1. i \in DOMAIN sessions
  BY DEF StoreConnTypeOK, Callers
<1>2. r \in Sessions
  BY <1>1, Updates
<1>3. sessions' = [sessions EXCEPT ![i] = r]
  BY DEF RollBack
<1> HIDE DEF r, i
<1>4. /\ sessions' \in Seq(Sessions) /\ DOMAIN sessions' = DOMAIN sessions
      /\ \A x \in DOMAIN sessions : sessions'[x] = IF x = i THEN r ELSE sessions[x]
  BY <1>1, <1>2, <1>3, SessionReplaced
<1> QED
  BY <1>4 DEF r, i

(* Postgres that stops on a commit leaves no session alive. *)
LEMMA UnansweredSessions ==
  ASSUME StoreConnTypeOK, CommitUnanswered
  PROVE  /\ sessions' \in Seq(Sessions) /\ DOMAIN sessions' = DOMAIN sessions
         /\ \A x \in DOMAIN sessions : ~sessions'[x].alive
<1> DEFINE i == using["consumer"]
           r == [StopAll[i] EXCEPT !.closed = TRUE]
<1>1. i \in DOMAIN sessions
  BY DEF StoreConnTypeOK, Callers
<1>2. /\ StopAll \in Seq(Sessions) /\ DOMAIN StopAll = DOMAIN sessions
      /\ \A x \in DOMAIN sessions : StopAll[x] \in Sessions /\ ~StopAll[x].alive
  BY StopKeeps
<1>3. r \in Sessions /\ ~r.alive
  BY <1>1, <1>2 DEF Sessions
<1>4. sessions' = [StopAll EXCEPT ![i] = r]
  BY DEF CommitUnanswered
<1>5. i \in 1..Len(StopAll) /\ DOMAIN StopAll = 1..Len(StopAll)
  BY <1>1, <1>2
<1> HIDE DEF r, i
<1>6. sessions' \in Seq(Sessions) /\ DOMAIN sessions' = DOMAIN sessions
  BY <1>2, <1>3, <1>4, <1>5, ExceptSeq
<1>7. \A x \in DOMAIN sessions : sessions'[x] = IF x = i THEN r ELSE StopAll[x]
  BY <1>2, <1>4
<1> QED
  BY <1>2, <1>3, <1>6, <1>7

-----------------------------------------------------------------------------
LEMMA StoreConnTypeInit == StoreConnInit => StoreConnTypeOK
<1> SUFFICES ASSUME StoreConnInit
             PROVE  StoreConnTypeOK
  OBVIOUS
<1> DEFINE s == [FreshSession EXCEPT !.transaction = "open"]
<1>1. s \in Sessions
  BY DEF FreshSession, Sessions
<1>2. sessions = <<s>>
  BY DEF StoreConnInit
<1> HIDE DEF s
<1>3. sessions \in Seq(Sessions) /\ DOMAIN sessions = {1}
  BY <1>1, <1>2
<1> QED
  BY <1>3 DEF StoreConnInit, StoreConnTypeOK, Callers

(* Every step keeps the types. *)
LEMMA StoreConnTypeStep ==
  ASSUME StoreConnTypeOK, StoreConnNext
  PROVE  StoreConnTypeOK'
<1> USE DEF postgresVars, writeVars
<1>1. ASSUME NEW c \in Callers, CheckConn(c) \/ OpenFails(c) \/ Configure(c) \/ GotConn(c)
      PROVE  StoreConnTypeOK'
  BY <1>1 DEF StoreConnTypeOK, CheckConn, OpenFails, Configure, GotConn, MoveTo, Raise, Writes, Callers
<1>2. ASSUME NEW c \in Callers, OpenSession(c)
      PROVE  StoreConnTypeOK'
  BY <1>2, OpenAdds DEF StoreConnTypeOK, OpenSession, MoveTo, Callers
<1>3. ASSUME NEW c \in Callers, Register(c)
      PROVE  StoreConnTypeOK'
  BY <1>3, RegisterSessions DEF StoreConnTypeOK, Register, MoveTo, Callers
<1>4. ASSUME NEW c \in Callers, NoResponse(c)
      PROVE  StoreConnTypeOK'
  <2>1. sessions' \in Seq(Sessions) /\ DOMAIN sessions' = DOMAIN sessions
    BY <1>4, NoResponseSessions
  <2> QED
    BY <1>4, <2>1 DEF StoreConnTypeOK, NoResponse, StatementRaises, MoveTo, Raise, Callers
<1>5. ASSUME NEW c \in Callers, Cancelled(c)
      PROVE  StoreConnTypeOK'
  <2>1. sessions' \in Seq(Sessions) /\ DOMAIN sessions' = DOMAIN sessions /\ spoilt' \in BOOLEAN
    BY <1>5, CancelledSessions DEF Spoils, StoreConnTypeOK
  <2> QED
    BY <1>5, <2>1 DEF StoreConnTypeOK, Cancelled, StatementRaises, MoveTo, Raise, Callers
<1>6. CASE Select1
  BY <1>6, Select1Sessions DEF StoreConnTypeOK, Select1, MoveTo, Callers
<1>7. CASE Write
  <2>1. /\ sessions' \in Seq(Sessions) /\ DOMAIN sessions' = DOMAIN sessions
        /\ toWrite' \subseteq toWrite
    BY <1>7, WriteSessions
  <2> QED
    BY <1>7, <2>1 DEF StoreConnTypeOK, Write
<1>8. CASE CommitStore
  <2>1. using["consumer"] \in DOMAIN sessions
    BY DEF StoreConnTypeOK, Callers
  <2>2. Committed(using["consumer"]) \subseteq Pages \cup {"EMBEDDED"}
    BY <2>1, SessionType DEF Committed
  <2> QED
    BY <1>8, <2>2, CommitSessions DEF StoreConnTypeOK, CommitStore, Return, MoveTo, Callers
<1>9. CASE CommitRaises
  BY <1>9, CommitRaisesSessions DEF StoreConnTypeOK, CommitRaises, Raise, MoveTo, Callers
<1>10. CASE CommitUnanswered
  <2>1. using["consumer"] \in DOMAIN sessions
    BY DEF StoreConnTypeOK, Callers
  <2>2. sessions[using["consumer"]].pending \subseteq Pages \cup {"EMBEDDED"}
    BY <2>1, SessionType
  <2>3. /\ stops' = stops + 1 /\ serving' = FALSE /\ Raise("consumer")
        /\ durable' = durable \cup sessions[using["consumer"]].pending
        /\ UNCHANGED <<cancels, storeConn, using, toWrite, spoilt>>
    BY <1>10 DEF CommitUnanswered
  <2>4. sessions' \in Seq(Sessions) /\ DOMAIN sessions' = DOMAIN sessions
    BY <1>10, UnansweredSessions
  <2>5. stops' \in Nat /\ serving' \in BOOLEAN /\ cancels' \in Nat
    <3>1. stops \in Nat /\ stops' = stops + 1
      BY <1>10 DEF CommitUnanswered, StoreConnTypeOK
    <3>2. serving' \in BOOLEAN
      BY <1>10, Zenon DEF CommitUnanswered
    <3>3. cancels' \in Nat
      BY <2>3 DEF StoreConnTypeOK
    <3> QED
      BY <3>1, <3>2, <3>3
  <2>6. durable' \subseteq Pages \cup {"EMBEDDED"} /\ toWrite' \subseteq Pages \cup {"EMBEDDED"}
    BY <2>2, <2>3 DEF StoreConnTypeOK
  <2>7. storeConn' \in DOMAIN sessions' /\ using' \in [Callers -> DOMAIN sessions']
    BY <2>3, <2>4 DEF StoreConnTypeOK
  <2>8. UNCHANGED spoilt /\ Raise("consumer")
    BY <2>3
  <2> QED
    BY <2>4, <2>5, <2>6, <2>7, <2>8 DEF StoreConnTypeOK, Raise, MoveTo, Callers
<1>11. CASE RollBack
  <2>1. /\ Raise("consumer")
        /\ UNCHANGED <<postgresVars, storeConn, using, toWrite, durable, spoilt>>
    BY <1>11 DEF RollBack
  <2>2. sessions' \in Seq(Sessions) /\ DOMAIN sessions' = DOMAIN sessions
    BY <1>11, RollBackSessions
  <2> QED
    BY <2>1, <2>2 DEF StoreConnTypeOK, Raise, MoveTo, Callers
<1>12. CASE ServerStops
  <2>1. /\ stops' = stops + 1 /\ serving' = FALSE
        /\ UNCHANGED <<cancels, storeConn, at, using, writeVars, spoilt>>
    BY <1>12 DEF ServerStops
  <2>2. sessions' \in Seq(Sessions) /\ DOMAIN sessions' = DOMAIN sessions
    BY <1>12, StopKeeps DEF ServerStops
  <2>3. stops' \in Nat /\ serving' \in BOOLEAN /\ cancels' \in Nat
    <3>1. stops \in Nat /\ stops' = stops + 1
      BY <1>12 DEF ServerStops, StoreConnTypeOK
    <3>2. serving' \in BOOLEAN
      BY <1>12, Zenon DEF ServerStops
    <3>3. cancels' \in Nat
      BY <2>1 DEF StoreConnTypeOK
    <3> QED
      BY <3>1, <3>2, <3>3
  <2>4. UNCHANGED <<storeConn, at, using, writeVars, spoilt>>
    BY <2>1
  <2> QED
    BY <2>2, <2>3, <2>4 DEF StoreConnTypeOK
<1>13. CASE ServerStarts
  BY <1>13 DEF StoreConnTypeOK, ServerStarts
<1> QED
  BY <1>1, <1>2, <1>3, <1>4, <1>5, <1>6, <1>7, <1>8, <1>9, <1>10, <1>11, <1>12, <1>13
  DEF StoreConnNext

-----------------------------------------------------------------------------
(* What a step may do to the sessions without harm to what waits in them.  *)
SessionsHarmless ==
  /\ DOMAIN sessions \subseteq DOMAIN sessions'
  /\ \A s \in DOMAIN sessions' : sessions'[s].closed => ~sessions'[s].alive
  /\ \A s \in DOMAIN sessions :
       sessions'[s].alive => sessions[s].alive /\ sessions'[s].pending = sessions[s].pending
  /\ \A s \in DOMAIN sessions' \ DOMAIN sessions : sessions'[s].pending = {}

(* Opening sessions, statements that write nothing, and outages. *)
LEMMA StatementsHarmless ==
  ASSUME StoreConnTypeOK, ClosedIsDead,
         \/ UNCHANGED sessions \/ Select1 \/ ServerStops
         \/ \E c \in Callers : OpenSession(c) \/ Register(c) \/ NoResponse(c) \/ Cancelled(c)
  PROVE  SessionsHarmless
<1>1. CASE UNCHANGED sessions
  BY <1>1 DEF SessionsHarmless, ClosedIsDead
<1>2. CASE Select1
  <2>1. /\ DOMAIN sessions' = DOMAIN sessions
        /\ \A x \in DOMAIN sessions :
             /\ sessions'[x].alive = sessions[x].alive /\ sessions'[x].closed = sessions[x].closed
             /\ sessions'[x].pending = sessions[x].pending
    BY <1>2, Select1Sessions, SessionType DEF Sessions
  <2> QED
    BY <2>1 DEF SessionsHarmless, ClosedIsDead
<1>3. CASE ServerStops
  <2>1. sessions' = StopAll
    BY <1>3 DEF ServerStops
  <2> QED
    BY <2>1, StopKeeps DEF SessionsHarmless
<1>4. ASSUME NEW c \in Callers, OpenSession(c)
      PROVE  SessionsHarmless
  <2>1. FreshSession.pending = {} /\ ~FreshSession.closed
    BY DEF FreshSession
  <2> QED
    BY <1>4, <2>1, OpenAdds DEF SessionsHarmless, ClosedIsDead
<1>5. ASSUME NEW c \in Callers, Register(c)
      PROVE  SessionsHarmless
  <2>1. /\ DOMAIN sessions' = DOMAIN sessions
        /\ \A x \in DOMAIN sessions :
             /\ sessions'[x].alive = sessions[x].alive /\ sessions'[x].closed = sessions[x].closed
             /\ sessions'[x].pending = sessions[x].pending
    BY <1>5, RegisterSessions, SessionType DEF Sessions
  <2> QED
    BY <2>1 DEF SessionsHarmless, ClosedIsDead
<1>6. ASSUME NEW c \in Callers, NoResponse(c)
      PROVE  SessionsHarmless
  <2>1. /\ DOMAIN sessions' = DOMAIN sessions
        /\ \A x \in DOMAIN sessions :
             /\ sessions'[x].alive = sessions[x].alive
             /\ sessions'[x].closed => sessions[x].closed \/ ~sessions[x].alive
             /\ sessions'[x].pending = sessions[x].pending
    BY <1>6, NoResponseSessions, SessionType DEF Sessions
  <2> QED
    BY <2>1 DEF SessionsHarmless, ClosedIsDead
<1>7. ASSUME NEW c \in Callers, Cancelled(c)
      PROVE  SessionsHarmless
  <2>1. /\ DOMAIN sessions' = DOMAIN sessions
        /\ \A x \in DOMAIN sessions :
             /\ sessions'[x].alive = sessions[x].alive /\ sessions'[x].closed = sessions[x].closed
             /\ sessions'[x].pending = sessions[x].pending
    BY <1>7, CancelledSessions, SessionType DEF Sessions
  <2> QED
    BY <2>1 DEF SessionsHarmless, ClosedIsDead
<1> QED
  BY <1>1, <1>2, <1>3, <1>4, <1>5, <1>6, <1>7

(* A step that is not the consumer's, and that says so if it aborts the    *)
(* consumer's transaction.                                                 *)
LEMMA OthersKeepInv ==
  ASSUME StoreConnInv, StoreConnTypeOK', SessionsHarmless,
         UNCHANGED <<task, toWrite, durable>>,
         at'["consumer"] = at["consumer"], using'["consumer"] = using["consumer"],
         spoilt => spoilt',
         at["consumer"] = "use" /\ sessions'[using["consumer"]].transaction = "aborted" =>
           sessions[using["consumer"]].transaction = "aborted" \/ spoilt'
  PROVE  StoreConnInv'
<1> DEFINE u == using["consumer"]
<1>1. u \in DOMAIN sessions /\ u \in DOMAIN sessions'
  BY DEF StoreConnInv, StoreConnTypeOK, SessionsHarmless, Callers
<1>2. ClosedIsDead'
  BY DEF SessionsHarmless, ClosedIsDead
<1>3. \A s \in DOMAIN sessions : InTransactionOn(s)' = InTransactionOn(s)
  BY DEF InTransactionOn
<1>4. NothingLeftOver'
  BY <1>3 DEF SessionsHarmless, NothingLeftOver, StoreConnInv
<1>5. ConsumerWrites'
  BY <1>1 DEF ConsumerWrites, StoreConnInv, SessionsHarmless, Writes
<1>6. StatusAfterChunks' /\ StoredBeforeEmbedded'
  BY DEF StatusAfterChunks, StoredBeforeEmbedded, StoreConnInv
<1> QED
  BY <1>2, <1>4, <1>5, <1>6 DEF StoreConnInv

(* A step of the consumer outside its transactions. *)
LEMMA ApproachKeepsInv ==
  ASSUME StoreConnInv, StoreConnTypeOK', SessionsHarmless,
         UNCHANGED durable, spoilt => spoilt',
         at["consumer"] \notin {"use", "rollback"}, at'["consumer"] \notin {"use", "rollback"},
         task' \in {task, "chunks"},
         at'["consumer"] # "idle" => toWrite' = Writes(task)'
  PROVE  StoreConnInv'
<1>1. ClosedIsDead'
  BY DEF SessionsHarmless, ClosedIsDead
<1>2. NothingLeftOver'
  BY DEF SessionsHarmless, NothingLeftOver, StoreConnInv, InTransactionOn
<1>3. ConsumerWrites'
  BY DEF ConsumerWrites
<1>4. StatusAfterChunks' /\ StoredBeforeEmbedded'
  BY DEF StatusAfterChunks, StoredBeforeEmbedded, StoreConnInv, StoreConnTypeOK
<1> QED
  BY <1>1, <1>2, <1>3, <1>4 DEF StoreConnInv

(* What a statement that raises leaves alone. *)
LEMMA RaisingFrame ==
  ASSUME NEW c \in Callers, NoResponse(c) \/ Cancelled(c)
  PROVE  /\ StatementRaises(c)
         /\ UNCHANGED <<storeConn, using, toWrite, durable>>
         /\ spoilt => spoilt'
<1>1. CASE NoResponse(c)
  BY <1>1 DEF NoResponse
<1>2. CASE Cancelled(c)
  BY <1>2 DEF Cancelled
<1> QED
  BY <1>1, <1>2

-----------------------------------------------------------------------------
(* The probe and Postgres. *)
LEMMA ProbeKeepsInv ==
  ASSUME StoreConnInv, StoreConnTypeOK',
         \/ CheckConn("probe") \/ OpenSession("probe") \/ OpenFails("probe")
         \/ Configure("probe") \/ Register("probe") \/ GotConn("probe")
         \/ NoResponse("probe") \/ Cancelled("probe")
         \/ Select1 \/ ServerStops \/ ServerStarts
  PROVE  StoreConnInv'
<1> DEFINE u == using["consumer"]
<1> "probe" \in Callers /\ "consumer" \in Callers /\ "probe" # "consumer"
  BY DEF Callers
<1>0. /\ StoreConnTypeOK /\ ClosedIsDead
      /\ u \in DOMAIN sessions
  BY DEF StoreConnInv, StoreConnTypeOK, Callers
<1>1. SessionsHarmless
  BY <1>0, StatementsHarmless DEF CheckConn, OpenFails, Configure, GotConn, ServerStarts
<1>2. /\ UNCHANGED <<task, toWrite, durable>>
      /\ at'["consumer"] = at["consumer"] /\ using'["consumer"] = using["consumer"]
  <2>1. CASE NoResponse("probe") \/ Cancelled("probe")
    BY <1>0, <2>1, RaisingFrame DEF StatementRaises, Raise, MoveTo, StoreConnTypeOK
  <2>2. CASE Select1 \/ ServerStops \/ ServerStarts
    BY <1>0, <2>2 DEF Select1, ServerStops, ServerStarts, MoveTo, writeVars, StoreConnTypeOK
  <2>3. CASE CheckConn("probe") \/ OpenSession("probe") \/ OpenFails("probe")
    BY <1>0, <2>3 DEF CheckConn, OpenSession, OpenFails, Raise, MoveTo, writeVars, StoreConnTypeOK
  <2>4. CASE Configure("probe") \/ Register("probe") \/ GotConn("probe")
    BY <1>0, <2>4 DEF Configure, Register, GotConn, Raise, MoveTo, writeVars, StoreConnTypeOK
  <2> QED
    BY <2>1, <2>2, <2>3, <2>4
<1>3. spoilt => spoilt'
  BY RaisingFrame DEF CheckConn, OpenSession, OpenFails, Configure, Register, GotConn, Select1,
                      ServerStops, ServerStarts
<1>4. at["consumer"] = "use" /\ sessions'[u].transaction = "aborted" =>
        sessions[u].transaction = "aborted" \/ spoilt'
  <2>1. CASE UNCHANGED sessions
    BY <2>1
  <2>2. CASE OpenSession("probe")
    BY <1>0, <2>2, OpenAdds
  <2>3. CASE Register("probe")
    BY <1>0, <2>3, RegisterSessions, SessionType DEF Sessions
  <2>4. CASE NoResponse("probe")
    <3>1. PICK s \in DOMAIN sessions :
            \A x \in DOMAIN sessions :
              sessions'[x] = IF x = s
                               THEN [sessions[x] EXCEPT !.closed = sessions[x].closed \/ ~sessions[x].alive]
                               ELSE sessions[x]
      BY <1>0, <2>4, NoResponseSessions
    <3>2. sessions[u] \in Sessions
      BY <1>0, SessionType
    <3>3. sessions'[u].transaction = sessions[u].transaction
      BY <1>0, <3>1, <3>2 DEF Sessions
    <3> QED
      BY <3>3
  <2>5. CASE Cancelled("probe")
    BY <1>0, <2>5, CancelledSessions DEF Spoils
  <2>6. CASE Select1
    BY <1>0, <2>6, Select1Sessions, SessionType DEF Sessions
  <2>7. CASE ServerStops
    <3>1. sessions'[u].transaction = sessions[u].transaction
      BY <1>0, <2>7, SessionType DEF ServerStops, StopAll, Sessions
    <3> QED
      BY <3>1
  <2> QED
    BY <2>1, <2>2, <2>3, <2>4, <2>5, <2>6, <2>7
    DEF CheckConn, OpenFails, Configure, GotConn, ServerStarts
<1> QED
  BY <1>1, <1>2, <1>3, <1>4, OthersKeepInv

(* The consumer on its way to a connection. *)
LEMMA ConsumerApproachKeepsInv ==
  ASSUME StoreConnInv, StoreConnTypeOK', at["consumer"] \notin {"use", "rollback"},
         \/ CheckConn("consumer") \/ OpenSession("consumer") \/ OpenFails("consumer")
         \/ Configure("consumer") \/ Register("consumer")
         \/ NoResponse("consumer") \/ Cancelled("consumer")
  PROVE  StoreConnInv'
<1> "consumer" \in Callers
  BY DEF Callers
<1>0. StoreConnTypeOK /\ ClosedIsDead
  BY DEF StoreConnInv
<1>1. SessionsHarmless
  BY <1>0, StatementsHarmless DEF CheckConn, OpenFails, Configure
<1>2. UNCHANGED durable /\ (spoilt => spoilt')
  BY RaisingFrame DEF CheckConn, OpenSession, OpenFails, Configure, Register, writeVars
<1>3. /\ at'["consumer"] \in {"idle", "open", "configure", "register", "got"}
      /\ task' \in {task, "chunks"}
      /\ at'["consumer"] # "idle" => task' = task
  <2>1. CASE NoResponse("consumer") \/ Cancelled("consumer")
    BY <1>0, <2>1, RaisingFrame DEF StatementRaises, Raise, MoveTo, StoreConnTypeOK
  <2>2. CASE CheckConn("consumer") \/ OpenSession("consumer") \/ OpenFails("consumer")
    BY <1>0, <2>2 DEF CheckConn, OpenSession, OpenFails, Raise, MoveTo, writeVars, StoreConnTypeOK
  <2>3. CASE Configure("consumer") \/ Register("consumer")
    BY <1>0, <2>3 DEF Configure, Register, Raise, MoveTo, writeVars, StoreConnTypeOK
  <2> QED
    BY <2>1, <2>2, <2>3
<1>4. at'["consumer"] # "idle" => toWrite' = Writes(task)
  <2>1. CASE CheckConn("consumer")
    BY <2>1 DEF CheckConn
  <2>2. CASE OpenSession("consumer") \/ Configure("consumer") \/ Register("consumer")
    BY <2>2 DEF OpenSession, Configure, Register, writeVars, StoreConnInv, ConsumerWrites
  <2>3. CASE OpenFails("consumer") \/ NoResponse("consumer") \/ Cancelled("consumer")
    <3>1. Raise("consumer")
      BY <2>3, RaisingFrame DEF OpenFails, StatementRaises
    <3> QED
      BY <1>0, <3>1 DEF Raise, MoveTo, StoreConnTypeOK
  <2> QED
    BY <2>1, <2>2, <2>3
<1> QED
  BY <1>1, <1>2, <1>3, <1>4, ApproachKeepsInv DEF Writes

-----------------------------------------------------------------------------
(* The consumer's transaction: its beginning, its writes, and its ends.    *)

(* A session the consumer begins on has nothing pending. *)
LEMMA BeginKeepsInv ==
  ASSUME StoreConnInv, StoreConnTypeOK', GotConn("consumer")
  PROVE  StoreConnInv'
<1> DEFINE u == using'["consumer"]
<1> "consumer" \in Callers
  BY DEF Callers
<1>1. StoreConnTypeOK
  BY DEF StoreConnInv
<1>2. /\ u = storeConn /\ u \in DOMAIN sessions /\ at'["consumer"] = "use"
      /\ at["consumer"] = "got"
      /\ UNCHANGED <<sessions, task, toWrite, durable, spoilt>>
  BY <1>1 DEF GotConn, MoveTo, writeVars, StoreConnTypeOK
<1>3. ClosedIsDead' /\ StatusAfterChunks' /\ StoredBeforeEmbedded'
  BY <1>2 DEF StoreConnInv, ClosedIsDead, StatusAfterChunks, StoredBeforeEmbedded
<1>4. \A s \in DOMAIN sessions : sessions[s].alive => sessions[s].pending = {}
  BY <1>2 DEF StoreConnInv, NothingLeftOver, InTransactionOn
<1>5. NothingLeftOver'
  BY <1>2, <1>4 DEF NothingLeftOver
<1>6. toWrite' = Writes(task)'
  BY <1>2 DEF StoreConnInv, ConsumerWrites, Writes
<1>7. ConsumerWrites'
  BY <1>2, <1>4, <1>6 DEF ConsumerWrites
<1> QED
  BY <1>3, <1>5, <1>7 DEF StoreConnInv

(* What is written moves from toWrite to the session. *)
LEMMA WriteKeepsInv ==
  ASSUME StoreConnInv, StoreConnTypeOK', Write
  PROVE  StoreConnInv'
<1> DEFINE u == using["consumer"]
<1>1. StoreConnTypeOK /\ u \in DOMAIN sessions
  BY DEF StoreConnInv, StoreConnTypeOK, Callers
<1>2. /\ at["consumer"] = "use"
      /\ UNCHANGED <<at, using, task, durable, spoilt>>
  BY DEF Write
<1>3. PICK w \in toWrite :
        /\ toWrite' = toWrite \ {w} /\ DOMAIN sessions' = DOMAIN sessions
        /\ \A x \in DOMAIN sessions :
             sessions'[x] = IF x = u
                              THEN [sessions[x] EXCEPT !.transaction = "open",
                                                       !.pending = @ \cup {w}]
                              ELSE sessions[x]
  BY <1>1, WriteSessions
<1>4. /\ sessions'[u].alive = sessions[u].alive /\ sessions'[u].closed = sessions[u].closed
      /\ sessions'[u].transaction = "open"
      /\ sessions'[u].pending = sessions[u].pending \cup {w}
  BY <1>1, <1>3, SessionType DEF Sessions
<1>5. \A x \in DOMAIN sessions : x # u => sessions'[x] = sessions[x]
  BY <1>3
<1>6. ClosedIsDead'
  BY <1>1, <1>3, <1>4, <1>5 DEF StoreConnInv, ClosedIsDead
<1>7. NothingLeftOver'
  BY <1>1, <1>2, <1>3, <1>5 DEF StoreConnInv, NothingLeftOver, InTransactionOn
<1>8. toWrite \subseteq Writes(task) /\ (sessions[u].alive => sessions[u].pending = Writes(task) \ toWrite)
  BY <1>2 DEF StoreConnInv, ConsumerWrites
<1>9. ConsumerWrites'
  BY <1>2, <1>3, <1>4, <1>8 DEF ConsumerWrites, Writes
<1>10. StatusAfterChunks' /\ StoredBeforeEmbedded'
  BY <1>2 DEF StoreConnInv, StatusAfterChunks, StoredBeforeEmbedded
<1> QED
  BY <1>6, <1>7, <1>9, <1>10 DEF StoreConnInv

(* A statement of the transaction raises: the rollback is next. *)
LEMMA RaiseKeepsInv ==
  ASSUME StoreConnInv, StoreConnTypeOK', at["consumer"] = "use",
         NoResponse("consumer") \/ Cancelled("consumer")
  PROVE  StoreConnInv'
<1> "consumer" \in Callers
  BY DEF Callers
<1>1. StoreConnTypeOK /\ ClosedIsDead
  BY DEF StoreConnInv
<1>2. SessionsHarmless
  BY <1>1, StatementsHarmless
<1>3. /\ at'["consumer"] = "rollback"
      /\ UNCHANGED <<using, task, toWrite, durable>> /\ (spoilt => spoilt')
  BY <1>1, RaisingFrame DEF StatementRaises, MoveTo, StoreConnTypeOK
<1>4. ClosedIsDead'
  BY <1>2 DEF SessionsHarmless, ClosedIsDead
<1>5. NothingLeftOver'
  BY <1>2, <1>3 DEF StoreConnInv, SessionsHarmless, NothingLeftOver, InTransactionOn
<1>6. ConsumerWrites'
  BY <1>3 DEF ConsumerWrites
<1>7. StatusAfterChunks' /\ StoredBeforeEmbedded'
  BY <1>3 DEF StoreConnInv, StatusAfterChunks, StoredBeforeEmbedded
<1> QED
  BY <1>4, <1>5, <1>6, <1>7 DEF StoreConnInv

(* A transaction that ends without a commit the caller knows of. *)
LEMMA EndKeepsInv ==
  ASSUME StoreConnInv, StoreConnTypeOK', at'["consumer"] = "idle", task' = "chunks",
         UNCHANGED spoilt,
         DOMAIN sessions' = DOMAIN sessions,
         \A s \in DOMAIN sessions :
           /\ sessions'[s].closed => ~sessions'[s].alive
           /\ sessions'[s].alive => sessions'[s].pending = {},
         StoredBeforeEmbedded'
  PROVE  StoreConnInv'
<1>1. ClosedIsDead' /\ NothingLeftOver' /\ ConsumerWrites' /\ StatusAfterChunks'
  BY DEF ClosedIsDead, NothingLeftOver, ConsumerWrites, StatusAfterChunks
<1> QED
  BY <1>1 DEF StoreConnInv

(* What a commit finds: all that the transaction had to write, unless the  *)
(* probe has aborted it.                                                   *)
LEMMA ReadyToCommit ==
  ASSUME StoreConnInv, at["consumer"] = "use", toWrite = {}, sessions[using["consumer"]].alive
  PROVE  /\ sessions[using["consumer"]].pending = Writes(task)
         /\ sessions[using["consumer"]].transaction = "aborted" => spoilt
<1>1. Writes(task) # {}
  BY DEF Writes
<1> QED
  BY <1>1 DEF StoreConnInv, ConsumerWrites

(* All of a transaction's writes become durable together. *)
LEMMA WholeTransaction ==
  ASSUME StoreConnInv
  PROVE  LET committed == durable \cup Writes(task) IN
         /\ Pages \subseteq committed \/ Pages \cap committed = {}
         /\ "EMBEDDED" \in committed => Pages \subseteq committed \/ spoilt
         /\ task = "chunks" => Pages \subseteq committed
<1>1. task \in {"chunks", "status"} /\ StatusAfterChunks /\ StoredBeforeEmbedded
  BY DEF StoreConnInv, StoreConnTypeOK
<1>2. CASE task = "chunks"
  BY <1>2 DEF Writes
<1>3. CASE task = "status"
  BY <1>1, <1>3 DEF Writes, StatusAfterChunks, StoredBeforeEmbedded
<1> QED
  BY <1>1, <1>2, <1>3

(* A commit that answers. *)
LEMMA CommitKeepsInv ==
  ASSUME StoreConnInv, StoreConnTypeOK', CommitStore
  PROVE  StoreConnInv'
<1> DEFINE u == using["consumer"]
<1> "consumer" \in Callers
  BY DEF Callers
<1>1. StoreConnTypeOK /\ u \in DOMAIN sessions
  BY DEF StoreConnInv, StoreConnTypeOK
<1>2. /\ at["consumer"] = "use" /\ toWrite = {} /\ sessions[u].alive
      /\ UNCHANGED <<using, toWrite, spoilt>>
      /\ durable' = durable \cup Committed(u)
      /\ at'["consumer"] = "idle"
      /\ task' = IF task = "chunks" THEN "status" ELSE "chunks"
  BY <1>1 DEF CommitStore, Connected, Return, MoveTo, StoreConnTypeOK
<1>3. /\ sessions[u].pending = Writes(task)
      /\ sessions[u].transaction = "aborted" => spoilt
  BY <1>2, ReadyToCommit
<1>4. \/ durable' = durable \cup Writes(task)
      \/ durable' = durable /\ spoilt
  BY <1>2, <1>3 DEF Committed
<1>5. StoredBeforeEmbedded' /\ StatusAfterChunks'
  BY <1>2, <1>4, WholeTransaction DEF StoredBeforeEmbedded, StatusAfterChunks, StoreConnInv
<1>6. /\ DOMAIN sessions' = DOMAIN sessions
      /\ \A x \in DOMAIN sessions : sessions'[x] = IF x = u THEN Ended(x) ELSE sessions[x]
  BY <1>1, CommitSessions
<1>7. /\ Ended(u).alive = sessions[u].alive /\ Ended(u).closed = sessions[u].closed
      /\ Ended(u).pending = {}
  BY <1>1, SessionType DEF Ended, Sessions
<1>8. ClosedIsDead'
  BY <1>1, <1>6, <1>7 DEF StoreConnInv, ClosedIsDead
<1>9. NothingLeftOver'
  BY <1>6, <1>7 DEF StoreConnInv, NothingLeftOver, InTransactionOn
<1>10. ConsumerWrites'
  BY <1>2 DEF ConsumerWrites
<1> QED
  BY <1>5, <1>8, <1>9, <1>10 DEF StoreConnInv

(* The ends of a transaction that the caller takes for failures. *)
LEMMA FailedEndKeepsInv ==
  ASSUME StoreConnInv, StoreConnTypeOK', CommitRaises \/ CommitUnanswered \/ RollBack
  PROVE  StoreConnInv'
<1> DEFINE u == using["consumer"]
<1> "consumer" \in Callers
  BY DEF Callers
<1>1. /\ StoreConnTypeOK /\ u \in DOMAIN sessions
      /\ ClosedIsDead /\ NothingLeftOver
  BY DEF StoreConnInv, StoreConnTypeOK
<1>2. Raise("consumer") /\ UNCHANGED spoilt
  BY DEF CommitRaises, CommitUnanswered, RollBack
<1>3. at'["consumer"] = "idle" /\ task' = "chunks"
  BY <1>1, <1>2 DEF Raise, MoveTo, StoreConnTypeOK
<1>4. \A s \in DOMAIN sessions : s # u /\ sessions[s].alive => sessions[s].pending = {}
  BY <1>1 DEF NothingLeftOver, InTransactionOn
<1>5. CASE CommitRaises
  <2>1. ~Connected(u) /\ UNCHANGED durable
    BY <1>5 DEF CommitRaises
  <2>2. ~sessions[u].alive
    BY <1>1, <2>1, SessionType DEF Connected, ClosedIsDead
  <2>3. /\ DOMAIN sessions' = DOMAIN sessions
        /\ \A x \in DOMAIN sessions :
             sessions'[x] = IF x = u THEN [sessions[x] EXCEPT !.closed = TRUE] ELSE sessions[x]
    BY <1>1, <1>5, CommitRaisesSessions
  <2>4. ~sessions'[u].alive
    BY <1>1, <2>2, <2>3, SessionType DEF Sessions
  <2>5. StoredBeforeEmbedded'
    BY <1>2, <2>1 DEF StoreConnInv, StoredBeforeEmbedded
  <2> QED
    BY <1>1, <1>2, <1>3, <1>4, <2>3, <2>4, <2>5, EndKeepsInv DEF ClosedIsDead
<1>6. CASE CommitUnanswered
  <2>1. /\ at["consumer"] = "use" /\ toWrite = {} /\ sessions[u].alive
        /\ durable' = durable \cup sessions[u].pending
    BY <1>6 DEF CommitUnanswered, Connected
  <2>2. durable' = durable \cup Writes(task)
    BY <2>1, ReadyToCommit
  <2>3. StoredBeforeEmbedded'
    BY <1>2, <2>2, WholeTransaction DEF StoredBeforeEmbedded
  <2>4. DOMAIN sessions' = DOMAIN sessions /\ \A x \in DOMAIN sessions : ~sessions'[x].alive
    BY <1>1, <1>6, UnansweredSessions
  <2> QED
    BY <1>2, <1>3, <2>3, <2>4, EndKeepsInv
<1>7. CASE RollBack
  <2>1. UNCHANGED durable
    BY <1>7 DEF RollBack
  <2>2. /\ DOMAIN sessions' = DOMAIN sessions
        /\ \A x \in DOMAIN sessions : x # u => sessions'[x] = sessions[x]
        /\ sessions'[u] = IF Connected(u) THEN Ended(u) ELSE [sessions[u] EXCEPT !.closed = TRUE]
    BY <1>1, <1>7, RollBackSessions
  <2>3. /\ sessions'[u].closed => ~sessions'[u].alive
        /\ sessions'[u].alive => sessions'[u].pending = {}
    <3>1. CASE Connected(u)
      <4>1. sessions'[u] = Ended(u)
        BY <2>2, <3>1
      <4>2. Ended(u).closed = sessions[u].closed /\ Ended(u).pending = {}
        BY <1>1, SessionType DEF Ended, Sessions
      <4> QED
        BY <3>1, <4>1, <4>2 DEF Connected
    <3>2. CASE ~Connected(u)
      <4>1. ~sessions[u].alive
        BY <1>1, <3>2, SessionType DEF Connected, ClosedIsDead
      <4>2. sessions'[u] = [sessions[u] EXCEPT !.closed = TRUE]
        BY <2>2, <3>2
      <4>3. ~sessions'[u].alive
        BY <1>1, <4>1, <4>2, SessionType DEF Sessions
      <4> QED
        BY <4>3
    <3> QED
      BY <3>1, <3>2
  <2>4. StoredBeforeEmbedded'
    BY <1>2, <2>1 DEF StoreConnInv, StoredBeforeEmbedded
  <2> QED
    BY <1>1, <1>2, <1>3, <1>4, <2>2, <2>3, <2>4, EndKeepsInv DEF ClosedIsDead
<1> QED
  BY <1>5, <1>6, <1>7

-----------------------------------------------------------------------------
(* At the start there is one session, with nothing pending. *)
LEMMA StoreConnInvInit == StoreConnInit => StoreConnInv
<1> SUFFICES ASSUME StoreConnInit
             PROVE  StoreConnInv
  OBVIOUS
<1> "consumer" \in Callers
  BY DEF Callers
<1>1. StoreConnTypeOK
  BY StoreConnTypeInit
<1>2. /\ at["consumer"] = "idle" /\ task = "chunks" /\ durable = {}
      /\ DOMAIN sessions = {1} /\ ~sessions[1].closed /\ sessions[1].pending = {}
  BY DEF StoreConnInit, FreshSession
<1>3. ClosedIsDead /\ NothingLeftOver
  BY <1>2 DEF ClosedIsDead, NothingLeftOver
<1>4. ConsumerWrites /\ StatusAfterChunks /\ StoredBeforeEmbedded
  BY <1>2 DEF ConsumerWrites, StatusAfterChunks, StoredBeforeEmbedded
<1> QED
  BY <1>1, <1>3, <1>4 DEF StoreConnInv

(* Every step keeps the invariant. *)
LEMMA StoreConnInvStep ==
  ASSUME StoreConnInv, [StoreConnNext]_storeConnVars
  PROVE  StoreConnInv'
<1>1. CASE UNCHANGED storeConnVars
  BY <1>1 DEF storeConnVars, postgresVars, writeVars, StoreConnInv, StoreConnTypeOK, ClosedIsDead,
              NothingLeftOver, InTransactionOn, ConsumerWrites, StatusAfterChunks, StoredBeforeEmbedded
<1>2. CASE StoreConnNext
  <2>1. StoreConnTypeOK'
    BY <1>2, StoreConnTypeStep DEF StoreConnInv
  <2>2. ASSUME NEW c \in Callers,
               \/ CheckConn(c) \/ OpenSession(c) \/ OpenFails(c) \/ Configure(c) \/ Register(c)
               \/ GotConn(c) \/ NoResponse(c) \/ Cancelled(c)
        PROVE  StoreConnInv'
    <3>1. CASE c = "probe"
      BY <2>1, <2>2, <3>1, ProbeKeepsInv
    <3>2. CASE c = "consumer" /\ GotConn(c)
      BY <2>1, <3>2, BeginKeepsInv
    <3>3. CASE c = "consumer" /\ ~GotConn(c) /\ at["consumer"] \notin {"use", "rollback"}
      BY <2>1, <2>2, <3>3, ConsumerApproachKeepsInv
    <3>4. CASE c = "consumer" /\ at["consumer"] \in {"use", "rollback"}
      <4>1. at["consumer"] = "use" /\ (NoResponse(c) \/ Cancelled(c))
        BY <2>2, <3>4 DEF CheckConn, OpenSession, OpenFails, Configure, Register, GotConn,
                          NoResponse, Cancelled, Runs
      <4> QED
        BY <2>1, <3>4, <4>1, RaiseKeepsInv
    <3> QED
      BY <3>1, <3>2, <3>3, <3>4 DEF Callers
  <2>3. CASE Select1 \/ ServerStops \/ ServerStarts
    BY <2>1, <2>3, ProbeKeepsInv
  <2>4. CASE Write
    BY <2>1, <2>4, WriteKeepsInv
  <2>5. CASE CommitStore
    BY <2>1, <2>5, CommitKeepsInv
  <2>6. CASE CommitRaises \/ CommitUnanswered \/ RollBack
    BY <2>1, <2>6, FailedEndKeepsInv
  <2> QED
    BY <1>2, <2>2, <2>3, <2>4, <2>5, <2>6 DEF StoreConnNext
<1> QED
  BY <1>1, <1>2

(* A filing's chunks become durable together and before it is EMBEDDED,    *)
(* unless a failing statement of the probe aborted their transaction:      *)
(* ChunkStore._transaction against the health probe on its connection.     *)
THEOREM StoredBeforeEmbeddedCorrect == StoreConnSpec => []StoredBeforeEmbedded
<1>1. StoreConnInv => StoredBeforeEmbedded
  BY DEF StoreConnInv
<1> QED
  BY <1>1, StoreConnInvInit, StoreConnInvStep, PTL DEF StoreConnSpec
=============================================================================
