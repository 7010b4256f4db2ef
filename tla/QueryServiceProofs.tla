------------------------- MODULE QueryServiceProofs -------------------------
(***************************************************************************)
(* The query API, for any number of threads, connections, outages,         *)
(* filings and chunks: the connection (QueryService), then the document    *)
(* list (Documents), then the ranking of sources (Retrieval).              *)
(*                                                                         *)
(* At the bottom of SelectTuned, OneConnection and OutagesHeal is that     *)
(* only the current connection can be alive: it is replaced by the holder  *)
(* of the connection's lock, who found it closed, and closed is said only  *)
(* of a connection that is dead.                                           *)
(***************************************************************************)
EXTENDS QueryService, Documents, Retrieval,
        FiniteSetTheorems, SequenceTheorems, WellFoundedInduction, TLAPS

USE QueryAssumption

(* Replacing one record of conns by another. *)
LEMMA ReplaceConnection ==
  ASSUME NEW s \in Seq(Connections), NEW i \in DOMAIN s, NEW r \in Connections
  PROVE  /\ [s EXCEPT ![i] = r] \in Seq(Connections)
         /\ DOMAIN [s EXCEPT ![i] = r] = DOMAIN s
         /\ \A c \in DOMAIN s : [s EXCEPT ![i] = r][c] = IF c = i THEN r ELSE s[c]
<1>1. DOMAIN s = 1..Len(s)
  OBVIOUS
<1>2. [s EXCEPT ![i] = r] \in Seq(Connections)
  BY <1>1, ExceptSeq
<1> QED
  BY <1>2

(* A connection's record, changed in one place, stays one.                 *)
LEMMA MarkClosedConns ==
  ASSUME QueryTypeOK, NEW t \in Threads, MarkClosed(t)
  PROVE  /\ conns' \in Seq(Connections)
         /\ DOMAIN conns' = DOMAIN conns
         /\ \A c \in DOMAIN conns :
              conns'[c] = IF c = cursor[t] THEN [conns[c] EXCEPT !.closed = TRUE] ELSE conns[c]
<1> DEFINE r == [conns[cursor[t]] EXCEPT !.closed = TRUE]
<1>1. cursor[t] \in DOMAIN conns /\ conns \in Seq(Connections)
  BY DEF QueryTypeOK
<1>2. conns[cursor[t]] \in Connections
  BY <1>1, ElementOfSeq
<1>3. r \in Connections
  BY <1>2 DEF Connections
<1>4. conns' = [conns EXCEPT ![cursor[t]] = r]
  BY DEF MarkClosed
<1> HIDE DEF r
<1>5. /\ conns' \in Seq(Connections)
      /\ DOMAIN conns' = DOMAIN conns
      /\ \A c \in DOMAIN conns : conns'[c] = IF c = cursor[t] THEN r ELSE conns[c]
  BY <1>1, <1>3, <1>4, ReplaceConnection
<1> QED
  BY <1>5 DEF r

(* A reconnect adds one fresh connection. *)
LEMMA OpenConnectionConns ==
  ASSUME QueryTypeOK, OpenConnection
  PROVE  /\ conns' \in Seq(Connections)
         /\ conn' = Len(conns) + 1
         /\ DOMAIN conns' = DOMAIN conns \cup {conn'}
         /\ conn' \notin DOMAIN conns
         /\ \A c \in DOMAIN conns : conns'[c] = conns[c]
         /\ conns'[conn'] = Fresh
<1>1. conns \in Seq(Connections) /\ Fresh \in Connections
  BY DEF QueryTypeOK, Fresh, Connections
<1>2. conns' = Append(conns, Fresh) /\ conn' = Len(conns) + 1
  BY DEF OpenConnection
<1>3. /\ conns' \in Seq(Connections)
      /\ Len(conns') = Len(conns) + 1
      /\ \A c \in 1..Len(conns) : conns'[c] = conns[c]
      /\ conns'[Len(conns) + 1] = Fresh
  BY <1>1, <1>2, AppendProperties
<1>4. DOMAIN conns = 1..Len(conns) /\ DOMAIN conns' = 1..(Len(conns) + 1) /\ Len(conns) \in Nat
  BY <1>1, <1>3
<1> QED
  BY <1>2, <1>3, <1>4

(* SET hnsw.ef_search changes the thread's session and no other. *)
LEMMA SetEfSearchConns ==
  ASSUME QueryTypeOK, NEW t \in Threads, SetEfSearch(t)
  PROVE  /\ conns' \in Seq(Connections)
         /\ DOMAIN conns' = DOMAIN conns
         /\ \A c \in DOMAIN conns :
              conns'[c] = IF c = cursor[t] THEN [conns[c] EXCEPT !.ef = EfSearch(t)] ELSE conns[c]
<1> DEFINE r == [conns[cursor[t]] EXCEPT !.ef = EfSearch(t)]
<1>1. cursor[t] \in DOMAIN conns /\ conns \in Seq(Connections)
  BY DEF QueryTypeOK
<1>2. conns[cursor[t]] \in Connections /\ EfSearch(t) \in Nat
  BY <1>1, ElementOfSeq DEF EfSearch, QueryTypeOK
<1>3. r \in Connections
  BY <1>2 DEF Connections
<1>4. conns' = [conns EXCEPT ![cursor[t]] = r]
  BY DEF SetEfSearch
<1> HIDE DEF r
<1>5. /\ conns' \in Seq(Connections)
      /\ DOMAIN conns' = DOMAIN conns
      /\ \A c \in DOMAIN conns : conns'[c] = IF c = cursor[t] THEN r ELSE conns[c]
  BY <1>1, <1>3, <1>4, ReplaceConnection
<1> QED
  BY <1>5 DEF r

(* So does SET hnsw.iterative_scan. *)
LEMMA SetIterativeScanConns ==
  ASSUME QueryTypeOK, NEW t \in Threads, SetIterativeScan(t)
  PROVE  /\ conns' \in Seq(Connections)
         /\ DOMAIN conns' = DOMAIN conns
         /\ \A c \in DOMAIN conns :
              conns'[c] = IF c = cursor[t] THEN [conns[c] EXCEPT !.iterative = TRUE] ELSE conns[c]
<1> DEFINE r == [conns[cursor[t]] EXCEPT !.iterative = TRUE]
<1>1. cursor[t] \in DOMAIN conns /\ conns \in Seq(Connections)
  BY DEF QueryTypeOK
<1>2. conns[cursor[t]] \in Connections
  BY <1>1, ElementOfSeq
<1>3. r \in Connections
  BY <1>2 DEF Connections
<1>4. conns' = [conns EXCEPT ![cursor[t]] = r]
  BY DEF SetIterativeScan
<1> HIDE DEF r
<1>5. /\ conns' \in Seq(Connections)
      /\ DOMAIN conns' = DOMAIN conns
      /\ \A c \in DOMAIN conns : conns'[c] = IF c = cursor[t] THEN r ELSE conns[c]
  BY <1>1, <1>3, <1>4, ReplaceConnection
<1> QED
  BY <1>5 DEF r

(* All connections break; what the driver knows of them stays.             *)
LEMMA PostgresStopsConns ==
  ASSUME QueryTypeOK, PostgresStops
  PROVE  /\ conns' \in Seq(Connections)
         /\ DOMAIN conns' = DOMAIN conns
         /\ \A c \in DOMAIN conns : ~conns'[c].alive /\ conns'[c].closed = conns[c].closed
<1> DEFINE e(c) == [Fresh EXCEPT !.alive = FALSE, !.closed = conns[c].closed]
<1>1. conns \in Seq(Connections) /\ DOMAIN conns = 1..Len(conns) /\ Len(conns) \in Nat
  BY DEF QueryTypeOK
<1>2. \A c \in 1..Len(conns) : e(c) \in Connections
  BY <1>1, ElementOfSeq DEF Fresh, Connections
<1>3. conns' = [c \in 1..Len(conns) |-> e(c)]
  BY <1>1 DEF PostgresStops
<1>4. [c \in 1..Len(conns) |-> e(c)] \in Seq(Connections)
  <2> HIDE DEF e
  <2> QED
    BY <1>1, <1>2, IsASeq
<1> QED
  BY <1>1, <1>3, <1>4 DEF Fresh

-----------------------------------------------------------------------------
(* The connection the service started with is among conns. *)
LEMMA FirstConnection == QueryTypeOK => 1 \in DOMAIN conns
  BY DEF QueryTypeOK

(* A failed leg leaves the thread's variables well typed. *)
LEMMA LegFailsTypes ==
  ASSUME QueryTypeOK, NEW t \in Threads, NEW r \in BOOLEAN, LegFails(t, r)
  PROVE  /\ searchLock' \in Threads \cup {None}
         /\ pc' \in [Threads -> {"idle", "search", "get", "connect", "tune", "scan", "select",
                                 "lexical", "ping", "generate"}]
         /\ pc'[t] \in {"idle", "generate"}
         /\ \A u \in Threads \ {t} : pc'[u] = pc[u]
         /\ searchLock' = IF leg[t] = "vector" THEN None ELSE searchLock
         /\ leg'[t] \in {"lexical", "probe"}
         /\ \A u \in Threads \ {t} : leg'[u] = leg[u]
         /\ leg' \in [Threads -> {"vector", "lexical", "probe"}]
         /\ cursor' \in [Threads -> DOMAIN conns]
         /\ candidateK' \in [Threads -> Nat] /\ filtered' \in [Threads -> BOOLEAN]
         /\ outcome' \in [Threads -> Outcomes]
         /\ refused' \in [Threads -> BOOLEAN] /\ refused'[t] = r
<1>1. leg[t] \in {"vector", "lexical", "probe"}
  BY DEF QueryTypeOK
<1>5. refused' \in [Threads -> BOOLEAN] /\ refused'[t] = r
  BY DEF LegFails, QueryTypeOK
<1>2. CASE leg[t] = "vector"
  <2>1. End(t, "error") /\ searchLock' = None
    BY <1>2 DEF LegFails
  <2> QED
    BY <2>1, <1>2, <1>5, FirstConnection DEF QueryTypeOK, End, Goto, Outcomes
<1>3. CASE leg[t] = "lexical"
  <2>1. Goto(t, "generate") /\ UNCHANGED <<outcome, Locals, searchLock>>
    BY <1>3 DEF LegFails
  <2> QED
    BY <2>1, <1>3, <1>5 DEF QueryTypeOK, Goto, Locals, Outcomes
<1>4. CASE leg[t] = "probe"
  <2>1. End(t, "unhealthy") /\ UNCHANGED searchLock
    BY <1>4 DEF LegFails
  <2> QED
    BY <2>1, <1>4, <1>5, FirstConnection DEF QueryTypeOK, End, Goto, Outcomes
<1> QED
  BY <1>1, <1>2, <1>3, <1>4, <1>5

(* What a server that is up refuses is a yes or a no. *)
LEMMA RefusalType == QueryTypeOK => up \in BOOLEAN /\ \A t \in Threads : Alive(t) \in BOOLEAN
<1> SUFFICES ASSUME QueryTypeOK, NEW t \in Threads
             PROVE  up \in BOOLEAN /\ Alive(t) \in BOOLEAN
  BY DEF QueryTypeOK
<1>1. conns[cursor[t]] \in Connections
  BY ElementOfSeq DEF QueryTypeOK
<1> QED
  BY <1>1 DEF QueryTypeOK, Alive, Connections

(* Initially the types are right. *)
LEMMA QueryTypeInit == QueryInit => QueryTypeOK
<1> SUFFICES ASSUME QueryInit
             PROVE  QueryTypeOK
  OBVIOUS
<1>1. conns \in Seq(Connections) /\ DOMAIN conns = {1}
  BY DEF QueryInit, Fresh, Connections
<1>2. conn \in DOMAIN conns /\ cursor \in [Threads -> DOMAIN conns]
  BY <1>1 DEF QueryInit
<1>6. outages \in 0..MaxOutages
  <2>1. outages = 0
    BY DEF QueryInit
  <2> QED
    BY <2>1
<1>3. /\ up \in BOOLEAN
      /\ connLock = None /\ searchLock = None /\ unsupported \in BOOLEAN
      /\ candidateK \in [Threads -> Nat] /\ filtered \in [Threads -> BOOLEAN]
      /\ outcome \in [Threads -> Outcomes] /\ clean \in [Threads -> BOOLEAN]
      /\ refused \in [Threads -> BOOLEAN]
  BY DEF QueryInit, Outcomes
<1>4. /\ pc \in [Threads -> {"idle"}] /\ leg \in [Threads -> {"probe"}]
  BY DEF QueryInit
<1>5. \A t \in Threads : None # t
  OBVIOUS
<1> QED
  BY <1>1, <1>2, <1>3, <1>4, <1>5, <1>6 DEF QueryTypeOK

(* Every step keeps the types, and the ownership of both locks. *)
LEMMA QueryTypeStep ==
  ASSUME QueryTypeOK, QueryNext
  PROVE  QueryTypeOK'
<1>1. ASSUME NEW t \in Threads, Ask(t)
      PROVE  QueryTypeOK'
  BY <1>1 DEF QueryTypeOK, Ask, Arrive, Goto, dbVars, lockVars, historyVars, Outcomes
<1>2. ASSUME NEW t \in Threads, Health(t)
      PROVE  QueryTypeOK'
  BY <1>2 DEF QueryTypeOK, Health, Arrive, Goto, dbVars, lockVars, historyVars, askVars, Outcomes
<1>3. ASSUME NEW t \in Threads, LockSearch(t)
      PROVE  QueryTypeOK'
  BY <1>3 DEF QueryTypeOK, LockSearch, Goto, dbVars, askVars, historyVars
<1>4. ASSUME NEW t \in Threads, GetConn(t)
      PROVE  QueryTypeOK'
  <2>1. CASE Usable
    <3>1. leg[t] \in {"vector", "lexical", "probe"}
      BY DEF QueryTypeOK
    <3>2. /\ Begin(leg[t]) \in {"tune", "lexical", "ping"}
          /\ Begin(leg[t]) = "tune" => leg[t] = "vector"
      BY <3>1 DEF Begin
    <3> QED
      BY <1>4, <2>1, <3>2 DEF QueryTypeOK, GetConn, Goto, dbVars, askVars, historyVars
  <2>2. CASE ~Usable
    <3>1. /\ pc[t] = "get" /\ connLock = None /\ connLock' = t
          /\ pc' = [pc EXCEPT ![t] = "connect"]
          /\ UNCHANGED <<up, outages, conns, conn, searchLock, unsupported, leg, cursor,
                         candidateK, filtered, outcome, clean, refused>>
      BY <1>4, <2>2 DEF GetConn, Goto, dbVars, askVars, historyVars
    <3>2. \A u \in Threads : pc[u] # "connect"
      BY <3>1 DEF QueryTypeOK
    <3> QED
      BY <3>1, <3>2 DEF QueryTypeOK
  <2> QED
    BY <2>1, <2>2
<1>5. ASSUME NEW t \in Threads, Connect(t)
      PROVE  QueryTypeOK'
  BY <1>5, OpenConnectionConns DEF QueryTypeOK, Connect, Goto, Begin, dbVars, askVars, historyVars
<1>6. ASSUME NEW t \in Threads, ConnectFails(t)
      PROVE  QueryTypeOK'
  <2>1. /\ conns' \in Seq(Connections) /\ conn' \in DOMAIN conns'
        /\ DOMAIN conns \subseteq DOMAIN conns'
    <3>1. CASE UNCHANGED <<conns, conn>>
      BY <3>1 DEF QueryTypeOK
    <3>2. CASE OpenConnection
      BY <3>2, OpenConnectionConns
    <3> QED
      BY <1>6, <3>1, <3>2 DEF ConnectFails
  <2>2. /\ pc[t] = "connect" /\ connLock' = None /\ LegFails(t, up)
        /\ UNCHANGED <<up, outages, unsupported, clean>>
    BY <1>6 DEF ConnectFails, dbVars
  <2>3. up \in BOOLEAN
    BY RefusalType
  <2>4. /\ searchLock' \in Threads \cup {None}
        /\ pc' \in [Threads -> {"idle", "search", "get", "connect", "tune", "scan", "select",
                               "lexical", "ping", "generate"}]
        /\ leg' \in [Threads -> {"vector", "lexical", "probe"}]
        /\ cursor' \in [Threads -> DOMAIN conns]
        /\ candidateK' \in [Threads -> Nat] /\ filtered' \in [Threads -> BOOLEAN]
        /\ outcome' \in [Threads -> Outcomes]
        /\ refused' \in [Threads -> BOOLEAN]
    BY <2>2, <2>3, LegFailsTypes
  <2>5. /\ pc'[t] \in {"idle", "generate"}
        /\ leg'[t] \in {"lexical", "probe"}
        /\ \A u \in Threads \ {t} : pc'[u] = pc[u] /\ leg'[u] = leg[u]
        /\ searchLock' = IF leg[t] = "vector" THEN None ELSE searchLock
    BY <2>2, <2>3, LegFailsTypes, Zenon
  <2>6. \A u \in Threads :
          /\ connLock = u <=> pc[u] = "connect"
          /\ pc[u] \in {"tune", "scan", "select"} => leg[u] = "vector"
          /\ leg[u] = "vector" /\ pc[u] # "search" => searchLock = u
    BY Zenon DEF QueryTypeOK
  <2>7. \A u \in Threads :
          /\ connLock' = u <=> pc'[u] = "connect"
          /\ pc'[u] \in {"tune", "scan", "select"} => leg'[u] = "vector"
          /\ leg'[u] = "vector" /\ pc'[u] # "search" => searchLock' = u
    BY <2>2, <2>5, <2>6
  <2>8. cursor' \in [Threads -> DOMAIN conns']
    BY <2>1, <2>4
  <2>9. /\ up' \in BOOLEAN /\ outages' \in 0..MaxOutages
        /\ connLock' \in Threads \cup {None}
        /\ unsupported' \in BOOLEAN /\ clean' \in [Threads -> BOOLEAN]
    BY <2>2, Zenon DEF QueryTypeOK
  <2> QED
    BY <2>1, <2>4, <2>7, <2>8, <2>9, Zenon DEF QueryTypeOK
<1>7. ASSUME NEW t \in Threads, SetEfSearch(t)
      PROVE  QueryTypeOK'
  BY <1>7, SetEfSearchConns DEF QueryTypeOK, SetEfSearch, Goto, dbVars, lockVars, historyVars, askVars
<1>8. ASSUME NEW t \in Threads, SetIterativeScan(t)
      PROVE  QueryTypeOK'
  BY <1>8, SetIterativeScanConns DEF QueryTypeOK, SetIterativeScan, Goto, dbVars, lockVars, historyVars, askVars
<1>9. ASSUME NEW t \in Threads, SetIterativeScanFails(t)
      PROVE  QueryTypeOK'
  BY <1>9, MarkClosedConns DEF QueryTypeOK, SetIterativeScanFails, Goto, dbVars, lockVars, historyVars, askVars
<1>10. ASSUME NEW t \in Threads, Select(t)
       PROVE  QueryTypeOK'
  BY <1>10 DEF QueryTypeOK, Select, Goto, dbVars, askVars, historyVars
<1>11. ASSUME NEW t \in Threads, LexicalSelect(t)
       PROVE  QueryTypeOK'
  BY <1>11 DEF QueryTypeOK, LexicalSelect, Goto, dbVars, lockVars, historyVars, askVars
<1>12. ASSUME NEW t \in Threads, Ping(t) \/ Generate(t)
       PROVE  QueryTypeOK'
  <2>1. /\ pc[t] \in {"ping", "generate"}
        /\ \E o \in Outcomes : End(t, o)
        /\ UNCHANGED <<dbVars, conns, conn, lockVars, unsupported, historyVars>>
    BY <1>12 DEF Ping, Generate, Outcomes
  <2> QED
    BY <2>1, FirstConnection DEF QueryTypeOK, End, Goto, dbVars, lockVars, historyVars
<1>13. ASSUME NEW t \in Threads, StatementFails(t)
       PROVE  QueryTypeOK'
  <2>1. conns' \in Seq(Connections) /\ DOMAIN conns' = DOMAIN conns
    <3>1. CASE Alive(t)
      BY <1>13, <3>1 DEF StatementFails, QueryTypeOK
    <3>2. CASE ~Alive(t)
      BY <1>13, <3>2, MarkClosedConns DEF StatementFails
    <3> QED
      BY <3>1, <3>2
  <2> QED
    <3>1. /\ pc[t] \in {"tune", "select", "lexical", "ping"}
          /\ UNCHANGED <<up, outages, conn, connLock, unsupported, clean>>
      BY <1>13 DEF StatementFails, dbVars
    <3>2. LegFails(t, Alive(t)) /\ Alive(t) \in BOOLEAN
      BY <1>13, RefusalType DEF StatementFails
    <3>3. \A u \in Threads :
            /\ connLock' = u <=> pc'[u] = "connect"
            /\ pc'[u] \in {"tune", "scan", "select"} => leg'[u] = "vector"
            /\ leg'[u] = "vector" /\ pc'[u] # "search" => searchLock' = u
      <4>1. \A u \in Threads :
              /\ connLock = u <=> pc[u] = "connect"
              /\ pc[u] \in {"tune", "scan", "select"} => leg[u] = "vector"
              /\ leg[u] = "vector" /\ pc[u] # "search" => searchLock = u
        BY Zenon DEF QueryTypeOK
      <4>2. /\ pc'[t] \in {"idle", "generate"}
            /\ leg'[t] \in {"lexical", "probe"}
            /\ \A u \in Threads \ {t} : pc'[u] = pc[u] /\ leg'[u] = leg[u]
            /\ searchLock' = IF leg[t] = "vector" THEN None ELSE searchLock
        BY <3>2, LegFailsTypes, Zenon
      <4> QED
        BY <3>1, <4>1, <4>2
    <3>4. /\ searchLock' \in Threads \cup {None}
          /\ pc' \in [Threads -> {"idle", "search", "get", "connect", "tune", "scan", "select",
                                 "lexical", "ping", "generate"}]
          /\ leg' \in [Threads -> {"vector", "lexical", "probe"}]
          /\ cursor' \in [Threads -> DOMAIN conns]
          /\ candidateK' \in [Threads -> Nat] /\ filtered' \in [Threads -> BOOLEAN]
          /\ outcome' \in [Threads -> Outcomes]
          /\ refused' \in [Threads -> BOOLEAN]
      BY <3>2, LegFailsTypes
    <3>5. /\ up' \in BOOLEAN /\ outages' \in 0..MaxOutages
          /\ conn' \in DOMAIN conns
          /\ connLock' \in Threads \cup {None}
          /\ unsupported' \in BOOLEAN /\ clean' \in [Threads -> BOOLEAN]
      BY <3>1, Zenon DEF QueryTypeOK
    <3> QED
      BY <2>1, <3>3, <3>4, <3>5, Zenon DEF QueryTypeOK
<1>14. CASE PostgresStops
  <2>1. conns' \in Seq(Connections) /\ DOMAIN conns' = DOMAIN conns
    BY <1>14, PostgresStopsConns
  <2>2. up' \in BOOLEAN /\ outages' \in 0..MaxOutages
    <3>1. outages \in 0..MaxOutages
      BY Zenon DEF QueryTypeOK
    <3>2. outages < MaxOutages /\ outages' = outages + 1
      BY <1>14, Zenon DEF PostgresStops
    <3>3. up' = FALSE
      BY <1>14, Zenon DEF PostgresStops
    <3>4. outages' \in 0..MaxOutages
      BY <3>1, <3>2
    <3> QED
      BY <3>3, <3>4
  <2>3. /\ UNCHANGED <<conn, connLock, searchLock, unsupported, pc, leg, cursor, candidateK,
                       filtered, outcome, refused>>
        /\ clean' \in [Threads -> BOOLEAN]
    BY <1>14 DEF PostgresStops, lockVars, askVars
  <2> QED
    BY <2>1, <2>2, <2>3 DEF QueryTypeOK
<1>15. CASE PostgresStarts
  BY <1>15 DEF QueryTypeOK, PostgresStarts, lockVars, askVars, historyVars
<1> QED
  BY <1>1, <1>2, <1>3, <1>4, <1>5, <1>6, <1>7, <1>8, <1>9, <1>10, <1>11, <1>12,
     <1>13, <1>14, <1>15 DEF QueryNext, ThreadStep

-----------------------------------------------------------------------------
(* What a step does to the connections: nothing; a failed statement marks  *)
(* the dead one it was on; a thread in the vector leg sets the session of  *)
(* its own; a reconnect opens one; an outage breaks them all.              *)

Quiet == UNCHANGED <<conns, conn>>

Marks(t) ==
  /\ ~Alive(t) /\ conn' = conn
  /\ DOMAIN conns' = DOMAIN conns
  /\ \A c \in DOMAIN conns :
       conns'[c] = IF c = cursor[t] THEN [conns[c] EXCEPT !.closed = TRUE] ELSE conns[c]

Tunes(t) ==
  /\ pc[t] \in {"tune", "scan"} /\ pc'[t] # pc[t]
  /\ conn' = conn
  /\ DOMAIN conns' = DOMAIN conns
  /\ \A c \in DOMAIN conns : /\ conns'[c].alive = conns[c].alive
                             /\ conns'[c].closed = conns[c].closed
                             /\ c # cursor[t] => conns'[c] = conns[c]

Opens ==
  /\ conns[conn].closed
  /\ DOMAIN conns' = DOMAIN conns \cup {conn'}
  /\ conn' \notin DOMAIN conns
  /\ \A c \in DOMAIN conns : conns'[c] = conns[c]
  /\ conns'[conn'] = Fresh

Breaks ==
  /\ up' # up
  /\ conn' = conn
  /\ DOMAIN conns' = DOMAIN conns
  /\ \A c \in DOMAIN conns : ~conns'[c].alive /\ conns'[c].closed = conns[c].closed

(* Only a dead connection is marked closed. *)
LEMMA MarkClosedMarks ==
  ASSUME QueryTypeOK, NEW t \in Threads, MarkClosed(t), ~Alive(t), conn' = conn
  PROVE  Marks(t)
  BY MarkClosedConns, Zenon DEF Marks

(* The two SETs change what a thread may change while it tunes. *)
LEMMA TunesOnly ==
  ASSUME QueryTypeOK, NEW t \in Threads, SetEfSearch(t) \/ SetIterativeScan(t)
  PROVE  Tunes(t)
<1>1. \A c \in DOMAIN conns : conns[c] \in Connections
  BY ElementOfSeq DEF QueryTypeOK
<1>2. conn' = conn
  BY DEF SetEfSearch, SetIterativeScan
<1>5. pc[t] \in {"tune", "scan"} /\ pc'[t] # pc[t]
  BY DEF QueryTypeOK, SetEfSearch, SetIterativeScan, Goto
<1>3. CASE SetEfSearch(t)
  BY <1>1, <1>2, <1>3, <1>5, SetEfSearchConns DEF Tunes, Connections
<1>4. CASE SetIterativeScan(t)
  BY <1>1, <1>2, <1>4, <1>5, SetIterativeScanConns DEF Tunes, Connections
<1> QED
  BY <1>3, <1>4

(* Connect makes the new connection the current one. *)
LEMMA OpensOne ==
  ASSUME QueryTypeOK, ReplacedWhenClosed, NEW t \in Threads, pc[t] = "connect", OpenConnection
  PROVE  Opens
<1>1. connLock = t
  BY Zenon DEF QueryTypeOK
<1>2. t # None
  OBVIOUS
<1>3. conns[conn].closed
  BY <1>1, <1>2, Zenon DEF ReplacedWhenClosed
<1> QED
  BY <1>3, OpenConnectionConns, Zenon DEF Opens

(* The steps of a thread that leave the connections alone.                 *)
LEMMA QuietSteps ==
  ASSUME QueryTypeOK, NEW t \in Threads,
         \/ Ask(t) \/ Health(t) \/ LockSearch(t) \/ GetConn(t)
         \/ Select(t) \/ LexicalSelect(t) \/ Ping(t) \/ Generate(t)
  PROVE  Quiet
<1>1. CASE Ask(t)
  BY <1>1, Zenon DEF Ask, Arrive, Quiet
<1>2. CASE Health(t)
  BY <1>2, Zenon DEF Health, Arrive, Quiet
<1>3. CASE LockSearch(t)
  BY <1>3, Zenon DEF LockSearch, Quiet
<1>4. CASE GetConn(t)
  BY <1>4, Zenon DEF GetConn, Quiet
<1>5. CASE Select(t) \/ LexicalSelect(t)
  BY <1>5, Zenon DEF Select, LexicalSelect, Quiet
<1>6. CASE Ping(t) \/ Generate(t)
  BY <1>6, Zenon DEF Ping, Generate, Quiet
<1> QED
  BY <1>1, <1>2, <1>3, <1>4, <1>5, <1>6

(* A step marks, tunes or opens one connection, breaks all, or leaves them alone. *)
LEMMA ConnectionsStep ==
  ASSUME QueryTypeOK, ReplacedWhenClosed, QueryNext
  PROVE  \/ Quiet
         \/ \E t \in Threads : Marks(t)
         \/ \E t \in Threads : Tunes(t)
         \/ Opens
         \/ Breaks
<1>1. ASSUME NEW t \in Threads, SetIterativeScanFails(t)
      PROVE  Quiet \/ Marks(t)
  <2>1. CASE Alive(t)
    BY <1>1, <2>1, Zenon DEF SetIterativeScanFails, Quiet
  <2>2. CASE ~Alive(t)
    <3>1. MarkClosed(t) /\ conn' = conn
      BY <1>1, <2>2, Zenon DEF SetIterativeScanFails
    <3> QED
      BY <2>2, <3>1, MarkClosedMarks
  <2> QED
    BY <2>1, <2>2
<1>2. ASSUME NEW t \in Threads, StatementFails(t)
      PROVE  Quiet \/ Marks(t)
  <2>1. CASE Alive(t)
    BY <1>2, <2>1, Zenon DEF StatementFails, Quiet
  <2>2. CASE ~Alive(t)
    <3>1. MarkClosed(t) /\ conn' = conn
      BY <1>2, <2>2, Zenon DEF StatementFails
    <3> QED
      BY <2>2, <3>1, MarkClosedMarks
  <2> QED
    BY <2>1, <2>2
<1>3. CASE PostgresStops
  <2>1. conn' = conn /\ up' # up
    BY <1>3, Zenon DEF PostgresStops
  <2> QED
    BY <1>3, <2>1, PostgresStopsConns, Zenon DEF Breaks
<1>4. CASE PostgresStarts
  BY <1>4, Zenon DEF PostgresStarts, Quiet
<1>5. ASSUME NEW t \in Threads, Connect(t)
      PROVE  Opens
  BY <1>5, OpensOne, Zenon DEF Connect
<1>6. ASSUME NEW t \in Threads, ConnectFails(t)
      PROVE  Quiet \/ Opens
  BY <1>6, OpensOne, Zenon DEF ConnectFails, Quiet
<1> QED
  BY <1>1, <1>2, <1>3, <1>4, <1>5, <1>6, QuietSteps, TunesOnly, Zenon DEF QueryNext, ThreadStep

(* A connection stays where it is, dead once dead and closed once closed;  *)
(* but for an outage the live ones live on, and but for the thread that    *)
(* tunes it a live session stays as it was.                                *)
LEMMA ConnectionsKept ==
  ASSUME QueryTypeOK, ReplacedWhenClosed, QueryNext, NEW c \in DOMAIN conns
  PROVE  /\ c \in DOMAIN conns'
         /\ conns'[c].alive => conns[c].alive
         /\ conns[c].closed => conns'[c].closed
         /\ conns[c].alive => conns'[c].alive \/ Breaks
         /\ conns'[c].alive => \/ conns'[c] = conns[c]
                               \/ \E t \in Threads : Tunes(t) /\ c = cursor[t]
<1>1. conns[c] \in Connections
  BY ElementOfSeq DEF QueryTypeOK
<1>2. CASE Quiet
  BY <1>2 DEF Quiet
<1>3. ASSUME NEW t \in Threads, Marks(t)
      PROVE  /\ c \in DOMAIN conns'
             /\ conns'[c].alive = conns[c].alive
             /\ conns[c].closed => conns'[c].closed
             /\ conns'[c].alive => conns'[c] = conns[c]
  <2>1. CASE c = cursor[t]
    <3>1. conns'[c] = [conns[c] EXCEPT !.closed = TRUE] /\ ~conns[c].alive
      BY <1>3, <2>1, Zenon DEF Marks, Alive
    <3>2. conns'[c].alive = conns[c].alive /\ conns'[c].closed
      BY <1>1, <3>1 DEF Connections
    <3> QED
      BY <1>3, <3>1, <3>2, Zenon DEF Marks
  <2>2. CASE c # cursor[t]
    BY <1>3, <2>2, Zenon DEF Marks
  <2> QED
    BY <2>1, <2>2
<1>4. ASSUME NEW t \in Threads, Tunes(t)
      PROVE  /\ c \in DOMAIN conns'
             /\ conns'[c].alive = conns[c].alive
             /\ conns'[c].closed = conns[c].closed
             /\ c # cursor[t] => conns'[c] = conns[c]
  BY <1>4, Zenon DEF Tunes
<1>5. CASE Opens
  BY <1>5, Zenon DEF Opens
<1>6. CASE Breaks
  BY <1>6, Zenon DEF Breaks
<1> QED
  BY <1>2, <1>3, <1>4, <1>5, <1>6, ConnectionsStep, Zenon

(* Only the current connection is ever alive. *)
LEMMA OnlyCurrentAliveStep ==
  ASSUME QueryTypeOK, OnlyCurrentAlive, ReplacedWhenClosed, QueryNext
  PROVE  OnlyCurrentAlive'
<1> SUFFICES ASSUME NEW c \in DOMAIN conns', conns'[c].alive
             PROVE  c = conn' /\ ~conns'[c].closed
  BY DEF OnlyCurrentAlive
<1>1. CASE Quiet
  BY <1>1, Zenon DEF Quiet, OnlyCurrentAlive
<1>2. ASSUME NEW t \in Threads, Marks(t)
      PROVE  c = conn' /\ ~conns'[c].closed
  <2>1. c \in DOMAIN conns /\ conns[c].alive /\ conn' = conn
    BY <1>2, ConnectionsKept, Zenon DEF Marks
  <2>2. c # cursor[t]
    BY <1>2, <2>1, Zenon DEF Marks, Alive
  <2> QED
    BY <1>2, <2>1, <2>2, Zenon DEF Marks, OnlyCurrentAlive
<1>3. ASSUME NEW t \in Threads, Tunes(t)
      PROVE  c = conn' /\ ~conns'[c].closed
  BY <1>3, Zenon DEF Tunes, OnlyCurrentAlive
<1>4. CASE Opens
  <2>1. CASE c = conn'
    <3>1. conns'[c] = Fresh
      BY <1>4, <2>1, Zenon DEF Opens
    <3>2. ~Fresh.closed
      BY DEF Fresh
    <3> QED
      BY <2>1, <3>1, <3>2, Zenon
  <2>2. CASE c # conn'
    BY <1>4, <2>2, Zenon DEF Opens, OnlyCurrentAlive
  <2> QED
    BY <2>1, <2>2
<1>5. CASE Breaks
  BY <1>5, Zenon DEF Breaks
<1> QED
  BY <1>1, <1>2, <1>3, <1>4, <1>5, ConnectionsStep, Zenon

(* The connection's lock is taken of a closed connection, which nobody     *)
(* else then replaces.                                                     *)
LEMMA ConnLockStep ==
  ASSUME QueryTypeOK, QueryNext
  PROVE  \/ connLock' = None
         \/ connLock' = connLock /\ conn' = conn
         \/ ~Usable /\ Quiet
<1>1. ASSUME NEW t \in Threads, Ask(t) \/ Health(t)
      PROVE  connLock' = connLock /\ conn' = conn
  BY <1>1, Zenon DEF Ask, Health, Arrive, lockVars
<1>2. ASSUME NEW t \in Threads, GetConn(t)
      PROVE  (connLock' = connLock /\ conn' = conn) \/ (~Usable /\ Quiet)
  BY <1>2, Zenon DEF GetConn, Quiet
<1>3. ASSUME NEW t \in Threads, Connect(t) \/ ConnectFails(t)
      PROVE  connLock' = None
  BY <1>3, Zenon DEF Connect, ConnectFails
<1>4. ASSUME NEW t \in Threads,
             \/ LockSearch(t) \/ SetEfSearch(t) \/ SetIterativeScan(t) \/ SetIterativeScanFails(t)
             \/ Select(t) \/ LexicalSelect(t) \/ Ping(t) \/ StatementFails(t) \/ Generate(t)
      PROVE  connLock' = connLock /\ conn' = conn
  BY <1>4 DEF LockSearch, SetEfSearch, SetIterativeScan, SetIterativeScanFails, Select,
       LexicalSelect, Ping, StatementFails, Generate, lockVars
<1>5. CASE PostgresStops \/ PostgresStarts
  BY <1>5, Zenon DEF PostgresStops, PostgresStarts, lockVars
<1> QED
  BY <1>1, <1>2, <1>3, <1>4, <1>5, Zenon DEF QueryNext, ThreadStep

(* The connection that is being replaced is closed. *)
LEMMA ReplacedWhenClosedStep ==
  ASSUME QueryTypeOK, ReplacedWhenClosed, QueryNext
  PROVE  ReplacedWhenClosed'
<1> SUFFICES ASSUME connLock' # None
             PROVE  conns'[conn'].closed
  BY DEF ReplacedWhenClosed
<1>1. conn \in DOMAIN conns
  BY Zenon DEF QueryTypeOK
<1>2. CASE connLock' = connLock /\ conn' = conn
  BY <1>1, <1>2, ConnectionsKept, Zenon DEF ReplacedWhenClosed
<1>3. CASE ~Usable /\ Quiet
  BY <1>3, Zenon DEF Usable, Quiet
<1> QED
  BY <1>2, <1>3, ConnLockStep

-----------------------------------------------------------------------------
(* A thread's step leaves the others where they were. *)
Bystander(u) ==
  /\ pc'[u] = pc[u] /\ cursor'[u] = cursor[u]
  /\ candidateK'[u] = candidateK[u] /\ filtered'[u] = filtered[u]
  /\ outcome'[u] = outcome[u] /\ clean'[u] = clean[u] /\ refused'[u] = refused[u]

(* The end of one request is no concern of another thread's. *)
LEMMA EndBystander ==
  ASSUME QueryTypeOK, NEW t \in Threads, NEW o, End(t, o), clean' = clean,
         NEW u \in Threads \ {t}, refused'[u] = refused[u]
  PROVE  Bystander(u)
  BY DEF QueryTypeOK, End, Goto, Bystander

(* Nor is the failure of a leg. *)
LEMMA LegFailsBystander ==
  ASSUME QueryTypeOK, NEW t \in Threads, NEW r, LegFails(t, r), clean' = clean,
         NEW u \in Threads \ {t}
  PROVE  Bystander(u)
<1>5. refused'[u] = refused[u]
  BY DEF LegFails, QueryTypeOK
<1>1. leg[t] \in {"vector", "lexical", "probe"}
  BY DEF QueryTypeOK
<1>2. CASE leg[t] = "vector"
  BY <1>2, <1>5, EndBystander DEF LegFails
<1>3. CASE leg[t] = "lexical"
  <2>1. Goto(t, "generate") /\ UNCHANGED <<outcome, Locals>>
    BY <1>3 DEF LegFails
  <2> QED
    BY <2>1, <1>5 DEF QueryTypeOK, Goto, Locals, Bystander
<1>4. CASE leg[t] = "probe"
  BY <1>4, <1>5, EndBystander DEF LegFails
<1> QED
  BY <1>1, <1>2, <1>3, <1>4

(* A thread's step leaves the local state of the others alone. *)
LEMMA OthersStay ==
  ASSUME QueryTypeOK, NEW t \in Threads, Ask(t) \/ Health(t) \/ ThreadStep(t),
         NEW u \in Threads \ {t}
  PROVE  Bystander(u)
<1>1. CASE Ask(t) \/ Health(t)
  BY <1>1 DEF QueryTypeOK, Ask, Health, Arrive, Goto, askVars, historyVars, Bystander
<1>2. CASE GetConn(t) \/ Connect(t)
  BY <1>2 DEF QueryTypeOK, GetConn, Connect, Goto, askVars, historyVars, Bystander
<1>3. CASE ConnectFails(t) \/ StatementFails(t)
  BY <1>3, LegFailsBystander DEF ConnectFails, StatementFails
<1>4. CASE LockSearch(t) \/ SetEfSearch(t) \/ SetIterativeScan(t) \/ SetIterativeScanFails(t)
           \/ Select(t) \/ LexicalSelect(t)
  BY <1>4 DEF QueryTypeOK, LockSearch, SetEfSearch, SetIterativeScan, SetIterativeScanFails,
       Select, LexicalSelect, Goto, askVars, historyVars, Bystander
<1>5. CASE Ping(t) \/ Generate(t)
  BY <1>5, EndBystander DEF Ping, Generate, historyVars
<1> QED
  BY <1>1, <1>2, <1>3, <1>4, <1>5 DEF ThreadStep

(* So does Postgres. *)
LEMMA EnvironmentStays ==
  ASSUME PostgresStops \/ PostgresStarts, NEW u \in Threads
  PROVE  /\ pc'[u] = pc[u] /\ cursor'[u] = cursor[u]
         /\ candidateK'[u] = candidateK[u] /\ filtered'[u] = filtered[u]
         /\ outcome'[u] = outcome[u] /\ refused'[u] = refused[u]
  BY Zenon DEF PostgresStops, PostgresStarts, askVars, historyVars

(* Once given up, hnsw.iterative_scan is not tried again. *)
LEMMA UnsupportedStays ==
  ASSUME QueryNext
  PROVE  unsupported => unsupported'
<1>1. ASSUME NEW t \in Threads, Ask(t) \/ Health(t) \/ GetConn(t) \/ Connect(t) \/ ConnectFails(t)
      PROVE  unsupported' = unsupported
  BY <1>1, Zenon DEF Ask, Health, Arrive, GetConn, Connect, ConnectFails
<1>2. ASSUME NEW t \in Threads,
             LockSearch(t) \/ SetEfSearch(t) \/ SetIterativeScan(t) \/ Select(t) \/ LexicalSelect(t)
      PROVE  unsupported' = unsupported
  BY <1>2, Zenon DEF LockSearch, SetEfSearch, SetIterativeScan, Select, LexicalSelect
<1>3. ASSUME NEW t \in Threads, Ping(t) \/ StatementFails(t) \/ Generate(t)
      PROVE  unsupported' = unsupported
  BY <1>3, Zenon DEF Ping, StatementFails, Generate
<1>4. ASSUME NEW t \in Threads, SetIterativeScanFails(t)
      PROVE  unsupported'
  BY <1>4, Zenon DEF SetIterativeScanFails
<1>5. CASE PostgresStops \/ PostgresStarts
  BY <1>5, Zenon DEF PostgresStops, PostgresStarts
<1> QED
  BY <1>1, <1>2, <1>3, <1>4, <1>5, Zenon DEF QueryNext, ThreadStep

-----------------------------------------------------------------------------
(* SelectTuned *)

Tuned(u) ==
  /\ pc[u] \in {"scan", "select"} /\ Alive(u) => conns[cursor[u]].ef = EfSearch(u)
  /\ pc[u] = "select" /\ Alive(u) /\ filtered[u] /\ ~unsupported => conns[cursor[u]].iterative

(* The two invariants of tuned sessions, thread by thread. *)
LEMMA TunedThreads == ScanTuned /\ SelectTuned <=> \A u \in Threads : Tuned(u)
<1>1. ASSUME ScanTuned, SelectTuned, NEW u \in Threads
      PROVE  Tuned(u)
  BY <1>1 DEF ScanTuned, SelectTuned, Tuned
<1>2. ASSUME \A u \in Threads : Tuned(u)
      PROVE  ScanTuned /\ SelectTuned
  BY <1>2 DEF ScanTuned, SelectTuned, Tuned
<1> QED
  BY <1>1, <1>2

(* Of a thread that does not step, another cannot change the session: to   *)
(* tune it, it would have to hold the search lock.                         *)
LEMMA StayingTuned ==
  ASSUME QueryTypeOK, ReplacedWhenClosed, QueryNext, NEW u \in Threads, Tuned(u),
         pc'[u] = pc[u], cursor'[u] = cursor[u],
         candidateK'[u] = candidateK[u], filtered'[u] = filtered[u]
  PROVE  Tuned(u)'
<1> SUFFICES ASSUME pc[u] \in {"scan", "select"}, Alive(u)'
             PROVE  Tuned(u)'
  BY DEF Tuned
<1>1. cursor[u] \in DOMAIN conns /\ searchLock = u
  BY DEF QueryTypeOK
<1>2. Alive(u)
  BY <1>1, ConnectionsKept, Zenon DEF Alive
<1>3. ASSUME NEW t \in Threads, Tunes(t)
      PROVE  FALSE
  <2>1. searchLock = t
    BY <1>3 DEF Tunes, QueryTypeOK
  <2>2. t = u
    BY <1>1, <2>1
  <2> QED
    BY <1>3, <2>2, Zenon DEF Tunes
<1>4. conns'[cursor[u]] = conns[cursor[u]]
  <2>1. conns'[cursor[u]].alive
    BY Zenon DEF Alive
  <2> QED
    BY <1>1, <1>3, <2>1, ConnectionsKept, Zenon
<1>5. EfSearch(u)' = EfSearch(u)
  BY DEF EfSearch
<1>6. ~unsupported' => ~unsupported
  BY UnsupportedStays
<1> QED
  BY <1>2, <1>4, <1>5, <1>6, Zenon DEF Tuned, Alive

(* A thread comes to its SELECT from its SETs only. *)
LEMMA OnlyTuningEntersSelect ==
  ASSUME QueryTypeOK, NEW t \in Threads, Ask(t) \/ Health(t) \/ ThreadStep(t),
         pc'[t] \in {"scan", "select"}
  PROVE  SetEfSearch(t) \/ SetIterativeScan(t) \/ SetIterativeScanFails(t)
<1>1. leg[t] \in {"vector", "lexical", "probe"}
  BY DEF QueryTypeOK
<1>2. Begin(leg[t]) \in {"tune", "lexical", "ping"}
  BY <1>1 DEF Begin
<1>3. \A l : Goto(t, l) => pc'[t] = l
  BY DEF QueryTypeOK, Goto
<1>4. CASE Ask(t) \/ Health(t) \/ LockSearch(t) \/ Select(t) \/ LexicalSelect(t)
  BY <1>3, <1>4 DEF Ask, Health, LockSearch, Select, LexicalSelect
<1>5. CASE GetConn(t) \/ Connect(t)
  BY <1>2, <1>3, <1>5 DEF GetConn, Connect
<1>6. CASE ConnectFails(t) \/ StatementFails(t)
  BY <1>6, LegFailsTypes, RefusalType DEF ConnectFails, StatementFails
<1>7. CASE Ping(t) \/ Generate(t)
  BY <1>3, <1>7 DEF Ping, Generate, End
<1> QED
  BY <1>4, <1>5, <1>6, <1>7 DEF ThreadStep

(* The thread that steps has just tuned its session, or failed to. *)
LEMMA SteppingTuned ==
  ASSUME QueryTypeOK, ReplacedWhenClosed, NEW t \in Threads, Tuned(t),
         Ask(t) \/ Health(t) \/ ThreadStep(t)
  PROVE  Tuned(t)'
<1> SUFFICES ASSUME pc'[t] \in {"scan", "select"}, Alive(t)'
             PROVE  Tuned(t)'
  BY DEF Tuned
<1>1. cursor[t] \in DOMAIN conns /\ conns[cursor[t]] \in Connections
  BY ElementOfSeq DEF QueryTypeOK
<1>2. \A l : Goto(t, l) => pc'[t] = l
  BY DEF QueryTypeOK, Goto
<1>3. CASE SetEfSearch(t)
  <2>1. conns'[cursor[t]] = [conns[cursor[t]] EXCEPT !.ef = EfSearch(t)]
    BY <1>1, <1>3, SetEfSearchConns, Zenon
  <2>2. conns'[cursor[t]].ef = EfSearch(t)
    BY <1>1, <2>1 DEF Connections
  <2>3. UNCHANGED <<cursor, candidateK, filtered, unsupported>>
    BY <1>3, Zenon DEF SetEfSearch, askVars
  <2>4. pc'[t] = "select" => ~(filtered[t] /\ ~unsupported)
    BY <1>2, <1>3 DEF SetEfSearch
  <2>5. EfSearch(t)' = EfSearch(t)
    BY <2>3 DEF EfSearch
  <2> QED
    BY <2>2, <2>3, <2>4, <2>5, Zenon DEF Tuned
<1>4. CASE SetIterativeScan(t)
  <2>1. conns'[cursor[t]] = [conns[cursor[t]] EXCEPT !.iterative = TRUE]
    BY <1>1, <1>4, SetIterativeScanConns, Zenon
  <2>2. conns'[cursor[t]].ef = conns[cursor[t]].ef /\ conns'[cursor[t]].iterative
    BY <1>1, <2>1 DEF Connections
  <2>3. UNCHANGED <<cursor, candidateK, filtered, unsupported>>
    BY <1>4, Zenon DEF SetIterativeScan, askVars
  <2>4. conns[cursor[t]].ef = EfSearch(t)
    BY <1>4 DEF SetIterativeScan, Tuned
  <2>5. EfSearch(t)' = EfSearch(t)
    BY <2>3 DEF EfSearch
  <2> QED
    BY <2>2, <2>3, <2>4, <2>5, Zenon DEF Tuned
<1>5. CASE SetIterativeScanFails(t)
  <2>1. UNCHANGED <<cursor, candidateK>> /\ unsupported' /\ pc[t] = "scan"
    BY <1>5, Zenon DEF SetIterativeScanFails, askVars
  <2>2. Alive(t)
    <3>1. QueryNext
      BY <1>5 DEF QueryNext, ThreadStep
    <3> QED
      BY <1>1, <2>1, <3>1, ConnectionsKept, Zenon DEF Alive
  <2>3. conns' = conns
    BY <1>5, <2>2, Zenon DEF SetIterativeScanFails
  <2>4. EfSearch(t)' = EfSearch(t)
    BY <2>1 DEF EfSearch
  <2> QED
    BY <2>1, <2>2, <2>3, <2>4 DEF Tuned
<1> QED
  BY <1>3, <1>4, <1>5, OnlyTuningEntersSelect

(* Sessions stay tuned through every step. *)
LEMMA TunedStep ==
  ASSUME QueryTypeOK, ReplacedWhenClosed, QueryNext, \A u \in Threads : Tuned(u)
  PROVE  (\A u \in Threads : Tuned(u))'
<1> SUFFICES ASSUME NEW u \in Threads
             PROVE  Tuned(u)'
  OBVIOUS
<1>1. ASSUME NEW t \in Threads, Ask(t) \/ Health(t) \/ ThreadStep(t)
      PROVE  Tuned(u)'
  <2>1. CASE t = u
    BY <1>1, <2>1, SteppingTuned
  <2>2. CASE t # u
    <3>1. Bystander(u)
      BY <1>1, <2>2, OthersStay
    <3> QED
      BY <3>1, StayingTuned DEF Bystander
  <2> QED
    BY <2>1, <2>2
<1>2. CASE PostgresStops \/ PostgresStarts
  BY <1>2, EnvironmentStays, StayingTuned
<1> QED
  BY <1>1, <1>2 DEF QueryNext

-----------------------------------------------------------------------------
(* OutagesHeal *)

AfterGet == {"tune", "scan", "select", "lexical", "ping"}

(* Without an outage the current connection stays one that works or is     *)
(* known not to.                                                           *)
LEMMA CurrentStays ==
  ASSUME QueryTypeOK, ReplacedWhenClosed, QueryNext, ~Breaks,
         conns[conn].alive \/ conns[conn].closed
  PROVE  conns'[conn'].alive \/ conns'[conn'].closed
<1>1. conn \in DOMAIN conns
  BY Zenon DEF QueryTypeOK
<1>2. CASE conn' = conn
  BY <1>1, <1>2, ConnectionsKept, Zenon
<1>3. CASE Opens
  <2>1. conns'[conn'] = Fresh
    BY <1>3, Zenon DEF Opens
  <2>2. Fresh.alive
    BY DEF Fresh
  <2> QED
    BY <2>1, <2>2, Zenon
<1> QED
  BY <1>2, <1>3, ConnectionsStep, Zenon DEF Quiet, Marks, Tunes, Breaks

(* No thread stops or starts Postgres. *)
LEMMA OutagesOnlyByPostgres ==
  ASSUME QueryTypeOK, NEW t \in Threads, Ask(t) \/ Health(t) \/ ThreadStep(t)
  PROVE  up' = up
<1>1. CASE Ask(t) \/ Health(t) \/ GetConn(t) \/ Connect(t) \/ ConnectFails(t)
  BY <1>1, Zenon DEF Ask, Health, Arrive, GetConn, Connect, ConnectFails, dbVars
<1>2. CASE LockSearch(t) \/ SetEfSearch(t) \/ SetIterativeScan(t) \/ SetIterativeScanFails(t)
  BY <1>2, Zenon DEF LockSearch, SetEfSearch, SetIterativeScan, SetIterativeScanFails, dbVars
<1>3. CASE Select(t) \/ LexicalSelect(t) \/ Ping(t) \/ StatementFails(t) \/ Generate(t)
  BY <1>3, Zenon DEF Select, LexicalSelect, Ping, StatementFails, Generate, dbVars
<1> QED
  BY <1>1, <1>2, <1>3, Zenon DEF ThreadStep

(* The steps other than arrivals keep what a thread knows that no outage has hit. *)
LEMMA CleanSteppingRest ==
  ASSUME QueryTypeOK, ReplacedWhenClosed, NEW t \in Threads, CleanThread(t), ThreadStep(t)
  PROVE  CleanThread(t)' /\ clean' = clean
<1>1. clean' = clean
  <2>1. CASE LockSearch(t) \/ GetConn(t) \/ Connect(t) \/ ConnectFails(t)
    BY <2>1, Zenon DEF LockSearch, GetConn, Connect, ConnectFails, historyVars
  <2>2. CASE SetEfSearch(t) \/ SetIterativeScan(t) \/ SetIterativeScanFails(t) \/ Select(t)
    BY <2>2, Zenon DEF SetEfSearch, SetIterativeScan, SetIterativeScanFails, Select, historyVars
  <2>3. CASE LexicalSelect(t) \/ Ping(t) \/ StatementFails(t) \/ Generate(t)
    BY <2>3, Zenon DEF LexicalSelect, Ping, StatementFails, Generate, historyVars
  <2> QED
    BY <2>1, <2>2, <2>3, Zenon DEF ThreadStep
<1>2. up' = up
  BY OutagesOnlyByPostgres
<1> SUFFICES ASSUME clean[t]
             PROVE  CleanThread(t)'
  BY <1>1, Zenon DEF CleanThread
<1>3. QueryNext
  BY DEF QueryNext
<1>4. ~Breaks
  BY <1>2, Zenon DEF Breaks
<1>5. up /\ (conns[conn].alive \/ conns[conn].closed) /\ (pc[t] \in AfterGet => Alive(t))
  BY Zenon DEF CleanThread, AfterGet
<1>6. conns'[conn'].alive \/ conns'[conn'].closed
  BY <1>3, <1>4, <1>5, CurrentStays
<1>7. \A l : Goto(t, l) => pc'[t] = l
  BY DEF QueryTypeOK, Goto
<1>8. ASSUME pc'[t] \in AfterGet
      PROVE  Alive(t)'
  <2>1. CASE GetConn(t)
    <3>1. Usable
      BY <1>7, <1>8, <2>1 DEF GetConn, AfterGet
    <3>2. cursor' = [cursor EXCEPT ![t] = conn] /\ conns' = conns
      BY <2>1, <3>1, Zenon DEF GetConn
    <3>3. cursor'[t] = conn
      BY <3>2 DEF QueryTypeOK
    <3> QED
      BY <1>5, <3>1, <3>2, <3>3, Zenon DEF Usable, Alive
  <2>2. CASE Connect(t)
    <3>1. cursor' = [cursor EXCEPT ![t] = conn']
      BY <2>2, Zenon DEF Connect
    <3>2. cursor'[t] = conn'
      BY <3>1 DEF QueryTypeOK
    <3>3. conns'[conn'] = Fresh
      BY <2>2, OpenConnectionConns DEF Connect
    <3>4. Fresh.alive
      BY DEF Fresh
    <3> QED
      BY <3>2, <3>3, <3>4, Zenon DEF Alive
  <2>3. CASE SetEfSearch(t) \/ SetIterativeScan(t) \/ SetIterativeScanFails(t)
    <3>1. cursor[t] \in DOMAIN conns
      BY DEF QueryTypeOK
    <3>2. pc[t] \in AfterGet /\ cursor' = cursor
      BY <2>3 DEF SetEfSearch, SetIterativeScan, SetIterativeScanFails, AfterGet
    <3> QED
      BY <1>3, <1>4, <1>5, <3>1, <3>2, ConnectionsKept, Zenon DEF Alive
  <2>4. CASE LockSearch(t) \/ Select(t) \/ LexicalSelect(t)
    BY <1>7, <1>8, <2>4 DEF LockSearch, Select, LexicalSelect, AfterGet
  <2>5. CASE ConnectFails(t) \/ StatementFails(t)
    BY <1>8, <2>5, LegFailsTypes, RefusalType DEF ConnectFails, StatementFails, AfterGet
  <2>6. CASE Ping(t) \/ Generate(t)
    BY <1>7, <1>8, <2>6 DEF Ping, Generate, End, AfterGet
  <2> QED
    BY <2>1, <2>2, <2>3, <2>4, <2>5, <2>6 DEF ThreadStep
<1> QED
  BY <1>2, <1>5, <1>6, <1>8, Zenon DEF CleanThread, AfterGet

(* An arriving request learns it of the current connection. *)
LEMMA CleanArriving ==
  ASSUME QueryTypeOK, NEW t \in Threads, Ask(t) \/ Health(t)
  PROVE  CleanThread(t)'
<1>1. PICK l \in {"vector", "probe"} : Arrive(t, l)
  BY DEF Ask, Health
<1>2. pc'[t] \in {"search", "get"}
  BY DEF QueryTypeOK, Ask, Health, Goto
<1>3. clean' = [clean EXCEPT ![t] = up /\ (conns[conn].alive \/ conns[conn].closed)]
  BY <1>1, Zenon DEF Arrive
<1>4. clean'[t] = (up /\ (conns[conn].alive \/ conns[conn].closed))
  BY <1>3, Zenon DEF QueryTypeOK
<1>5. UNCHANGED <<up, conns, conn>>
  BY <1>1, Zenon DEF Arrive, dbVars
<1>6. pc'[t] \notin AfterGet
  BY <1>2 DEF AfterGet
<1> QED
  BY <1>4, <1>5, <1>6, Zenon DEF CleanThread, AfterGet

(* CleanThreads is preserved. *)
LEMMA CleanStep ==
  ASSUME QueryTypeOK, ReplacedWhenClosed, CleanThreads, QueryNext
  PROVE  CleanThreads'
<1> SUFFICES ASSUME NEW u \in Threads
             PROVE  CleanThread(u)'
  BY DEF CleanThreads
<1>1. CleanThread(u)
  BY DEF CleanThreads
<1>2. ASSUME clean'[u] = clean[u], pc'[u] = pc[u], cursor'[u] = cursor[u], up => up', ~Breaks
      PROVE  CleanThread(u)'
  <2> SUFFICES ASSUME clean[u]
               PROVE  CleanThread(u)'
    BY <1>2, Zenon DEF CleanThread
  <2>1. up /\ (conns[conn].alive \/ conns[conn].closed) /\ (pc[u] \in AfterGet => Alive(u))
    BY <1>1, Zenon DEF CleanThread, AfterGet
  <2>2. conns'[conn'].alive \/ conns'[conn'].closed
    BY <1>2, <2>1, CurrentStays
  <2>3. cursor[u] \in DOMAIN conns
    BY DEF QueryTypeOK
  <2>4. pc'[u] \in AfterGet => Alive(u)'
    BY <1>2, <2>1, <2>3, ConnectionsKept, Zenon DEF Alive
  <2> QED
    BY <1>2, <2>1, <2>2, <2>4, Zenon DEF CleanThread, AfterGet
<1>3. ASSUME NEW t \in Threads, Ask(t) \/ Health(t) \/ ThreadStep(t)
      PROVE  CleanThread(u)'
  <2>1. CASE t = u
    BY <1>1, <1>3, <2>1, CleanArriving, CleanSteppingRest
  <2>2. CASE t # u
    <3>1. Bystander(u)
      BY <1>3, <2>2, OthersStay
    <3>2. up' = up /\ ~Breaks
      BY <1>3, OutagesOnlyByPostgres, Zenon DEF Breaks
    <3> QED
      BY <1>2, <3>1, <3>2, Zenon DEF Bystander
  <2> QED
    BY <2>1, <2>2
<1>4. CASE PostgresStops
  <2>1. clean' = [t \in Threads |-> FALSE]
    BY <1>4, Zenon DEF PostgresStops
  <2>2. ~clean'[u]
    BY <2>1, Zenon
  <2> QED
    BY <2>2, Zenon DEF CleanThread
<1>5. CASE PostgresStarts
  <2>1. up' /\ UNCHANGED <<conns, conn, pc, cursor, clean>>
    BY <1>5, Zenon DEF PostgresStarts, historyVars
  <2>2. Alive(u)' = Alive(u)
    BY <2>1, Zenon DEF Alive
  <2> QED
    BY <1>1, <2>1, <2>2, Zenon DEF CleanThread
<1> QED
  BY <1>3, <1>4, <1>5 DEF QueryNext

Failures == {"error", "unhealthy"}

(* A request that fails although no outage hit it was refused by a server  *)
(* that was up.                                                            *)
LEMMA FailingIsRefused ==
  ASSUME QueryTypeOK, NEW t \in Threads, ConnectFails(t) \/ StatementFails(t), CleanThread(t),
         clean'[t]
  PROVE  refused'[t]
<1>1. CASE ConnectFails(t)
  <2>1. LegFails(t, up) /\ up
    BY <1>1, Zenon DEF ConnectFails, CleanThread
  <2> QED
    BY <2>1, LegFailsTypes, RefusalType
<1>2. CASE StatementFails(t)
  <2>1. pc[t] \in AfterGet /\ LegFails(t, Alive(t)) /\ clean' = clean
    BY <1>2 DEF StatementFails, AfterGet
  <2>2. Alive(t)
    BY <2>1, Zenon DEF CleanThread, AfterGet
  <2> QED
    BY <2>1, <2>2, LegFailsTypes, RefusalType
<1> QED
  BY <1>1, <1>2

(* Only a failed connect or statement ends a request in failure. *)
LEMMA OutcomeOfStep ==
  ASSUME QueryTypeOK, NEW t \in Threads, ThreadStep(t), ~ConnectFails(t), ~StatementFails(t)
  PROVE  /\ outcome'[t] = outcome[t] \/ outcome'[t] \notin Failures
         /\ refused' = refused
<1>1. CASE LockSearch(t) \/ GetConn(t) \/ Connect(t) \/ SetEfSearch(t) \/ SetIterativeScan(t)
  BY <1>1 DEF LockSearch, GetConn, Connect, SetEfSearch, SetIterativeScan, historyVars
<1>2. CASE SetIterativeScanFails(t) \/ Select(t) \/ LexicalSelect(t)
  BY <1>2 DEF SetIterativeScanFails, Select, LexicalSelect, historyVars
<1>3. CASE Ping(t) \/ Generate(t)
  <2>1. \E o \in {"healthy", "answered", "degraded"} : End(t, o)
    BY <1>3 DEF Ping, Generate
  <2>2. refused' = refused
    BY <1>3 DEF Ping, Generate, historyVars
  <2> QED
    BY <2>1, <2>2 DEF QueryTypeOK, End, Failures
<1> QED
  BY <1>1, <1>2, <1>3 DEF ThreadStep

(* OutagesHeal is preserved. *)
LEMMA OutagesHealStep ==
  ASSUME QueryTypeOK, ReplacedWhenClosed, CleanThreads, OutagesHeal, QueryNext
  PROVE  OutagesHeal'
<1> SUFFICES ASSUME NEW u \in Threads, outcome'[u] \in Failures, clean'[u]
             PROVE  refused'[u]
  BY DEF OutagesHeal, Failures
<1>1. outcome[u] \in Failures /\ clean[u] => refused[u]
  BY DEF OutagesHeal, Failures
<1>2. CleanThread(u)
  BY DEF CleanThreads
<1>3. ASSUME NEW t \in Threads, Ask(t) \/ Health(t) \/ ThreadStep(t), t # u
      PROVE  refused'[u]
  <2>1. Bystander(u)
    BY <1>3, OthersStay
  <2> QED
    BY <1>1, <2>1, Zenon DEF Bystander
<1>4. CASE Ask(u) \/ Health(u)
  <2>1. outcome' = [outcome EXCEPT ![u] = "none"]
    BY <1>4 DEF Ask, Health, Arrive
  <2> QED
    BY <2>1 DEF QueryTypeOK, Failures
<1>5. CASE ThreadStep(u)
  <2>1. CASE ConnectFails(u) \/ StatementFails(u)
    BY <1>2, <2>1, FailingIsRefused
  <2>2. CASE ~ConnectFails(u) /\ ~StatementFails(u)
    <3>1. outcome[u] \in Failures /\ refused' = refused
      BY <1>5, <2>2, OutcomeOfStep
    <3>2. clean' = clean
      BY <1>2, <1>5, CleanSteppingRest
    <3> QED
      BY <1>1, <3>1, <3>2, Zenon
  <2> QED
    BY <2>1, <2>2
<1>6. CASE PostgresStops \/ PostgresStarts
  <2>1. outcome'[u] = outcome[u] /\ refused'[u] = refused[u]
    BY <1>6, EnvironmentStays
  <2>2. clean'[u] => clean[u]
    <3>1. CASE PostgresStops
      <4>1. clean' = [t \in Threads |-> FALSE]
        BY <3>1, Zenon DEF PostgresStops
      <4> QED
        BY <4>1, Zenon
    <3>2. CASE PostgresStarts
      BY <3>2, Zenon DEF PostgresStarts, historyVars
    <3> QED
      BY <1>6, <3>1, <3>2
  <2> QED
    BY <1>1, <2>1, <2>2, Zenon
<1> QED
  BY <1>3, <1>4, <1>5, <1>6 DEF QueryNext

-----------------------------------------------------------------------------
(* The invariant holds initially, *)
LEMMA QueryInvInit == QueryInit => QueryInv
<1> SUFFICES ASSUME QueryInit
             PROVE  QueryInv
  OBVIOUS
<1>1. QueryTypeOK
  BY QueryTypeInit
<1>2. DOMAIN conns = {1} /\ conns[1] = Fresh /\ conn = 1
  BY DEF QueryInit
<1>3. Fresh.alive /\ ~Fresh.closed
  BY DEF Fresh
<1>4. OnlyCurrentAlive
  BY <1>2, <1>3, Zenon DEF OnlyCurrentAlive
<1>5. ReplacedWhenClosed
  BY Zenon DEF QueryInit, ReplacedWhenClosed
<1>6. \A t \in Threads : pc[t] = "idle" /\ outcome[t] = "none" /\ clean[t] = FALSE
  BY Zenon DEF QueryInit
<1>7. ScanTuned /\ SelectTuned /\ OutagesHeal
  BY <1>6 DEF ScanTuned, SelectTuned, OutagesHeal
<1>8. CleanThreads
  BY <1>6, Zenon DEF CleanThreads, CleanThread
<1> QED
  BY <1>1, <1>4, <1>5, <1>7, <1>8 DEF QueryInv

(* is preserved by every step of a thread or of Postgres, *)
LEMMA QueryInvStep == QueryInv /\ QueryNext => QueryInv'
<1> SUFFICES ASSUME QueryInv, QueryNext
             PROVE  QueryInv'
  OBVIOUS
<1>1. /\ QueryTypeOK /\ OnlyCurrentAlive /\ ReplacedWhenClosed
      /\ ScanTuned /\ SelectTuned /\ CleanThreads /\ OutagesHeal
  BY DEF QueryInv
<1>2. QueryTypeOK'
  BY <1>1, QueryTypeStep
<1>3. OnlyCurrentAlive' /\ ReplacedWhenClosed'
  BY <1>1, OnlyCurrentAliveStep, ReplacedWhenClosedStep
<1>4. ScanTuned' /\ SelectTuned'
  <2>1. \A u \in Threads : Tuned(u)
    BY <1>1, TunedThreads
  <2>2. (\A u \in Threads : Tuned(u))'
    BY <1>1, <2>1, TunedStep
  <2> QED
    BY <2>2 DEF ScanTuned, SelectTuned, Tuned
<1>5. CleanThreads' /\ OutagesHeal'
  BY <1>1, CleanStep, OutagesHealStep
<1> QED
  BY <1>2, <1>3, <1>4, <1>5 DEF QueryInv

(* and by stuttering. *)
LEMMA QueryInvStutter == QueryInv /\ UNCHANGED queryVars => QueryInv'
<1> SUFFICES ASSUME QueryInv, UNCHANGED queryVars
             PROVE  QueryInv'
  OBVIOUS
<1>1. UNCHANGED <<up, outages, conns, conn, connLock, searchLock, unsupported, pc, leg, cursor,
                 candidateK, filtered, outcome, clean, refused>>
  BY Zenon DEF queryVars, dbVars, lockVars, askVars, historyVars
<1>2. \A t \in Threads : Alive(t)' = Alive(t) /\ EfSearch(t)' = EfSearch(t)
  BY <1>1, Zenon DEF Alive, EfSearch
<1>3. QueryTypeOK'
  BY <1>1, Zenon DEF QueryInv, QueryTypeOK
<1>4. OnlyCurrentAlive' /\ ReplacedWhenClosed' /\ OutagesHeal'
  BY <1>1, Zenon DEF QueryInv, OnlyCurrentAlive, ReplacedWhenClosed, OutagesHeal
<1>5. ScanTuned' /\ SelectTuned'
  BY <1>1, <1>2, Zenon DEF QueryInv, ScanTuned, SelectTuned
<1>6. CleanThreads'
  BY <1>1, <1>2, Zenon DEF QueryInv, CleanThreads, CleanThread
<1> QED
  BY <1>3, <1>4, <1>5, <1>6 DEF QueryInv

(* The invariants of the retriever's connection hold in every state. *)
THEOREM QueryInvCorrect == QuerySpec => []QueryInv
  BY QueryInvInit, QueryInvStep, QueryInvStutter, PTL DEF QuerySpec

(* A vector query runs with its own session settings, whatever the other   *)
(* threads do between its SETs and its SELECT.                             *)
THEOREM SelectTunedCorrect == QuerySpec => []SelectTuned
<1>1. QueryInv => SelectTuned
  BY DEF QueryInv
<1> QED
  BY <1>1, QueryInvCorrect, PTL

(* Threads that find the connection closed open one between them, and no   *)
(* live connection is left behind.                                         *)
THEOREM OneConnectionCorrect == QuerySpec => []OneConnection
<1>1. QueryInv => OneConnection
  <2> SUFFICES ASSUME QueryInv
               PROVE  OneConnection
    OBVIOUS
  <2> DEFINE live == {c \in DOMAIN conns : conns[c].alive}
  <2>1. live \in SUBSET {conn}
    BY DEF QueryInv, OnlyCurrentAlive
  <2>2. IsFiniteSet({conn}) /\ Cardinality({conn}) = 1
    BY FS_Singleton
  <2>3. Cardinality(live) <= Cardinality({conn})
    BY <2>1, <2>2, FS_Subset
  <2> QED
    BY <2>2, <2>3 DEF OneConnection
<1> QED
  BY <1>1, QueryInvCorrect, PTL

(* Once a failure has shown the connection to be broken, a request that    *)
(* comes after it fails only if Postgres stops again, or if a server that  *)
(* is up refuses its statement or its connection.                          *)
THEOREM OutagesHealCorrect == QuerySpec => []OutagesHeal
<1>1. QueryInv => OutagesHeal
  BY DEF QueryInv
<1> QED
  BY <1>1, QueryInvCorrect, PTL

-----------------------------------------------------------------------------
HIDE QueryAssumption

(***************************************************************************)
(* The document list.  FilingsListed and ShortPageIsLast are about         *)
(* responses that have left the database behind; ListingInv says what is   *)
(* still true of it: rows are only added, so that a filing with a date of  *)
(* its own never moves to an earlier place.                                *)
(***************************************************************************)

(* An order of a set: each element once. *)
LEMMA OrderOnto ==
  ASSUME NEW S, IsFiniteSet(S), NEW order \in SetToSeqs(S)
  PROVE  /\ DOMAIN order = 1..Cardinality(S) /\ Cardinality(S) \in Nat
         /\ order \in Seq(S) /\ Len(order) = Cardinality(S)
         /\ \A i, j \in DOMAIN order : i # j => order[i] # order[j]
         /\ \A x \in S : \E i \in DOMAIN order : order[i] = x
<1> DEFINE n == Cardinality(S)
<1>1. n \in Nat
  BY FS_CardinalityType
<1>2. order \in [1..n -> S] /\ \A i, j \in 1..n : i # j => order[i] # order[j]
  BY DEF SetToSeqs
<1>3. order \in Injection(1..n, S)
  BY <1>2 DEF Injection, IsInjective
<1>4. Cardinality(1..n) = n /\ IsFiniteSet(1..n)
  BY <1>1, FS_Interval
<1>5. order \in Surjection(1..n, S)
  BY <1>3, <1>4, FS_Injection
<1>6. \A x \in S : \E i \in 1..n : order[i] = x
  BY <1>5 DEF Surjection
<1>7. order \in Seq(S) /\ Len(order) = n
  <2> HIDE DEF n
  <2> QED
    BY <1>1, <1>2
<1> QED
  BY <1>1, <1>2, <1>6, <1>7

(* In every order by descending date, the filing that shares its date with  *)
(* no other stands after exactly the newer ones.                            *)
LEMMA PlaceInOrder ==
  ASSUME NEW order \in SetToSeqs(Matching(log)), Ordered(order), IsFiniteSet(Matching(log)),
         log \subseteq Filings, NEW i \in DOMAIN order, OwnDate(order[i])
  PROVE  Cardinality(Newer(order[i])) = i - 1
<1> DEFINE f == order[i]
<1>0. DocumentsAssumption
  BY DocumentsAssumption
<1>1. /\ DOMAIN order = 1..Cardinality(Matching(log)) /\ Cardinality(Matching(log)) \in Nat
      /\ \A j, k \in DOMAIN order : j # k => order[j] # order[k]
      /\ \A x \in Matching(log) : \E j \in DOMAIN order : order[j] = x
      /\ \A j \in DOMAIN order : order[j] \in Matching(log)
  BY OrderOnto
<1>2. \A g \in Matching(log) : DateOf[g] \in Nat
  BY DocumentsAssumption DEF Matching
<1> DEFINE before == [j \in 1..(i - 1) |-> order[j]]
<1>3. i \in Nat /\ i - 1 \in Nat /\ 1..(i - 1) \subseteq DOMAIN order
  BY <1>1
<1>4. \A j \in 1..(i - 1) : order[j] \in Newer(f)
  <2> SUFFICES ASSUME NEW j \in 1..(i - 1)
               PROVE  order[j] \in Newer(f)
    OBVIOUS
  <2>1. j \in DOMAIN order /\ j < i /\ order[j] # f /\ order[j] \in Matching(log) /\ f \in Matching(log)
    BY <1>1, <1>3
  <2>2. DateOf[order[j]] >= DateOf[f] /\ DateOf[order[j]] # DateOf[f]
    BY <2>1 DEF Ordered, OwnDate
  <2>3. DateOf[order[j]] > DateOf[f]
    BY <1>2, <2>1, <2>2
  <2> QED
    BY <2>1, <2>3 DEF Newer
<1>5. \A g \in Newer(f) : \E j \in 1..(i - 1) : order[j] = g
  <2> SUFFICES ASSUME NEW g \in Newer(f)
               PROVE  \E j \in 1..(i - 1) : order[j] = g
    OBVIOUS
  <2>1. g \in Matching(log) /\ DateOf[g] > DateOf[f] /\ DateOf[g] \in Nat /\ DateOf[f] \in Nat
    BY <1>1, <1>2 DEF Newer
  <2>2. PICK j \in DOMAIN order : order[j] = g
    BY <1>1, <2>1
  <2>3. ~ (i < j)
    <3> SUFFICES ASSUME i < j
                 PROVE  FALSE
      OBVIOUS
    <3>1. DateOf[f] >= DateOf[g]
      BY <2>2 DEF Ordered
    <3> QED
      BY <2>1, <3>1
  <2>4. i # j
    BY <2>1, <2>2
  <2>5. j \in 1..(i - 1)
    BY <1>1, <1>3, <2>3, <2>4
  <2> QED
    BY <2>2, <2>5
<1>6. before \in Bijection(1..(i - 1), Newer(f))
  <2>1. before \in [1..(i - 1) -> Newer(f)]
    BY <1>4
  <2>2. before \in Injection(1..(i - 1), Newer(f))
    BY <1>1, <1>3, <2>1 DEF Injection, IsInjective
  <2>3. before \in Surjection(1..(i - 1), Newer(f))
    BY <1>5, <2>1 DEF Surjection
  <2> QED
    BY <2>2, <2>3 DEF Bijection
<1>7. ExistsBijection(1..(i - 1), Newer(f))
  BY <1>6 DEF ExistsBijection
<1> QED
  BY <1>3, <1>7, FS_CountingElements

LEMMA MinOfTwo ==
  ASSUME NEW a \in Nat, NEW b \in Nat
  PROVE  Min({a, b}) = IF a <= b THEN a ELSE b
<1>1. \E x \in {a, b} : \A y \in {a, b} : x =< y
  OBVIOUS
<1>2. Min({a, b}) \in {a, b} /\ \A y \in {a, b} : Min({a, b}) =< y
  BY <1>1 DEF Min
<1> QED
  BY <1>2

(* A page is the part of an order from place n + 1 to place last. *)
LEMMA PageOfOrder ==
  ASSUME NEW S, NEW order \in Seq(S), NEW n \in Nat, NEW last \in Nat, last <= Len(order)
  PROVE  /\ n < last => Len(SubSeq(order, n + 1, last)) = last - n
         /\ ~ (n < last) => Len(SubSeq(order, n + 1, last)) = 0
         /\ \A i \in (n + 1)..last :
              /\ SubSeq(order, n + 1, last)[i - n] = order[i]
              /\ i - n \in DOMAIN SubSeq(order, n + 1, last)
<1>1. n < last => Len(SubSeq(order, n + 1, last)) = last - n
  OBVIOUS
<1>2. ~ (n < last) => Len(SubSeq(order, n + 1, last)) = 0
  OBVIOUS
<1>3. \A i \in (n + 1)..last : SubSeq(order, n + 1, last)[i - n] = order[i]
  OBVIOUS
<1>4. \A i \in (n + 1)..last : i - n \in DOMAIN SubSeq(order, n + 1, last)
  OBVIOUS
<1> QED
  BY <1>1, <1>2, <1>3, <1>4

(* Rows are never deleted: the list and what comes before a filing only    *)
(* grow, and a filing alone with its date was so before.                   *)
LEMMA ListGrows ==
  ASSUME DocumentsAssumption, IsFiniteSet(log), IsFiniteSet(log'), log \subseteq log', ticker' = ticker
  PROVE  /\ Matching(log) \subseteq Matching(log)'
         /\ Cardinality(Matching(log)) <= Cardinality(Matching(log)')
         /\ \A f : OwnDate(f)' => OwnDate(f)
         /\ \A f : /\ Cardinality(Newer(f)) \in Nat /\ Cardinality(Newer(f)') \in Nat
                   /\ Cardinality(Newer(f)) <= Cardinality(Newer(f)')
<1>1. Matching(log) \subseteq Matching(log)' /\ IsFiniteSet(Matching(log)')
  BY FS_Subset DEF Matching
<1>2. ASSUME NEW f
      PROVE  /\ Cardinality(Newer(f)) \in Nat /\ Cardinality(Newer(f)') \in Nat
             /\ Cardinality(Newer(f)) <= Cardinality(Newer(f)')
  <2>1. Newer(f) \subseteq Newer(f)' /\ Newer(f)' \subseteq Matching(log)'
    BY <1>1 DEF Newer
  <2>2. IsFiniteSet(Newer(f)')
    BY <1>1, <2>1, FS_Subset
  <2> QED
    BY <2>1, <2>2, FS_Subset, FS_CardinalityType
<1>3. \A f : OwnDate(f)' => OwnDate(f)
  BY <1>1 DEF OwnDate
<1> QED
  BY <1>1, <1>2, <1>3, FS_Subset

(* The page: what it shows of the order it was cut from, and that a short  *)
(* one shows the rest.                                                     *)
LEMMA PageStep ==
  ASSUME ListingInv, Page
  PROVE  ListingInv'
<1> DEFINE N == Cardinality(Matching(log))
<1>0. /\ offset \in Nat /\ limit \in Nat \ {0} /\ total \in Nat /\ total <= N
      /\ phase = "page" /\ phase' = "answered" /\ Covered = offset /\ Covered' = offset + limit
      /\ log' = log /\ limit' = limit /\ offset' = offset /\ ticker' = ticker
      /\ logAtStart' = logAtStart /\ total' = total
  BY DEF ListingInv, Page, Covered
<1>1. IsFiniteSet(Matching(log)) /\ log \subseteq Filings
  BY FS_Subset DEF ListingInv, Matching
<1>2. PICK order \in SetToSeqs(Matching(log)) :
        /\ Ordered(order)
        /\ rows' = SubSeq(order, offset + 1, Min({offset + limit, Len(order)}))
        /\ listed' = listed \cup ToSet(rows')
  BY DEF Page
<1> DEFINE last == Min({offset + limit, Len(order)})
<1>3. /\ DOMAIN order = 1..N /\ N \in Nat
      /\ order \in Seq(Matching(log)) /\ Len(order) = N
      /\ \A x \in Matching(log) : \E i \in DOMAIN order : order[i] = x
  BY <1>1, OrderOnto
<1>4. /\ last = IF offset + limit <= N THEN offset + limit ELSE N
      /\ Len(rows') = IF offset < last THEN last - offset ELSE 0
      /\ \A i \in (offset + 1)..last : rows'[i - offset] = order[i] /\ i - offset \in DOMAIN rows'
  <2>1. rows' = SubSeq(order, offset + 1, last)
    BY <1>2
  <2>2. last = IF offset + limit <= N THEN offset + limit ELSE N
    BY <1>0, <1>3, MinOfTwo
  <2>3. last \in Nat /\ last <= Len(order)
    BY <1>0, <1>3, <2>2
  <2> HIDE DEF N, last
  <2>4. /\ offset < last => Len(rows') = last - offset
        /\ ~ (offset < last) => Len(rows') = 0
        /\ \A i \in (offset + 1)..last : rows'[i - offset] = order[i] /\ i - offset \in DOMAIN rows'
    <3> DEFINE page == SubSeq(order, offset + 1, last)
    <3>1. order \in Seq(Matching(log)) /\ offset \in Nat
      BY <1>0, <1>3
    <3>2. /\ offset < last => Len(page) = last - offset
          /\ ~ (offset < last) => Len(page) = 0
          /\ \A i \in (offset + 1)..last : page[i - offset] = order[i] /\ i - offset \in DOMAIN page
      BY <2>3, <3>1, PageOfOrder
    <3>3. rows' = page
      BY <2>1
    <3> HIDE DEF page
    <3> QED
      BY <3>2, <3>3
  <2> QED
    BY <2>2, <2>4
<1> HIDE DEF N, last
<1>5. Len(rows') \in Nat /\ (Len(rows') < limit => total <= offset + Len(rows') /\ last = N)
  BY <1>0, <1>3, <1>4
<1>6. ASSUME NEW f \in Matching(logAtStart), OwnDate(f)
      PROVE  /\ f \in listed' \/ Cardinality(Newer(f)) >= offset + limit
             /\ Len(rows') < limit => f \in listed'
  <2>1. CASE f \in listed
    BY <1>2, <2>1
  <2>2. CASE f \notin listed
    <3>1. Cardinality(Newer(f)) >= offset
      BY <1>0, <1>6, <2>2 DEF ListingInv
    <3>2. f \in Matching(log)
      BY <1>6 DEF ListingInv, Matching
    <3>3. PICK i \in DOMAIN order : order[i] = f
      BY <1>3, <3>2
    <3>4. Cardinality(Newer(f)) = i - 1
      BY <1>1, <1>2, <1>6, <3>3, PlaceInOrder
    <3>5. i \in 1..N /\ i > offset
      BY <1>0, <1>3, <3>1, <3>4
    <3>6. CASE i <= last
      <4>1. i \in (offset + 1)..last
        BY <1>0, <1>3, <1>4, <3>5, <3>6
      <4>2. rows'[i - offset] = f /\ i - offset \in DOMAIN rows'
        BY <1>4, <3>3, <4>1
      <4>3. f \in ToSet(rows')
        BY <4>2 DEF ToSet
      <4> QED
        BY <1>2, <4>3
    <3>7. CASE ~ (i <= last)
      <4>1. last # N /\ last = offset + limit
        BY <1>0, <1>3, <1>4, <3>5, <3>7
      <4>2. Cardinality(Newer(f)) >= offset + limit
        BY <1>0, <1>3, <3>4, <3>5, <3>7, <4>1
      <4> QED
        BY <1>5, <4>1, <4>2
    <3> QED
      BY <3>6, <3>7
  <2> QED
    BY <2>1, <2>2
<1>7. /\ Matching(logAtStart)' = Matching(logAtStart)
      /\ \A f : OwnDate(f)' = OwnDate(f) /\ Newer(f)' = Newer(f)
  BY <1>0 DEF Matching, OwnDate, Newer
<1> QED
  BY <1>0, <1>5, <1>6, <1>7 DEF ListingInv, ShortPageIsLast

(* Ingestion: a new row moves filings to later places only. *)
LEMMA RecordStep ==
  ASSUME ListingInv, NEW g \in Filings, RecordFiling(g)
  PROVE  ListingInv'
<1>1. /\ log' = log \cup {g} /\ IsFiniteSet(log) /\ IsFiniteSet(log') /\ log' \subseteq Filings
      /\ UNCHANGED <<phase, total, rows, ticker, limit, offset, listed, logAtStart>>
  BY FS_AddElement DEF ListingInv, RecordFiling, clientVars
<1>2. /\ Cardinality(Matching(log)) <= Cardinality(Matching(log)')
      /\ \A f : OwnDate(f)' => OwnDate(f)
      /\ \A f : /\ Cardinality(Newer(f)) \in Nat /\ Cardinality(Newer(f)') \in Nat
                /\ Cardinality(Newer(f)) <= Cardinality(Newer(f)')
  BY <1>1, DocumentsAssumption, ListGrows
<1>3. /\ Matching(logAtStart)' = Matching(logAtStart) /\ Covered' = Covered
      /\ Covered \in Nat
  BY <1>1 DEF Matching, Covered, ListingInv
<1>4. Cardinality(Matching(log)) \in Nat /\ Cardinality(Matching(log)') \in Nat
  <2>1. IsFiniteSet(Matching(log)) /\ IsFiniteSet(Matching(log)')
    BY <1>1, FS_Subset DEF Matching
  <2> QED
    BY <2>1, FS_CardinalityType
<1>5. phase' = "page" => total' <= Cardinality(Matching(log)')
  BY <1>1, <1>2, <1>4 DEF ListingInv
<1>6. ASSUME NEW f \in Matching(logAtStart), OwnDate(f)', phase \in {"count", "page", "answered"}
      PROVE  f \in listed \/ Cardinality(Newer(f)') >= Covered
  <2>1. f \in listed \/ Cardinality(Newer(f)) >= Covered
    BY <1>2, <1>6 DEF ListingInv
  <2> QED
    BY <1>2, <1>3, <2>1
<1>7. \A f \in Matching(logAtStart) : OwnDate(f)' /\ (phase = "listed" \/ (phase = "answered" /\ Len(rows) < limit)) => f \in listed
  BY <1>2 DEF ListingInv
<1>8. Cardinality(Matching(log))' = Cardinality(Matching(log)') /\ \A f : Cardinality(Newer(f))' = Cardinality(Newer(f)')
  OBVIOUS
<1> QED
  BY <1>1, <1>3, <1>5, <1>6, <1>7, <1>8 DEF ListingInv, ShortPageIsLast

(* The client's own steps and the count: pages follow on one another.      *)
LEMMA ClientStep ==
  ASSUME ListingInv, StartListing \/ NextPage \/ EndListing \/ Count \/ ListFails
  PROVE  ListingInv'
<1>0. /\ IsFiniteSet(log) /\ limit \in Nat \ {0} /\ offset \in Nat /\ total \in Nat /\ log' = log
      /\ logAtStart \subseteq log
  BY DEF ListingInv, StartListing, NextPage, EndListing, Count, ListFails, clientVars
<1>1. CASE StartListing
  <2>1. /\ phase' = "count" /\ offset' = 0 /\ limit' \in Nat \ {0} /\ logAtStart' = log /\ total' = total
    BY <1>1, DocumentsAssumption DEF StartListing
  <2>2. ASSUME NEW f
        PROVE  Cardinality(Newer(f)') \in Nat
    <3>1. Newer(f)' \subseteq log
      BY <1>0 DEF Newer, Matching
    <3> QED
      BY <1>0, <3>1, FS_Subset, FS_CardinalityType
  <2>3. \A f : Cardinality(Newer(f)') >= Covered'
    BY <2>1, <2>2 DEF Covered
  <2>4. \A f : Cardinality(Newer(f))' = Cardinality(Newer(f)')
    OBVIOUS
  <2> QED
    BY <1>0, <2>1, <2>3, <2>4 DEF ListingInv, ShortPageIsLast
<1>2. CASE NextPage \/ EndListing \/ Count \/ ListFails
  <2>0. UNCHANGED <<log, ticker, limit, rows, listed, logAtStart>>
    BY <1>2 DEF NextPage, EndListing, Count, ListFails, clientVars
  <2>1. /\ Matching(logAtStart)' = Matching(logAtStart) /\ Matching(log)' = Matching(log)
        /\ \A f : OwnDate(f)' = OwnDate(f) /\ Newer(f)' = Newer(f)
    BY <2>0 DEF Matching, OwnDate, Newer
  <2>2. CASE NextPage
    <3>1. /\ phase = "answered" /\ phase' = "count" /\ offset' = offset + limit
          /\ total' = total /\ Covered' = Covered
      BY <2>0, <2>2 DEF NextPage, Covered
    <3> QED
      BY <1>0, <2>0, <2>1, <3>1 DEF ListingInv, ShortPageIsLast
  <2>3. CASE EndListing
    <3>1. phase = "answered" /\ Len(rows) < limit /\ phase' = "listed" /\ UNCHANGED <<offset, total>>
      BY <2>3 DEF EndListing, clientVars
    <3> QED
      BY <1>0, <2>0, <2>1, <3>1 DEF ListingInv, ShortPageIsLast
  <2>4. CASE Count
    <3>1. phase = "count" /\ phase' = "page" /\ total' = Cardinality(Matching(log)) /\ offset' = offset /\ Covered' = Covered
      BY <2>0, <2>4 DEF Count, clientVars, Covered
    <3>2. Cardinality(Matching(log)) \in Nat
      <4>1. Matching(log) \subseteq log
        BY DEF Matching
      <4> QED
        BY <1>0, <4>1, FS_Subset, FS_CardinalityType
    <3>3. total' \in Nat /\ total' <= Cardinality(Matching(log))
      BY <3>1, <3>2
    <3> QED
      BY <1>0, <2>0, <2>1, <3>1, <3>3 DEF ListingInv, ShortPageIsLast
  <2>5. CASE ListFails
    <3>1. phase \in {"count", "page"} /\ phase' = "count" /\ UNCHANGED <<offset, total>> /\ Covered' = Covered
      BY <2>0, <2>5 DEF ListFails, clientVars, Covered
    <3> QED
      BY <1>0, <2>0, <2>1, <3>1 DEF ListingInv, ShortPageIsLast
  <2> QED
    BY <1>2, <2>2, <2>3, <2>4, <2>5
<1> QED
  BY <1>1, <1>2

LEMMA ListingInductive == DocumentsSpec => []ListingInv
<1>1. DocumentsInit => ListingInv
  <2> SUFFICES ASSUME DocumentsInit
               PROVE  ListingInv
    OBVIOUS
  <2>1. limit \in Nat \ {0}
    BY DocumentsAssumption DEF DocumentsInit
  <2> QED
    BY <2>1, FS_EmptySet DEF DocumentsInit, ListingInv, ShortPageIsLast
<1>2. ListingInv /\ [DocumentsNext]_documentsVars => ListingInv'
  <2> SUFFICES ASSUME ListingInv, [DocumentsNext]_documentsVars
               PROVE  ListingInv'
    OBVIOUS
  <2>1. CASE UNCHANGED documentsVars
    BY <2>1 DEF documentsVars, ListingInv, ShortPageIsLast, Matching, OwnDate, Newer, Covered
  <2>2. CASE DocumentsNext
    BY <2>2, ClientStep, PageStep, RecordStep DEF DocumentsNext
  <2> QED
    BY <2>1, <2>2
<1> QED
  BY <1>1, <1>2, PTL DEF DocumentsSpec

(* The total of a response never promises more than the short page that    *)
(* ends the listing, whatever is recorded between list_documents' two      *)
(* statements.                                                             *)
THEOREM ShortPageIsLastCorrect == DocumentsSpec => []ShortPageIsLast
<1>1. ListingInv => ShortPageIsLast
  BY DEF ListingInv
<1> QED
  BY <1>1, ListingInductive, PTL

(* A client that pages to a short page has seen each filing that was there *)
(* when it began and shares its date with no other, for any number of      *)
(* filings, page sizes, failed requests and rows recorded meanwhile.       *)
THEOREM FilingsListedCorrect == DocumentsSpec => []FilingsListed
<1>1. ListingInv => FilingsListed
  BY DEF ListingInv, FilingsListed
<1> QED
  BY <1>1, ListingInductive, PTL

-----------------------------------------------------------------------------
HIDE DocumentsAssumption

(***************************************************************************)
(* Fusion and re-ranking.  RrfScore falls with the rank in each leg, so a  *)
(* chunk that neither leg ranks after another is fused before it; and only *)
(* what the vector leg has returned can be fused before its first row,     *)
(* which therefore survives a cut at the leg's own length.  MMR only       *)
(* appends: the prefixes it has judged a choice by stay as they are.       *)
(***************************************************************************)

(* A worse rank is never worth more. *)
LEMMA QuotientsFall ==
  ASSUME NEW a \in Nat, NEW b \in Nat \ {0}, NEW c \in Nat, b <= c
  PROVE  a \div b \in Nat /\ a \div c \in Nat /\ a \div c <= a \div b
<1> DEFINE p == a \div b
           q == a \div c
<1>1. p \in Nat /\ q \in Nat
  OBVIOUS
<1>2. q * c <= a /\ a < (p + 1) * b
  OBVIOUS
<1> HIDE DEF p, q
<1>3. ASSUME p + 1 <= q
      PROVE  FALSE
  <2> DEFINE u == q * b
             v == q * c
             w == (p + 1) * b
  <2>1. u \in Nat /\ v \in Nat /\ w \in Nat
    BY <1>1
  <2>2. w <= u
    BY <1>1, <1>3
  <2>3. u <= v
    BY <1>1
  <2> HIDE DEF u, v, w
  <2>4. v <= a /\ a < w
    BY <1>2 DEF v, w
  <2> QED
    BY <2>1, <2>2, <2>3, <2>4
<1>4. q <= p
  BY <1>1, <1>3
<1> QED
  BY <1>1, <1>4 DEF p, q

(* Of a finite set of integers one is the largest. *)
LEMMA MaxOfIntegers ==
  ASSUME NEW S \in SUBSET Int, IsFiniteSet(S), S # {}
  PROVE  Max(S) \in S /\ \A y \in S : Max(S) >= y
<1> DEFINE Above(x) == {y \in S : y >= x}
           D == {Above(x) : x \in S}
<1>1. D \subseteq FiniteSubsetsOf(S) /\ D # {}
  <2>1. \A x \in S : IsFiniteSet(Above(x)) /\ Above(x) \in SUBSET S
    BY FS_Subset
  <2> HIDE DEF Above
  <2> QED
    BY <2>1 DEF FiniteSubsetsOf
<1>2. PICK d \in D : \A e \in D : ~ (<<e, d>> \in StrictSubsetOrdering(S))
  <2> HIDE DEF D
  <2> QED
    BY <1>1, WFMin, FS_StrictSubsetOrderingWellFounded
<1>3. PICK x \in S : d = Above(x)
  BY <1>2
<1>4. ASSUME NEW y \in S
      PROVE  x >= y
  <2> SUFFICES ASSUME y > x
               PROVE  FALSE
    OBVIOUS
  <2>0. x \in Int /\ y \in Int /\ \A z \in S : z \in Int
    OBVIOUS
  <2>1. Above(y) \subseteq Above(x) /\ x \in Above(x) /\ x \notin Above(y)
    <3>1. \A z \in S : z >= y => z >= x
      BY <2>0
    <3>2. x >= x /\ ~ (x >= y)
      BY <2>0
    <3> QED
      BY <3>1, <3>2
  <2> DEFINE e == Above(y)
  <2>2. e \subseteq d /\ e # d /\ e \in SUBSET S /\ d \in SUBSET S /\ e \in D
    BY <1>3, <2>1
  <2> HIDE DEF e, D, Above
  <2>3. <<e, d>> \in StrictSubsetOrdering(S)
    BY <2>2 DEF StrictSubsetOrdering
  <2> QED
    BY <1>2, <2>2, <2>3
<1>5. \E m \in S : \A y \in S : m >= y
  BY <1>4
<1> QED
  BY <1>5 DEF Max

-----------------------------------------------------------------------------
(* Ranked rows. *)

LEMMA CandidateKType ==
  ASSUME topK \in TopKs
  PROVE  CandidateK \in Nat /\ CandidateK <= MaxCandidates
<1>1. topK * CandidateMultiplier \in Nat /\ MaxCandidates \in Nat
  BY RetrievalAssumption
<1> QED
  BY <1>1, MinOfTwo DEF CandidateK

(* A leg returns at most candidate_k chunks, each once. *)
LEMMA RankingType ==
  ASSUME topK \in TopKs, NEW ranking \in Rankings
  PROVE  /\ ranking \in Seq(Chunks) /\ Len(ranking) <= CandidateK /\ IsFiniteSet(ToSet(ranking))
         /\ Cardinality(ToSet(ranking)) = Len(ranking)
         /\ \A i, j \in DOMAIN ranking : i # j => ranking[i] # ranking[j]
<1>1. PICK S \in SUBSET Chunks : Cardinality(S) <= CandidateK /\ ranking \in SetToSeqs(S)
  BY DEF Rankings
<1>2. IsFiniteSet(S)
  BY RetrievalAssumption, FS_Subset
<1>3. /\ ranking \in Seq(S) /\ Len(ranking) = Cardinality(S) /\ DOMAIN ranking = 1..Cardinality(S)
      /\ \A i, j \in DOMAIN ranking : i # j => ranking[i] # ranking[j]
      /\ \A x \in S : \E i \in DOMAIN ranking : ranking[i] = x
  BY <1>1, <1>2, OrderOnto
<1>4. ToSet(ranking) = S
  BY <1>3 DEF ToSet
<1>5. ranking \in Seq(Chunks)
  BY <1>1, <1>3
<1> QED
  BY <1>1, <1>2, <1>3, <1>4, <1>5

(* RankIn finds the one place of a chunk in the rows. *)
LEMMA RankType ==
  ASSUME topK \in TopKs, NEW ranking \in Rankings, NEW c, Contains(ranking, c)
  PROVE  /\ RankIn(c, ranking) \in 1..MaxCandidates /\ RankIn(c, ranking) \in DOMAIN ranking
         /\ ranking[RankIn(c, ranking)] = c
<1>1. ranking \in Seq(Chunks) /\ Len(ranking) <= CandidateK /\ CandidateK \in Nat /\ CandidateK <= MaxCandidates
  BY RankingType, CandidateKType
<1>2. \E i \in DOMAIN ranking : ranking[i] = c
  BY <1>1 DEF Contains
<1>3. RankIn(c, ranking) \in DOMAIN ranking /\ ranking[RankIn(c, ranking)] = c
  BY <1>2 DEF RankIn
<1>4. MaxCandidates \in Nat
  BY RetrievalAssumption
<1> QED
  BY <1>1, <1>3, <1>4

(* Shares are natural numbers, and fall with the rank. *)
LEMMA ShareFalls ==
  ASSUME topK \in TopKs, NEW ranking \in Rankings, NEW c, NEW d
  PROVE  /\ Share(c, ranking) \in Nat
         /\ Share(d, ranking) <= Scale \div (RrfK + 1)
         /\ Agrees(c, d, ranking) => Share(d, ranking) <= Share(c, ranking)
<1>0. RrfK \in Nat /\ Scale \in Nat /\ RrfK + 1 \in Nat \ {0} /\ Scale \div (RrfK + 1) \in Nat
  <2>1. RrfK \in Nat /\ Scale \in Nat /\ RrfK + 1 \in Nat \ {0}
    BY RetrievalAssumption
  <2> QED
    BY <2>1, QuotientsFall
<1>1. ASSUME NEW x, Contains(ranking, x)
      PROVE  /\ RankIn(x, ranking) \in Nat \ {0} /\ RrfK + RankIn(x, ranking) \in Nat \ {0}
             /\ RrfK + 1 <= RrfK + RankIn(x, ranking)
             /\ Share(x, ranking) = Scale \div (RrfK + RankIn(x, ranking))
  <2>1. RankIn(x, ranking) \in Nat \ {0}
    BY <1>1, RankType
  <2> QED
    BY <1>0, <1>1, <2>1 DEF Share
<1>2. ASSUME NEW x
      PROVE  Share(x, ranking) \in Nat /\ Share(x, ranking) <= Scale \div (RrfK + 1)
  <2>1. CASE Contains(ranking, x)
    BY <1>0, <1>1, <2>1, QuotientsFall
  <2>2. CASE ~ Contains(ranking, x)
    BY <1>0, <2>2 DEF Share
  <2> QED
    BY <2>1, <2>2
<1>3. ASSUME Agrees(c, d, ranking)
      PROVE  Share(d, ranking) <= Share(c, ranking)
  <2>1. CASE Contains(ranking, d)
    <3>1. Contains(ranking, c) /\ RankIn(c, ranking) < RankIn(d, ranking)
      BY <1>3, <2>1 DEF Agrees
    <3>2. RrfK + RankIn(c, ranking) <= RrfK + RankIn(d, ranking)
      BY <1>0, <1>1, <2>1, <3>1
    <3> QED
      BY <1>0, <1>1, <2>1, <3>1, <3>2, QuotientsFall
  <2>2. CASE ~ Contains(ranking, d)
    <3>1. Share(d, ranking) = 0
      BY <2>2 DEF Share
    <3> QED
      BY <1>2, <3>1
  <2> QED
    BY <2>1, <2>2
<1> QED
  BY <1>2, <1>3

-----------------------------------------------------------------------------
(* Fusion. *)

LEMMA ScoreType ==
  ASSUME RetrievalInv, NEW c
  PROVE  RrfScore(c) \in Nat
BY ShareFalls DEF RetrievalInv, RrfScore

(* A chunk the two legs agree to put before another is not ranked after it.*)
LEMMA AgreedRanked ==
  ASSUME RetrievalInv, NEW c \in Seen, NEW d \in Seen,
         Agrees(c, d, vectorRows), Agrees(c, d, lexicalRows)
  PROVE  c # d /\ ~ RankedBefore(d, c)
<1>0. /\ topK \in TopKs /\ vectorRows \in Rankings /\ lexicalRows \in Rankings
      /\ MaxCandidates \in Nat
  BY RetrievalAssumption DEF RetrievalInv
<1>1. \A ranking \in {vectorRows, lexicalRows} : Contains(ranking, d) =>
        /\ Contains(ranking, c) /\ RankIn(c, ranking) < RankIn(d, ranking)
        /\ RankIn(c, ranking) \in Nat /\ RankIn(d, ranking) \in Nat
  BY <1>0, RankType DEF Agrees
<1>2. Contains(vectorRows, d) \/ Contains(lexicalRows, d)
  <2>1. vectorRows \in Seq(Chunks) /\ lexicalRows \in Seq(Chunks)
    BY <1>0, RankingType
  <2> QED
    BY <2>1 DEF Seen, ToSet, Contains
<1>3. c # d
  BY <1>1, <1>2
<1>4. RrfScore(d) <= RrfScore(c) /\ RrfScore(c) \in Nat /\ RrfScore(d) \in Nat
  <2>1. /\ Share(d, vectorRows) \in Nat /\ Share(c, vectorRows) \in Nat
        /\ Share(d, vectorRows) <= Share(c, vectorRows)
    BY <1>0, ShareFalls
  <2>2. /\ Share(d, lexicalRows) \in Nat /\ Share(c, lexicalRows) \in Nat
        /\ Share(d, lexicalRows) <= Share(c, lexicalRows)
    BY <1>0, ShareFalls
  <2> QED
    BY <2>1, <2>2 DEF RrfScore
<1>5. ~ SeenBefore(d, c)
  BY <1>1, <1>2 DEF SeenBefore
<1> QED
  BY <1>3, <1>4, <1>5 DEF RankedBefore

(* Only what the vector leg has returned too is ranked before its first    *)
(* row: a lone share is at most that of a first place.                     *)
LEMMA BeforeNearest ==
  ASSUME RetrievalInv, vectorRows # <<>>, NEW d \in Seen, d # Head(vectorRows),
         RankedBefore(d, Head(vectorRows))
  PROVE  d \in ToSet(vectorRows)
<1> DEFINE h == Head(vectorRows)
           best == Scale \div (RrfK + 1)
<1>0. topK \in TopKs /\ vectorRows \in Rankings /\ lexicalRows \in Rankings
  BY DEF RetrievalInv
<1>1. /\ vectorRows \in Seq(Chunks) /\ 1 \in DOMAIN vectorRows /\ vectorRows[1] = h
      /\ \A i, j \in DOMAIN vectorRows : i # j => vectorRows[i] # vectorRows[j]
  BY <1>0, RankingType
<1>2. Contains(vectorRows, h) /\ RankIn(h, vectorRows) = 1
  <2>1. Contains(vectorRows, h)
    BY <1>1 DEF Contains
  <2>2. RankIn(h, vectorRows) \in DOMAIN vectorRows /\ vectorRows[RankIn(h, vectorRows)] = h
    BY <1>0, <2>1, RankType
  <2> QED
    BY <1>1, <2>1, <2>2
<1>3. Share(h, vectorRows) = best
  BY <1>2 DEF Share
<1>4. RrfScore(h) >= best /\ RrfScore(h) \in Nat /\ best \in Nat
  <2>1. Share(h, lexicalRows) \in Nat /\ Share(h, vectorRows) \in Nat
    BY <1>0, ShareFalls
  <2> HIDE DEF best, h
  <2> QED
    BY <1>3, <2>1 DEF RrfScore
<1>5. SUFFICES ASSUME ~ Contains(vectorRows, d)
               PROVE  FALSE
  BY <1>1 DEF Contains, ToSet
<1>6. RrfScore(d) <= best /\ RrfScore(d) \in Nat
  <2>1. Share(d, lexicalRows) \in Nat /\ Share(d, lexicalRows) <= best /\ Share(d, vectorRows) = 0
    BY <1>0, <1>5, ShareFalls DEF Share
  <2> HIDE DEF best, h
  <2> QED
    BY <2>1 DEF RrfScore
<1>7. ~ SeenBefore(d, h)
  BY <1>2, <1>5 DEF SeenBefore
<1> HIDE DEF best, h
<1>8. RankedBefore(d, h)
  BY DEF h
<1> QED
  BY <1>4, <1>6, <1>7, <1>8 DEF RankedBefore

LEMMA PrefixOfSequence ==
  ASSUME NEW S, NEW s \in Seq(S), NEW last \in Nat, last <= Len(s)
  PROVE  /\ SubSeq(s, 1, last) \in Seq(S) /\ Len(SubSeq(s, 1, last)) = last
         /\ \A i \in 1..last : SubSeq(s, 1, last)[i] = s[i]
<1>1. SubSeq(s, 1, last) \in Seq(S)
  OBVIOUS
<1>2. Len(SubSeq(s, 1, last)) = last
  OBVIOUS
<1>3. \A i \in 1..last : SubSeq(s, 1, last)[i] = s[i]
  OBVIOUS
<1> QED
  BY <1>1, <1>2, <1>3

(* The fused order, and the part of it that survives the cut. *)
LEMMA FusedOrder ==
  ASSUME RetrievalInv, NEW fused \in SetToSeqs(Seen),
         candidates' = SubSeq(fused, 1, Min({CandidateK, Len(fused)}))
  PROVE  /\ fused \in Seq(Chunks) /\ DOMAIN fused = 1..Len(fused)
         /\ \A i, j \in DOMAIN fused : i # j => fused[i] # fused[j]
         /\ \A i \in DOMAIN fused : fused[i] \in Seen
         /\ \A c \in Seen : \E i \in DOMAIN fused : fused[i] = c
         /\ candidates' \in Seq(Chunks)
         /\ \A i \in DOMAIN candidates' : i \in DOMAIN fused /\ candidates'[i] = fused[i]
         /\ \A i \in DOMAIN fused : i <= CandidateK => i \in DOMAIN candidates'
<1>0. topK \in TopKs /\ vectorRows \in Rankings /\ lexicalRows \in Rankings
  BY DEF RetrievalInv
<1>1. Seen \subseteq Chunks
  <2>1. vectorRows \in Seq(Chunks) /\ lexicalRows \in Seq(Chunks)
    BY <1>0, RankingType
  <2> QED
    BY <2>1 DEF Seen, ToSet
<1>2. IsFiniteSet(Seen)
  BY <1>1, RetrievalAssumption, FS_Subset
<1>3. /\ fused \in Seq(Seen) /\ DOMAIN fused = 1..Len(fused)
      /\ \A i, j \in DOMAIN fused : i # j => fused[i] # fused[j]
      /\ \A c \in Seen : \E i \in DOMAIN fused : fused[i] = c
  BY <1>2, OrderOnto
<1>4. fused \in Seq(Chunks) /\ \A i \in DOMAIN fused : fused[i] \in Seen
  BY <1>1, <1>3
<1> DEFINE last == Min({CandidateK, Len(fused)})
<1>5. /\ last = IF CandidateK <= Len(fused) THEN CandidateK ELSE Len(fused)
      /\ CandidateK \in Nat /\ Len(fused) \in Nat
  BY <1>0, <1>3, CandidateKType, MinOfTwo
<1>6. last \in Nat /\ last <= Len(fused) /\ candidates' = SubSeq(fused, 1, last)
  BY <1>5
<1> HIDE DEF last
<1>7. candidates' \in Seq(Chunks) /\ Len(candidates') = last
  BY <1>4, <1>6, PrefixOfSequence
<1>8. \A i \in 1..last : i \in DOMAIN fused /\ candidates'[i] = fused[i]
  <2>1. \A i \in 1..last : SubSeq(fused, 1, last)[i] = fused[i]
    <3>1. fused \in Seq(Chunks) /\ last \in Nat /\ last <= Len(fused)
      BY <1>4, <1>6
    <3> QED
      BY <3>1, PrefixOfSequence
  <2>2. 1..last \subseteq DOMAIN fused
    <3> DEFINE n == Len(fused)
    <3>1. n \in Nat /\ last \in Nat /\ last <= n /\ DOMAIN fused = 1..n
      BY <1>3, <1>5, <1>6
    <3> HIDE DEF n
    <3> QED
      BY <3>1
  <2> QED
    BY <1>6, <2>1, <2>2
<1>9. DOMAIN candidates' = 1..last
  <2>1. DOMAIN candidates' = 1..Len(candidates')
    BY <1>7
  <2> QED
    BY <1>7, <2>1
<1>10. \A i \in DOMAIN fused : i <= CandidateK => i \in 1..last
  <2>1. \A i \in 1..Len(fused) : i <= CandidateK => i \in 1..last
    <3> DEFINE n == Len(fused)
               k == CandidateK
    <3>1. n \in Nat /\ k \in Nat /\ last = IF k <= n THEN k ELSE n
      BY <1>5
    <3> HIDE DEF n, k
    <3>2. \A i \in 1..n : i <= k => i \in 1..last
      BY <3>1
    <3> QED
      BY <3>2 DEF n, k
  <2> QED
    BY <1>3, <2>1
<1> QED
  BY <1>3, <1>4, <1>7, <1>8, <1>9, <1>10

LEMMA FuseStep ==
  ASSUME RetrievalInv, FuseRrf
  PROVE  RetrievalInv'
<1>0. /\ stage = "fuse" /\ stage' = "mmr" /\ selected = <<>>
      /\ UNCHANGED <<queryEmbedding, topK, vectorRows, lexicalRows, selected>>
      /\ topK \in TopKs /\ vectorRows \in Rankings /\ lexicalRows \in Rankings
  BY DEF RetrievalInv, FuseRrf, ToSet
<1>1. PICK fused \in SetToSeqs(Seen) :
        /\ \A i, j \in DOMAIN fused : i < j => RankedBefore(fused[i], fused[j])
        /\ candidates' = SubSeq(fused, 1, Min({CandidateK, Len(fused)}))
  BY DEF FuseRrf
<1>2. /\ fused \in Seq(Chunks) /\ DOMAIN fused = 1..Len(fused)
      /\ \A i, j \in DOMAIN fused : i # j => fused[i] # fused[j]
      /\ \A i \in DOMAIN fused : fused[i] \in Seen
      /\ \A c \in Seen : \E i \in DOMAIN fused : fused[i] = c
      /\ candidates' \in Seq(Chunks)
      /\ \A i \in DOMAIN candidates' : i \in DOMAIN fused /\ candidates'[i] = fused[i]
      /\ \A i \in DOMAIN fused : i <= CandidateK => i \in DOMAIN candidates'
  BY <1>1, FusedOrder
<1>3. ASSUME vectorRows # <<>>
      PROVE  Contains(candidates', Head(vectorRows))
  <2> DEFINE h == Head(vectorRows)
             others == ToSet(vectorRows) \ {h}
  <2>1. /\ vectorRows \in Seq(Chunks) /\ Len(vectorRows) <= CandidateK /\ CandidateK \in Nat
        /\ IsFiniteSet(ToSet(vectorRows)) /\ Cardinality(ToSet(vectorRows)) = Len(vectorRows)
    BY <1>0, RankingType, CandidateKType
  <2>2. h \in ToSet(vectorRows) /\ h \in Seen
    BY <1>3, <2>1 DEF ToSet, Seen
  <2>3. IsFiniteSet(others) /\ Cardinality(others) = Len(vectorRows) - 1
    BY <2>1, <2>2, FS_RemoveElement
  <2>4. PICK p \in DOMAIN fused : fused[p] = h
    BY <1>2, <2>2
  <2>5. p \in Nat /\ 1 <= p /\ 1..(p - 1) \subseteq DOMAIN fused
    BY <1>2
  <2>6. ASSUME NEW i \in 1..(p - 1)
        PROVE  fused[i] \in others
    <3>1. i \in DOMAIN fused /\ i < p /\ fused[i] # h /\ fused[i] \in Seen
      BY <1>2, <2>4, <2>5
    <3>2. RankedBefore(fused[i], h)
      BY <1>1, <2>4, <3>1
    <3> QED
      BY <1>3, <3>1, <3>2, BeforeNearest
  <2> DEFINE before == [i \in 1..(p - 1) |-> fused[i]]
  <2>7. before \in Injection(1..(p - 1), others)
    <3>1. before \in [1..(p - 1) -> others]
      BY <2>6
    <3> QED
      BY <1>2, <2>5, <3>1 DEF Injection, IsInjective
  <2>8. Cardinality(1..(p - 1)) <= Cardinality(others) /\ Cardinality(1..(p - 1)) = p - 1
    <3>1. Cardinality(1..(p - 1)) <= Cardinality(others)
      <4> HIDE DEF before, others
      <4> QED
        BY <2>3, <2>7, FS_Injection
    <3>2. Cardinality(1..(p - 1)) = p - 1
      BY <2>5, FS_Interval
    <3> QED
      BY <3>1, <3>2
  <2>9. p <= CandidateK
    <3>1. Len(vectorRows) \in Nat
      BY <2>1
    <3> HIDE DEF others
    <3> QED
      BY <2>1, <2>3, <2>5, <2>8, <3>1
  <2>10. p \in DOMAIN candidates' /\ candidates'[p] = h
    BY <1>2, <2>4, <2>9
  <2>11. DOMAIN candidates' = 1..Len(candidates')
    BY <1>2
  <2> QED
    BY <2>10, <2>11 DEF Contains
<1>4. ASSUME NEW c \in Seen, NEW j \in DOMAIN candidates',
             Agrees(c, candidates'[j], vectorRows), Agrees(c, candidates'[j], lexicalRows)
      PROVE  \E i \in 1..j - 1 : candidates'[i] = c
  <2>1. j \in DOMAIN fused /\ candidates'[j] = fused[j] /\ fused[j] \in Seen
    BY <1>2
  <2>2. c # fused[j] /\ ~ RankedBefore(fused[j], c)
    BY <1>4, <2>1, AgreedRanked
  <2>3. PICK i \in DOMAIN fused : fused[i] = c
    BY <1>2
  <2>4. ~ (j < i) /\ i # j
    BY <1>1, <2>1, <2>2, <2>3
  <2>5. i \in 1..j - 1
    BY <1>2, <2>1, <2>3, <2>4
  <2>6. DOMAIN candidates' = 1..Len(candidates') /\ Len(candidates') \in Nat
    BY <1>2
  <2>7. i \in DOMAIN candidates'
    BY <2>5, <2>6
  <2> QED
    BY <1>2, <2>3, <2>5, <2>7
<1>5. NearestKept'
  BY <1>0, <1>3 DEF NearestKept
<1>6. AgreementRanksFirst'
  BY <1>0, <1>4 DEF AgreementRanksFirst, Seen, Agrees, RankIn
<1>7. PassedOverForRedundancy'
  BY <1>0 DEF PassedOverForRedundancy
<1>8. selected' \in Seq(ToSet(candidates')) /\ Rankings' = Rankings
  BY <1>0 DEF Rankings, CandidateK
<1> QED
  BY <1>0, <1>2, <1>5, <1>6, <1>7, <1>8 DEF RetrievalInv

-----------------------------------------------------------------------------
(* Selection. *)

LEMMA PrefixesOfAppend ==
  ASSUME NEW S, NEW s \in Seq(S), NEW x \in S, NEW i \in 0..Len(s)
  PROVE  SubSeq(Append(s, x), 1, i) = SubSeq(s, 1, i)
<1>1. Append(s, x) \in Seq(S) /\ Len(Append(s, x)) = Len(s) + 1 /\ Len(s) \in Nat /\ i \in Nat
  OBVIOUS
<1>2. \A j \in 1..i : Append(s, x)[j] = s[j]
  OBVIOUS
<1>3. /\ SubSeq(Append(s, x), 1, i) \in Seq(S) /\ Len(SubSeq(Append(s, x), 1, i)) = i
      /\ \A j \in 1..i : SubSeq(Append(s, x), 1, i)[j] = Append(s, x)[j]
  BY <1>1, PrefixOfSequence
<1>4. /\ SubSeq(s, 1, i) \in Seq(S) /\ Len(SubSeq(s, 1, i)) = i
      /\ \A j \in 1..i : SubSeq(s, 1, i)[j] = s[j]
  BY <1>1, PrefixOfSequence
<1> DEFINE p == SubSeq(Append(s, x), 1, i)
           q == SubSeq(s, 1, i)
<1>5. p \in Seq(S) /\ q \in Seq(S) /\ Len(p) = Len(q) /\ \A j \in 1..Len(p) : p[j] = q[j]
  BY <1>2, <1>3, <1>4
<1> HIDE DEF p, q
<1>6. p = q
  BY <1>5, SeqEqual
<1> QED
  BY <1>6 DEF p, q

LEMMA WholeSequence ==
  ASSUME NEW S, NEW s \in Seq(S)
  PROVE  SubSeq(s, 1, Len(s)) = s
<1> DEFINE p == SubSeq(s, 1, Len(s))
<1>1. Len(s) \in Nat
  OBVIOUS
<1>2. p \in Seq(S) /\ Len(p) = Len(s) /\ \A j \in 1..Len(s) : p[j] = s[j]
  BY <1>1, PrefixOfSequence
<1> HIDE DEF p
<1>3. p = s
  BY <1>2, SeqEqual
<1> QED
  BY <1>3 DEF p

(* Relevance and redundancy are integers. *)
LEMMA RelevanceType ==
  ASSUME RetrievalInv, NEW c \in Chunks
  PROVE  Relevance(c) \in Int
<1>1. EmbeddingOf[c] \in Int \X Int /\ queryEmbedding \in Int \X Int
  BY RetrievalAssumption DEF RetrievalInv
<1> QED
  BY <1>1 DEF Relevance, Dot

LEMMA RedundancyType ==
  ASSUME NEW c \in Chunks, NEW chosen \in Seq(Chunks), chosen # <<>>
  PROVE  Redundancy(c, chosen) \in Int
<1> DEFINE sims == {Similarity(c, s) : s \in ToSet(chosen)}
<1>1. /\ ToSet(chosen) \subseteq Chunks /\ ToSet(chosen) # {} /\ IsFiniteSet(ToSet(chosen))
  <2>1. ToSet(chosen) \subseteq Chunks
    BY DEF ToSet
  <2>2. chosen[1] \in ToSet(chosen)
    BY DEF ToSet
  <2>3. IsFiniteSet(ToSet(chosen))
    BY <2>1, RetrievalAssumption, FS_Subset
  <2> QED
    BY <2>1, <2>2, <2>3
<1>2. \A s \in Chunks : Similarity(c, s) \in Int
  <2> SUFFICES ASSUME NEW s \in Chunks
               PROVE  Similarity(c, s) \in Int
    OBVIOUS
  <2>1. EmbeddingOf[c] \in Int \X Int /\ EmbeddingOf[s] \in Int \X Int
    BY RetrievalAssumption
  <2> QED
    BY <2>1 DEF Similarity, Dot
<1>3. sims \subseteq Int /\ sims # {}
  BY <1>1, <1>2
<1>4. IsFiniteSet(sims)
  <2> DEFINE f == [s \in ToSet(chosen) |-> Similarity(c, s)]
  <2>1. f \in Surjection(ToSet(chosen), sims)
    BY DEF Surjection
  <2> HIDE DEF f, sims
  <2> QED
    BY <1>1, <2>1, FS_Surjection
<1> HIDE DEF sims
<1>5. Max(sims) \in sims
  BY <1>3, <1>4, MaxOfIntegers
<1> QED
  BY <1>3, <1>5 DEF Redundancy, sims

LEMMA AgreementKept ==
  ASSUME AgreementRanksFirst, UNCHANGED <<vectorRows, lexicalRows, candidates>>
  PROVE  AgreementRanksFirst'
<1>1. /\ vectorRows' = vectorRows /\ lexicalRows' = lexicalRows /\ candidates' = candidates
      /\ Seen' = Seen
  BY DEF Seen
<1>2. \A c \in Seen' : \A j \in DOMAIN candidates' :
        Agrees(c, candidates'[j], vectorRows') /\ Agrees(c, candidates'[j], lexicalRows') =>
          \E i \in 1..j - 1 : candidates'[i] = c
  BY <1>1 DEF AgreementRanksFirst
<1> QED
  BY <1>2 DEF AgreementRanksFirst, Agrees, RankIn

LEMMA SelectStep ==
  ASSUME RetrievalInv, SelectChunk
  PROVE  RetrievalInv'
<1> DEFINE n == Len(selected)
<1>0. /\ stage = "mmr"
      /\ UNCHANGED <<stage, queryEmbedding, topK, vectorRows, lexicalRows, candidates>>
      /\ candidates \in Seq(Chunks) /\ selected \in Seq(ToSet(candidates))
  BY DEF RetrievalInv, SelectChunk
<1>1. PICK b \in Remaining : IsBest(b) /\ selected' = Append(selected, candidates[b])
  BY DEF SelectChunk
<1> DEFINE pick == candidates[b]
<1>2. b \in DOMAIN candidates /\ pick \in ToSet(candidates)
  BY <1>0, <1>1 DEF Remaining, ToSet
<1>3. ToSet(candidates) \subseteq Chunks /\ pick \in Chunks
  BY <1>0, <1>2 DEF ToSet
<1>4. /\ selected' \in Seq(ToSet(candidates)) /\ n \in Nat /\ Len(selected') = n + 1
      /\ selected'[n + 1] = pick /\ \A i \in 1..n : selected'[i] = selected[i]
      /\ DOMAIN selected' = 1..(n + 1) /\ DOMAIN selected = 1..n
      /\ selected \in Seq(Chunks)
  BY <1>0, <1>1, <1>2, <1>3
<1>5. \A i \in 0..n : SubSeq(selected', 1, i) = SubSeq(selected, 1, i)
  BY <1>0, <1>1, <1>2, PrefixesOfAppend
<1>6. SubSeq(selected', 1, n) = selected /\ SubSeq(selected', 1, n + 1) = selected'
  <2>1. SubSeq(selected, 1, n) = selected
    BY <1>0, WholeSequence
  <2>2. SubSeq(selected', 1, n + 1) = selected'
    BY <1>4, WholeSequence
  <2>3. n \in 0..n
    BY <1>4
  <2> QED
    BY <1>5, <2>1, <2>2, <2>3
<1>7. ASSUME NEW c \in ToSet(candidates), ~ Contains(selected, c)
      PROVE  MmrScore(c) <= MmrScore(pick) \/ MmrScore(c) < MmrScore(pick)
  <2>1. PICK j \in DOMAIN candidates : candidates[j] = c
    BY <1>0 DEF ToSet
  <2>2. j \in Remaining
    BY <1>7, <2>1 DEF Remaining
  <2> QED
    BY <1>1, <2>1, <2>2 DEF IsBest
<1>8. \A c \in Chunks : Relevance(c) \in Int /\ Relevance(c)' = Relevance(c)
  BY <1>0, RelevanceType DEF Relevance
<1>9. \A c \in Chunks : selected # <<>> => Redundancy(c, selected) \in Int
  BY <1>4, RedundancyType
<1>10. NearestKept'
  <2> SUFFICES ASSUME vectorRows # <<>>
               PROVE  /\ Contains(candidates, Head(vectorRows))
                      /\ Relevance(selected'[1]) >= Relevance(Head(vectorRows))
    BY <1>0, <1>8 DEF NearestKept, Relevance
  <2> DEFINE h == Head(vectorRows)
  <2>1. Contains(candidates, h) /\ (selected # <<>> => Relevance(selected[1]) >= Relevance(h))
    BY <1>0 DEF RetrievalInv, NearestKept
  <2>2. h \in ToSet(candidates) /\ h \in Chunks
    BY <1>0, <1>3, <2>1 DEF Contains, ToSet
  <2>3. CASE selected # <<>>
    <3>1. 1 \in 1..n
      BY <1>4, <2>3
    <3> QED
      BY <1>4, <2>1, <3>1
  <2>4. CASE selected = <<>>
    <3>1. ~ Contains(selected, h) /\ n = 0
      BY <2>4 DEF Contains
    <3>2. Relevance(h) <= Relevance(pick) \/ Relevance(h) < Relevance(pick)
      BY <1>7, <2>2, <2>4, <3>1 DEF MmrScore
    <3>3. selected'[1] = pick
      BY <1>4, <3>1
    <3>4. Relevance(h) \in Int /\ Relevance(pick) \in Int
      BY <1>3, <1>8, <2>2
    <3> HIDE DEF h, pick
    <3>5. Relevance(pick) >= Relevance(h)
      BY <3>2, <3>4
    <3> QED
      BY <2>1, <3>3, <3>5 DEF h
  <2> QED
    BY <2>3, <2>4
<1>11. PassedOverForRedundancy'
  <2> SUFFICES ASSUME NEW i \in DOMAIN selected', NEW c \in ToSet(candidates),
                      ~ Contains(SubSeq(selected', 1, i), c),
                      Relevance(c) > Relevance(selected'[i])
               PROVE  /\ SubSeq(selected', 1, i - 1) # <<>>
                      /\ Redundancy(c, SubSeq(selected', 1, i - 1))
                           > Redundancy(selected'[i], SubSeq(selected', 1, i - 1))
    BY <1>0 DEF PassedOverForRedundancy, Redundancy, Similarity, Relevance
  <2>1. CASE i \in 1..n
    <3>1. i \in 0..n /\ i - 1 \in 0..n /\ i \in DOMAIN selected /\ selected'[i] = selected[i]
      BY <1>4, <2>1
    <3>2. /\ SubSeq(selected', 1, i) = SubSeq(selected, 1, i)
          /\ SubSeq(selected', 1, i - 1) = SubSeq(selected, 1, i - 1)
      BY <1>5, <3>1
    <3> QED
      BY <3>1, <3>2 DEF RetrievalInv, PassedOverForRedundancy
  <2>2. CASE i = n + 1
    <3>1. /\ i - 1 = n /\ SubSeq(selected', 1, i) = selected' /\ SubSeq(selected', 1, i - 1) = selected
          /\ selected'[i] = pick
      BY <1>4, <1>6, <2>2
    <3>2. ~ Contains(selected, c)
      <4> SUFFICES ASSUME NEW j \in 1..n, selected[j] = c
                   PROVE  FALSE
        BY <1>4 DEF Contains
      <4>1. j \in DOMAIN selected' /\ selected'[j] = c /\ j \in 1..Len(selected')
        BY <1>4
      <4> QED
        BY <3>1, <4>1 DEF Contains
    <3>3. MmrScore(c) <= MmrScore(pick) \/ MmrScore(c) < MmrScore(pick)
      BY <1>7, <3>2
    <3>4. Relevance(c) \in Int /\ Relevance(pick) \in Int /\ Relevance(c) > Relevance(pick)
      BY <1>3, <1>8, <3>1
    <3> HIDE DEF pick
    <3>5. selected # <<>>
      BY <3>3, <3>4 DEF MmrScore
    <3>6. Redundancy(c, selected) \in Int /\ Redundancy(pick, selected) \in Int
      BY <1>3, <1>9, <3>5
    <3>7. Redundancy(c, selected) > Redundancy(pick, selected)
      BY <3>3, <3>4, <3>5, <3>6 DEF MmrScore
    <3> QED
      BY <3>1, <3>5, <3>7
  <2> QED
    BY <1>4, <2>1, <2>2
<1>12. AgreementRanksFirst'
  BY <1>0, AgreementKept DEF RetrievalInv
<1>13. Rankings' = Rankings /\ ToSet(candidates)' = ToSet(candidates)
  BY <1>0 DEF Rankings, CandidateK, ToSet
<1> QED
  BY <1>0, <1>4, <1>10, <1>11, <1>12, <1>13 DEF RetrievalInv

-----------------------------------------------------------------------------
(* The searches, and the rest. *)

LEMMA NothingRetrieved == topK \in TopKs => <<>> \in Rankings
<1> SUFFICES ASSUME topK \in TopKs
             PROVE  <<>> \in Rankings
  OBVIOUS
<1>1. IsFiniteSet({}) /\ Cardinality({}) = 0
  BY FS_EmptySet
<1>2. <<>> \in SetToSeqs({})
  BY <1>1 DEF SetToSeqs
<1>3. CandidateK \in Nat
  BY CandidateKType
<1>4. {} \in {T \in SUBSET Chunks : Cardinality(T) <= CandidateK}
  BY <1>1, <1>3
<1> QED
  BY <1>2, <1>4 DEF Rankings

LEMMA InitRetrieval == RetrievalInit => RetrievalInv
<1> SUFFICES ASSUME RetrievalInit
             PROVE  RetrievalInv
  OBVIOUS
<1>1. queryEmbedding \in Queries /\ topK \in TopKs
  BY RetrievalAssumption DEF RetrievalInit
<1>2. vectorRows \in Rankings /\ lexicalRows \in Rankings
  BY <1>1, NothingRetrieved DEF RetrievalInit
<1>3. /\ stage = "idle" /\ candidates = <<>> /\ selected = <<>>
      /\ candidates \in Seq(Chunks) /\ selected \in Seq(ToSet(candidates))
  BY DEF RetrievalInit
<1>4. NearestKept /\ AgreementRanksFirst /\ PassedOverForRedundancy
  BY <1>3 DEF NearestKept, AgreementRanksFirst, PassedOverForRedundancy
<1> QED
  BY <1>1, <1>2, <1>3, <1>4 DEF RetrievalInv

(* Before fusion there are neither candidates nor sources. *)
LEMMA SearchStep ==
  ASSUME RetrievalInv, Retrieve \/ VectorSearch \/ LexicalSearch
  PROVE  RetrievalInv'
<1>1. /\ stage' \in {"vector", "lexical", "fuse"}
      /\ candidates' = <<>> /\ selected' = <<>>
  BY DEF RetrievalInv, Retrieve, VectorSearch, LexicalSearch, ToSet
<1>2. queryEmbedding' \in Queries /\ topK' \in TopKs
  BY DEF RetrievalInv, Retrieve, VectorSearch, LexicalSearch
<1>3. vectorRows' \in Rankings' /\ lexicalRows' \in Rankings'
  <2>1. CASE Retrieve
    <3>1. (topK \in TopKs => <<>> \in Rankings)'
      BY NothingRetrieved, PTL
    <3>2. <<>> \in Rankings'
      BY <1>2, <3>1
    <3> QED
      BY <2>1, <3>2 DEF Retrieve
  <2>2. CASE VectorSearch \/ LexicalSearch
    <3>1. Rankings' = Rankings
      BY <2>2 DEF VectorSearch, LexicalSearch, Rankings, CandidateK
    <3> QED
      BY <2>2, <3>1 DEF RetrievalInv, VectorSearch, LexicalSearch
  <2> QED
    BY <2>1, <2>2
<1>4. candidates' \in Seq(Chunks) /\ selected' \in Seq(ToSet(candidates'))
  BY <1>1
<1>5. NearestKept' /\ AgreementRanksFirst' /\ PassedOverForRedundancy'
  BY <1>1 DEF NearestKept, AgreementRanksFirst, PassedOverForRedundancy
<1> QED
  BY <1>1, <1>2, <1>3, <1>4, <1>5 DEF RetrievalInv

LEMMA EndStep ==
  ASSUME RetrievalInv, EndRetrieve \/ UNCHANGED retrievalVars
  PROVE  RetrievalInv'
<1>1. /\ stage \in {"mmr", "done"} <=> stage' \in {"mmr", "done"}
      /\ stage' \in {"idle", "vector", "lexical", "fuse", "mmr", "done"}
      /\ UNCHANGED <<queryEmbedding, topK, vectorRows, lexicalRows, candidates, selected>>
  BY DEF RetrievalInv, EndRetrieve, retrievalVars
<1>2. Rankings' = Rankings /\ ToSet(candidates)' = ToSet(candidates)
  BY <1>1 DEF Rankings, CandidateK, ToSet
<1>3. NearestKept'
  <2>1. \A c : Relevance(c)' = Relevance(c)
    BY <1>1 DEF Relevance
  <2>2. NearestKept
    BY DEF RetrievalInv
  <2> QED
    BY <1>1, <2>1, <2>2 DEF NearestKept, Relevance
<1>4. AgreementRanksFirst'
  <2>1. AgreementRanksFirst
    BY DEF RetrievalInv
  <2>2. UNCHANGED <<vectorRows, lexicalRows, candidates>>
    BY <1>1
  <2> QED
    BY <2>1, <2>2, AgreementKept
<1>5. PassedOverForRedundancy'
  <2>1. PassedOverForRedundancy
    BY DEF RetrievalInv
  <2> QED
    BY <1>1, <2>1 DEF PassedOverForRedundancy, Redundancy, Similarity, Relevance
<1> QED
  BY <1>1, <1>2, <1>3, <1>4, <1>5 DEF RetrievalInv

LEMMA RetrievalInductive == RetrievalSpec => []RetrievalInv
<1>1. RetrievalInv /\ [RetrievalNext]_retrievalVars => RetrievalInv'
  BY SearchStep, FuseStep, SelectStep, EndStep DEF RetrievalNext
<1> QED
  BY InitRetrieval, <1>1, PTL DEF RetrievalSpec

(* The row the vector leg of Retriever.retrieve puts first survives        *)
(* _fuse_rrf and the cut, and the first source _apply_mmr picks is at      *)
(* least as relevant.                                                      *)
THEOREM NearestKeptCorrect == RetrievalSpec => []NearestKept
<1>1. RetrievalInv => NearestKept
  BY DEF RetrievalInv
<1> QED
  BY RetrievalInductive, <1>1, PTL

(* _fuse_rrf, with the cut, never contradicts what both legs agree on.     *)
THEOREM AgreementRanksFirstCorrect == RetrievalSpec => []AgreementRanksFirst
<1>1. RetrievalInv => AgreementRanksFirst
  BY DEF RetrievalInv
<1> QED
  BY RetrievalInductive, <1>1, PTL

(* _apply_mmr passes a more relevant candidate over only for being more    *)
(* redundant with the sources chosen before it.                            *)
THEOREM PassedOverForRedundancyCorrect == RetrievalSpec => []PassedOverForRedundancy
<1>1. RetrievalInv => PassedOverForRedundancy
  BY DEF RetrievalInv
<1> QED
  BY RetrievalInductive, <1>1, PTL
=============================================================================
