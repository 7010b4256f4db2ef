---------------------------- MODULE QueryService ----------------------------
(***************************************************************************)
(* The query API's use of Postgres.  Each request, a question or a health  *)
(* probe, runs in a worker thread; the threads share the Retriever and its *)
(* one connection, which they replace when they find it closed.            *)
(*                                                                         *)
(* A question is embedded, searched for by vector (two SETs of the session *)
(* and a SELECT, under _search_lock) and by words (a SELECT, any failure   *)
(* of which means no rows), and answered by the LLM.  Embedding, fusion    *)
(* and re-ranking change nothing that threads share.                       *)
(*                                                                         *)
(* Postgres may stop at any moment and breaks its connections then; the    *)
(* driver learns of it, and marks the connection closed, when a statement  *)
(* fails.  A server that is up may still refuse a statement (a filter that *)
(* is no date, a vector of another dimension, a cancelled statement) or a  *)
(* new connection (too many of them): the connection outlives the former,  *)
(* in autocommit, and a question fails on either.                          *)
(***************************************************************************)
EXTENDS Naturals, Sequences, FiniteSets

CONSTANTS
  Threads,
  CandidateKs,        \* candidate_k of the questions asked
  MinEfSearch,        \* _MIN_EF_SEARCH
  IterativeSupported, \* the server's pgvector knows hnsw.iterative_scan
  MaxOutages,         \* bound: times Postgres stops
  None

ASSUME QueryAssumption ==
  /\ CandidateKs \subseteq Nat /\ MinEfSearch \in Nat /\ MaxOutages \in Nat
  /\ IterativeSupported \in BOOLEAN
  /\ None \notin Threads

VARIABLES
  up, outages,   \* Postgres
  conns,         \* every connection opened: its two ends and its session
  conn,          \* Retriever._conn
  connLock, searchLock,
  unsupported,   \* _iterative_scan_unsupported
  pc,
  leg,           \* what the thread needs a cursor for: "vector", "lexical" or "probe"
  cursor,        \* the connection of its cursor
  candidateK, filtered,
  outcome,       \* of its last request
  clean,         \* history: no outage, and no broken connection taken for a good one
  refused        \* history: its last failure was a refusal of a server that was up

dbVars == <<up, outages>>
lockVars == <<connLock, searchLock>>
askVars == <<candidateK, filtered>>
historyVars == <<clean, refused>>
queryVars == <<dbVars, conns, conn, lockVars, unsupported, pc, leg, cursor, askVars, outcome, historyVars>>

Outcomes == {"none", "answered", "degraded", "error", "healthy", "unhealthy"}

Connections == [alive : BOOLEAN, closed : BOOLEAN, ef : Nat, iterative : BOOLEAN]

Fresh == [alive |-> TRUE, closed |-> FALSE, ef |-> 0, iterative |-> FALSE]
Alive(t) == conns[cursor[t]].alive
EfSearch(t) == IF candidateK[t] < MinEfSearch THEN MinEfSearch ELSE candidateK[t]

(* lifespan: the service starts with its connection open. *)
QueryInit ==
  /\ up = TRUE /\ outages = 0
  /\ conns = <<Fresh>> /\ conn = 1
  /\ connLock = None /\ searchLock = None
  /\ unsupported = FALSE
  /\ pc = [t \in Threads |-> "idle"]
  /\ leg = [t \in Threads |-> "probe"]
  /\ cursor = [t \in Threads |-> 1]
  /\ candidateK = [t \in Threads |-> MinEfSearch]
  /\ filtered = [t \in Threads |-> FALSE]
  /\ outcome = [t \in Threads |-> "none"]
  /\ clean = [t \in Threads |-> FALSE] /\ refused = [t \in Threads |-> FALSE]

Goto(t, l) == pc' = [pc EXCEPT ![t] = l]

(* The locals of a request go with it. *)
Locals == <<leg, cursor, candidateK, filtered>>

End(t, o) ==
  /\ Goto(t, "idle")
  /\ outcome' = [outcome EXCEPT ![t] = o]
  /\ leg' = [leg EXCEPT ![t] = "probe"]
  /\ cursor' = [cursor EXCEPT ![t] = 1]
  /\ candidateK' = [candidateK EXCEPT ![t] = MinEfSearch]
  /\ filtered' = [filtered EXCEPT ![t] = FALSE]

(* Where a thread goes with its cursor. *)
Begin(l) == CASE l = "vector" -> "tune" [] l = "lexical" -> "lexical" [] l = "probe" -> "ping"

(* The statement of a thread failed: its connection turns out closed. *)
MarkClosed(t) == conns' = [conns EXCEPT ![cursor[t]].closed = TRUE]

-----------------------------------------------------------------------------
Arrive(t, l) ==
  /\ pc[t] = "idle"
  /\ leg' = [leg EXCEPT ![t] = l]
  /\ outcome' = [outcome EXCEPT ![t] = "none"]
  /\ clean' = [clean EXCEPT ![t] = up /\ (conns[conn].alive \/ conns[conn].closed)]
  /\ refused' = [refused EXCEPT ![t] = FALSE]
  /\ UNCHANGED <<dbVars, conns, conn, lockVars, unsupported, cursor>>

Ask(t) ==
  /\ Arrive(t, "vector")
  /\ Goto(t, "search")
  /\ \E k \in CandidateKs, f \in BOOLEAN :
        candidateK' = [candidateK EXCEPT ![t] = k] /\ filtered' = [filtered EXCEPT ![t] = f]

Health(t) ==
  /\ Arrive(t, "probe")
  /\ Goto(t, "get")
  /\ UNCHANGED askVars

(* Faulty variant: no lock spans the SETs and the SELECT. *)
LockSearchNever(t) ==
  /\ pc[t] = "search"
  /\ Goto(t, "get")
  /\ UNCHANGED <<dbVars, conns, conn, lockVars, unsupported, leg, cursor, askVars, outcome, historyVars>>

LockSearch(t) ==
  /\ pc[t] = "search"
  /\ searchLock = None
  /\ searchLock' = t
  /\ Goto(t, "get")
  /\ UNCHANGED <<dbVars, conns, conn, connLock, unsupported, leg, cursor, askVars, outcome, historyVars>>

-----------------------------------------------------------------------------
(* _get_conn *)

(* Faulty variant: a connection is replaced only if there is none. *)
UsableOnceOpened == TRUE

Usable == ~conns[conn].closed

(* Faulty variant: the reconnect is not guarded. *)
GetConnUnlocked(t) ==
  /\ pc[t] = "get"
  /\ IF Usable
       THEN cursor' = [cursor EXCEPT ![t] = conn] /\ Goto(t, Begin(leg[t]))
       ELSE Goto(t, "connect") /\ UNCHANGED cursor
  /\ UNCHANGED <<dbVars, conns, conn, lockVars, unsupported, leg, askVars, outcome, historyVars>>

GetConn(t) ==
  /\ pc[t] = "get"
  /\ connLock = None
  /\ IF Usable
       THEN /\ cursor' = [cursor EXCEPT ![t] = conn]
            /\ Goto(t, Begin(leg[t]))
            /\ UNCHANGED connLock
       ELSE /\ connLock' = t
            /\ Goto(t, "connect")
            /\ UNCHANGED cursor
  /\ UNCHANGED <<dbVars, conns, conn, searchLock, unsupported, leg, askVars, outcome, historyVars>>

(* connect(): the new connection is the current one before its vector type *)
(* is registered, which is a query of its own.                             *)
OpenConnection ==
  /\ up
  /\ conns' = Append(conns, Fresh)
  /\ conn' = Len(conns) + 1

Connect(t) ==
  /\ pc[t] = "connect"
  /\ OpenConnection
  /\ cursor' = [cursor EXCEPT ![t] = conn']
  /\ connLock' = None
  /\ Goto(t, Begin(leg[t]))
  /\ UNCHANGED <<dbVars, searchLock, unsupported, leg, askVars, outcome, historyVars>>

(* No connection, or a statement that fails: a question fails in the       *)
(* vector leg (HTTP 500), goes on without rows in the lexical leg, and the *)
(* service is unhealthy (HTTP 503).                                        *)
LegFails(t, refusal) ==
  /\ refused' = [refused EXCEPT ![t] = refusal]
  /\ CASE leg[t] = "vector"  -> End(t, "error") /\ searchLock' = None
       [] leg[t] = "lexical" -> Goto(t, "generate") /\ UNCHANGED <<outcome, Locals, searchLock>>
       [] leg[t] = "probe"   -> End(t, "unhealthy") /\ UNCHANGED searchLock

(* Faulty variant: the lock is not released when connect() raises. *)
ConnectFailsKeepsLock(t) ==
  /\ pc[t] = "connect"
  /\ UNCHANGED <<conns, conn>> \/ OpenConnection
  /\ LegFails(t, up)
  /\ UNCHANGED <<dbVars, connLock, unsupported, clean>>

(* No connection is made, Postgres up or down, or the registration of the  *)
(* vector type on the new one fails.                                       *)
ConnectFails(t) ==
  /\ pc[t] = "connect"
  /\ UNCHANGED <<conns, conn>> \/ OpenConnection
  /\ connLock' = None
  /\ LegFails(t, up)
  /\ UNCHANGED <<dbVars, unsupported, clean>>

-----------------------------------------------------------------------------
(* _vector_search, _lexical_search and ping, with a cursor *)

SetEfSearch(t) ==
  /\ pc[t] = "tune" /\ Alive(t)
  /\ conns' = [conns EXCEPT ![cursor[t]].ef = EfSearch(t)]
  /\ Goto(t, IF filtered[t] /\ ~unsupported THEN "scan" ELSE "select")
  /\ UNCHANGED <<dbVars, conn, lockVars, unsupported, leg, cursor, askVars, outcome, historyVars>>

SetIterativeScan(t) ==
  /\ pc[t] = "scan" /\ Alive(t) /\ IterativeSupported
  /\ conns' = [conns EXCEPT ![cursor[t]].iterative = TRUE]
  /\ Goto(t, "select")
  /\ UNCHANGED <<dbVars, conn, lockVars, unsupported, leg, cursor, askVars, outcome, historyVars>>

(* psycopg2.Error, taken for a server that does not know the setting. *)
SetIterativeScanFails(t) ==
  /\ pc[t] = "scan"
  /\ unsupported' = TRUE
  /\ IF Alive(t) THEN UNCHANGED conns ELSE MarkClosed(t)
  /\ Goto(t, "select")
  /\ UNCHANGED <<dbVars, conn, lockVars, leg, cursor, askVars, outcome, historyVars>>

Select(t) ==
  /\ pc[t] = "select" /\ Alive(t)
  /\ searchLock' = None
  /\ leg' = [leg EXCEPT ![t] = "lexical"]
  /\ Goto(t, "get")
  /\ UNCHANGED <<dbVars, conns, conn, connLock, unsupported, cursor, askVars, outcome, historyVars>>

LexicalSelect(t) ==
  /\ pc[t] = "lexical" /\ Alive(t)
  /\ Goto(t, "generate")
  /\ UNCHANGED <<dbVars, conns, conn, lockVars, unsupported, leg, cursor, askVars, outcome, historyVars>>

Ping(t) ==
  /\ pc[t] = "ping" /\ Alive(t)
  /\ End(t, "healthy")
  /\ UNCHANGED <<dbVars, conns, conn, lockVars, unsupported, historyVars>>

(* The connection is broken, or the server refuses the statement. *)
StatementFails(t) ==
  /\ pc[t] \in {"tune", "select", "lexical", "ping"}
  /\ IF Alive(t) THEN UNCHANGED conns ELSE MarkClosed(t)
  /\ LegFails(t, Alive(t))
  /\ UNCHANGED <<dbVars, conn, connLock, unsupported, clean>>

(* RAGGenerator.answer: an answer, or the sources alone when the LLM fails. *)
Generate(t) ==
  /\ pc[t] = "generate"
  /\ End(t, "answered") \/ End(t, "degraded")
  /\ UNCHANGED <<dbVars, conns, conn, lockVars, unsupported, historyVars>>

-----------------------------------------------------------------------------
PostgresStops ==
  /\ up /\ outages < MaxOutages
  /\ up' = FALSE /\ outages' = outages + 1
  /\ conns' = [c \in DOMAIN conns |-> [Fresh EXCEPT !.alive = FALSE, !.closed = conns[c].closed]]
  /\ clean' = [t \in Threads |-> FALSE]
  /\ UNCHANGED <<conn, lockVars, unsupported, pc, leg, cursor, askVars, outcome, refused>>

PostgresStarts ==
  /\ ~up
  /\ up' = TRUE
  /\ UNCHANGED <<outages, conns, conn, lockVars, unsupported, pc, leg, cursor, askVars, outcome, historyVars>>

ThreadStep(t) ==
  \/ LockSearch(t) \/ GetConn(t) \/ Connect(t) \/ ConnectFails(t)
  \/ SetEfSearch(t) \/ SetIterativeScan(t) \/ SetIterativeScanFails(t) \/ Select(t)
  \/ LexicalSelect(t) \/ Ping(t) \/ StatementFails(t) \/ Generate(t)

QueryNext ==
  \/ \E t \in Threads : Ask(t) \/ Health(t) \/ ThreadStep(t)
  \/ PostgresStops \/ PostgresStarts

QuerySpec == QueryInit /\ [][QueryNext]_queryVars

(* A thread that can take a step does, and one that keeps finding a lock   *)
(* free gets it: the holders are preempted like any other thread.          *)
QueryFairSpec == QuerySpec /\ \A t \in Threads : SF_queryVars(ThreadStep(t))

-----------------------------------------------------------------------------
QueryTypeOK ==
  /\ up \in BOOLEAN /\ outages \in 0..MaxOutages
  /\ conns \in Seq(Connections)
  /\ conn \in DOMAIN conns
  /\ connLock \in Threads \cup {None} /\ searchLock \in Threads \cup {None}
  /\ unsupported \in BOOLEAN
  /\ pc \in [Threads -> {"idle", "search", "get", "connect", "tune", "scan", "select",
                         "lexical", "ping", "generate"}]
  /\ leg \in [Threads -> {"vector", "lexical", "probe"}]
  /\ cursor \in [Threads -> DOMAIN conns]
  /\ candidateK \in [Threads -> Nat] /\ filtered \in [Threads -> BOOLEAN]
  /\ outcome \in [Threads -> Outcomes]
  /\ clean \in [Threads -> BOOLEAN] /\ refused \in [Threads -> BOOLEAN]
  /\ \A t \in Threads :
       /\ connLock = t <=> pc[t] = "connect"
       /\ pc[t] \in {"tune", "scan", "select"} => leg[t] = "vector"
       /\ leg[t] = "vector" /\ pc[t] # "search" => searchLock = t

(* _search_lock: otherwise "one thread's tuning silently applies to        *)
(* another thread's query".  Whatever the other threads do, and whichever  *)
(* of them replaces the connection, a vector SELECT runs in a session      *)
(* tuned for its own candidate_k, and for a filter if it has one and the   *)
(* server is not taken to be too old.                                      *)
SelectTuned ==
  \A t \in Threads : pc[t] = "select" /\ Alive(t) =>
    /\ conns[cursor[t]].ef = EfSearch(t)
    /\ filtered[t] /\ ~unsupported => conns[cursor[t]].iterative

(* _conn_lock: "two threads both observing a closed connection would       *)
(* otherwise open two and leak one".                                       *)
OneConnection == Cardinality({c \in DOMAIN conns : conns[c].alive}) <= 1

(* An outage costs the requests it hits, those under way and those that    *)
(* come before anyone has noticed, and no later one.  Once a failure has   *)
(* shown the connection to be broken, the requests that come after it get  *)
(* a new one, however many older ones still hold cursors on the old: if    *)
(* such a request fails, a server that was up refused its statement or its *)
(* connection.                                                             *)
OutagesHeal ==
  \A t \in Threads : outcome[t] \in {"error", "unhealthy"} /\ clean[t] => refused[t]

(* Every request ends, Postgres up or down: the locks are released on      *)
(* every path and are taken in one order.                                  *)
QueriesEnd == \A t \in Threads : pc[t] # "idle" ~> pc[t] = "idle"

-----------------------------------------------------------------------------
(* The strengthening of the invariants that every step preserves.          *)

OnlyCurrentAlive ==
  \A c \in DOMAIN conns : conns[c].alive => c = conn /\ ~conns[c].closed

ReplacedWhenClosed == connLock # None => conns[conn].closed

ScanTuned ==
  \A t \in Threads : pc[t] = "scan" /\ Alive(t) => conns[cursor[t]].ef = EfSearch(t)

(* What a request knows that no outage has hit. *)
CleanThread(t) ==
  clean[t] =>
    /\ up
    /\ conns[conn].alive \/ conns[conn].closed
    /\ pc[t] \in {"tune", "scan", "select", "lexical", "ping"} => Alive(t)

CleanThreads == \A t \in Threads : CleanThread(t)

QueryInv ==
  /\ QueryTypeOK
  /\ OnlyCurrentAlive
  /\ ReplacedWhenClosed
  /\ ScanTuned
  /\ SelectTuned
  /\ CleanThreads
  /\ OutagesHeal
=============================================================================
