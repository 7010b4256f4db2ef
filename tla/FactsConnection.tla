-------------------------- MODULE FactsConnection --------------------------
(***************************************************************************)
(* The connection of FactsRepository.  Worker threads look figures up on   *)
(* one connection, which whoever finds it closed replaces, and no lock     *)
(* guards that: connect() publishes the new connection in self._conn       *)
(* before it sets autocommit, and sets it on whatever self._conn is then.  *)
(*                                                                         *)
(* A statement on a connection without autocommit opens a transaction that *)
(* nobody ends; psycopg2 refuses to set autocommit inside one, and after a *)
(* failed statement Postgres refuses every other one in it.  Whatever goes *)
(* wrong, the lookup returns no facts and the question is answered without.*)
(***************************************************************************)
EXTENDS Naturals, Sequences

CONSTANTS
  Threads,
  MaxGroups,    \* bound: concept groups a question asks for
  MaxOutages,   \* bound: times Postgres stops
  MaxErrors     \* bound: statements that fail on a live connection

ASSUME FactsConnectionAssumption ==
  MaxGroups \in Nat /\ MaxOutages \in Nat /\ MaxErrors \in Nat

VARIABLES
  up, outages, errors,   \* Postgres
  conns,                 \* every connection opened
  conn,                  \* FactsRepository._conn
  pc,
  cursor,                \* the connection of the thread's cursor
  groups,                \* concept groups still to look up
  outcome,               \* of the thread's last lookup
  reconnected,           \* history: the lookup replaced the connection
  clean                  \* history: no outage or failed statement spoilt its session

dbVars == <<up, outages, errors>>
lookupVars == <<cursor, groups>>
historyVars == <<reconnected, clean>>
factsConnVars == <<dbVars, conns, conn, pc, lookupVars, outcome, historyVars>>

(* alive: Postgres's end.  closed: what the driver knows.                  *)
Connections ==
  [alive : BOOLEAN, closed : BOOLEAN, autocommit : BOOLEAN,
   transaction : {"none", "open", "aborted"}]

Fresh == [alive |-> TRUE, closed |-> FALSE, autocommit |-> FALSE, transaction |-> "none"]

(* lifespan connects before there are threads. *)
FactsConnInit ==
  /\ up = TRUE /\ outages = 0 /\ errors = 0
  /\ conns = <<[Fresh EXCEPT !.autocommit = TRUE]>> /\ conn = 1
  /\ pc = [t \in Threads |-> "idle"]
  /\ cursor = [t \in Threads |-> 1]
  /\ groups = [t \in Threads |-> 0]
  /\ outcome = [t \in Threads |-> "none"]
  /\ reconnected = [t \in Threads |-> FALSE]
  /\ clean = [t \in Threads |-> FALSE]

Goto(t, l) == pc' = [pc EXCEPT ![t] = l]

EndLookup(t, o) ==
  /\ Goto(t, "idle")
  /\ outcome' = [outcome EXCEPT ![t] = o]
  /\ cursor' = [cursor EXCEPT ![t] = 1]
  /\ groups' = [groups EXCEPT ![t] = 0]

(* facts_for_question: except Exception *)
LookupRaises(t) == EndLookup(t, "no facts")

-----------------------------------------------------------------------------
FactsForQuestion(t) ==
  /\ pc[t] = "idle"
  /\ Goto(t, "get")
  /\ \E n \in 1..MaxGroups : groups' = [groups EXCEPT ![t] = n]
  /\ outcome' = [outcome EXCEPT ![t] = "none"]
  /\ reconnected' = [reconnected EXCEPT ![t] = FALSE]
  /\ clean' = [clean EXCEPT ![t] =
                 /\ up
                 /\ conns[conn].closed \/ conns[conn].alive
                 /\ conns[conn].transaction # "aborted"]
  /\ UNCHANGED <<dbVars, conns, conn, cursor>>

(* Faulty variant: a connection is replaced only if there is none. *)
UsableOnceOpened == TRUE

Usable == ~conns[conn].closed

GetConn(t) ==
  /\ pc[t] = "get"
  /\ Goto(t, IF Usable THEN "cursor" ELSE "connect")
  /\ UNCHANGED <<dbVars, conns, conn, lookupVars, outcome, historyVars>>

Connect(t) ==
  /\ pc[t] = "connect" /\ up
  /\ conns' = Append(conns, Fresh)
  /\ conn' = Len(conns) + 1
  /\ Goto(t, "autocommit")
  /\ reconnected' = [reconnected EXCEPT ![t] = TRUE]
  /\ UNCHANGED <<dbVars, lookupVars, outcome, clean>>

ConnectFails(t) ==
  /\ pc[t] = "connect" /\ ~up
  /\ LookupRaises(t)
  /\ UNCHANGED <<dbVars, conns, conn, historyVars>>

CanSetAutocommit == ~conns[conn].closed /\ conns[conn].transaction = "none"

(* Faulty variant: connect() leaves psycopg2's default. *)
SetAutocommitForgotten(t) ==
  /\ pc[t] = "autocommit" /\ CanSetAutocommit
  /\ Goto(t, "cursor")
  /\ UNCHANGED <<dbVars, conns, conn, lookupVars, outcome, historyVars>>

(* The connection may be another thread's by now. *)
SetAutocommit(t) ==
  /\ pc[t] = "autocommit" /\ CanSetAutocommit
  /\ conns' = [conns EXCEPT ![conn].autocommit = TRUE]
  /\ Goto(t, "cursor")
  /\ UNCHANGED <<dbVars, conn, lookupVars, outcome, historyVars>>

SetAutocommitRaises(t) ==
  /\ pc[t] = "autocommit" /\ ~CanSetAutocommit
  /\ LookupRaises(t)
  /\ UNCHANGED <<dbVars, conns, conn, historyVars>>

-----------------------------------------------------------------------------
OpenCursor(t) ==
  /\ pc[t] = "cursor" /\ ~conns[conn].closed
  /\ cursor' = [cursor EXCEPT ![t] = conn]
  /\ Goto(t, "execute")
  /\ UNCHANGED <<dbVars, conns, conn, groups, outcome, historyVars>>

OpenCursorRaises(t) ==
  /\ pc[t] = "cursor" /\ conns[conn].closed
  /\ LookupRaises(t)
  /\ UNCHANGED <<dbVars, conns, conn, historyVars>>

Answers(c) == c.alive /\ ~c.closed /\ c.transaction # "aborted"

(* What a statement makes of the transaction it runs in. *)
InTransaction(c, state) == IF c.autocommit THEN c ELSE [c EXCEPT !.transaction = state]

Execute(t) ==
  /\ pc[t] = "execute" /\ Answers(conns[cursor[t]])
  /\ conns' = [conns EXCEPT ![cursor[t]] = InTransaction(@, "open")]
  /\ IF groups[t] = 1
       THEN EndLookup(t, "facts")
       ELSE /\ Goto(t, "get")
            /\ groups' = [groups EXCEPT ![t] = @ - 1]
            /\ UNCHANGED <<cursor, outcome>>
  /\ UNCHANGED <<dbVars, conn, historyVars>>

(* The connection is broken, which the driver now knows, or was closed, or *)
(* its transaction is aborted.                                             *)
ExecuteRaises(t) ==
  /\ pc[t] = "execute" /\ ~Answers(conns[cursor[t]])
  /\ conns' = [conns EXCEPT ![cursor[t]].closed = @ \/ ~conns[cursor[t]].alive]
  /\ LookupRaises(t)
  /\ UNCHANGED <<dbVars, conn, historyVars>>

(* Postgres refuses or cancels the statement, the connection lives on.     *)
StatementError(t) ==
  /\ pc[t] = "execute" /\ Answers(conns[cursor[t]])
  /\ errors < MaxErrors /\ errors' = errors + 1
  /\ conns' = [conns EXCEPT ![cursor[t]] = InTransaction(@, "aborted")]
  /\ LookupRaises(t)
  /\ clean' = [s \in Threads |-> clean[s] /\ s # t /\ conns[cursor[t]].autocommit]
  /\ UNCHANGED <<up, outages, conn, reconnected>>

-----------------------------------------------------------------------------
PostgresStops ==
  /\ up /\ outages < MaxOutages
  /\ up' = FALSE /\ outages' = outages + 1
  /\ conns' = [c \in DOMAIN conns |-> [conns[c] EXCEPT !.alive = FALSE]]
  /\ clean' = [t \in Threads |-> FALSE]
  /\ UNCHANGED <<errors, conn, pc, lookupVars, outcome, reconnected>>

PostgresStarts ==
  /\ ~up
  /\ up' = TRUE
  /\ UNCHANGED <<outages, errors, conns, conn, pc, lookupVars, outcome, historyVars>>

FactsConnNext ==
  \/ \E t \in Threads :
        \/ FactsForQuestion(t) \/ GetConn(t) \/ Connect(t) \/ ConnectFails(t)
        \/ SetAutocommit(t) \/ SetAutocommitRaises(t) \/ OpenCursor(t) \/ OpenCursorRaises(t)
        \/ Execute(t) \/ ExecuteRaises(t) \/ StatementError(t)
  \/ PostgresStops \/ PostgresStarts

FactsConnSpec == FactsConnInit /\ [][FactsConnNext]_factsConnVars

-----------------------------------------------------------------------------
FactsConnTypeOK ==
  /\ up \in BOOLEAN /\ outages \in Nat /\ errors \in Nat
  /\ conns \in Seq(Connections)
  /\ conn \in DOMAIN conns
  /\ pc \in [Threads -> {"idle", "get", "connect", "autocommit", "cursor", "execute"}]
  /\ cursor \in [Threads -> DOMAIN conns]
  /\ groups \in [Threads -> Nat]
  /\ \A t \in Threads : pc[t] # "idle" => groups[t] > 0
  /\ outcome \in [Threads -> {"none", "facts", "no facts"}]
  /\ reconnected \in [Threads -> BOOLEAN] /\ clean \in [Threads -> BOOLEAN]

(* Replacing the connection without a lock costs nobody else: a lookup     *)
(* returns no facts only if an outage or a failed statement spoilt its     *)
(* session, or if it replaced the connection itself.  A thread that does   *)
(* may lose its facts to another that was faster on its new connection.    *)
OnlyReconnectsFail ==
  \A t \in Threads : outcome[t] = "no facts" => ~clean[t] \/ reconnected[t]

(* A connection is left without autocommit in one way only: another thread *)
(* has run a statement on it before its opener came to set autocommit, and *)
(* that statement's transaction is still open.                             *)
UnsetOnlyIfOvertaken ==
  \/ conns[conn].autocommit \/ conns[conn].closed
  \/ conns[conn].transaction # "none"
  \/ \E t \in Threads : pc[t] = "autocommit"

-----------------------------------------------------------------------------
(* The strengthening of the invariants that every step preserves.          *)

(* What a lookup knows that nothing has spoilt and that has not connected. *)
Undisturbed(t) ==
  /\ up
  /\ conns[conn].closed \/ conns[conn].alive
  /\ conns[conn].transaction # "aborted"
  /\ pc[t] # "autocommit"
  /\ pc[t] = "cursor" => ~conns[conn].closed
  /\ pc[t] = "execute" => Answers(conns[cursor[t]])

Lookups ==
  \A t \in Threads : clean[t] /\ ~reconnected[t] /\ pc[t] # "idle" => Undisturbed(t)

FactsConnInv ==
  /\ FactsConnTypeOK
  /\ Lookups
  /\ OnlyReconnectsFail
  /\ UnsetOnlyIfOvertaken
=============================================================================
