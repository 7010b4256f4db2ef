--------------------------- MODULE StoreConnection ---------------------------
(***************************************************************************)
(* The connection of the embedding worker's ChunkStore.  The consumer      *)
(* thread writes a filing by two transactions on it, and the health probe, *)
(* on the event loop's thread, runs SELECT 1 on it, without autocommit:    *)
(* inside the consumer's transaction if one is open, in one that nobody    *)
(* ends otherwise.  Either replaces the connection when it finds it closed.*)
(*                                                                         *)
(* _transaction keeps the connection it began on.  A commit of a           *)
(* transaction that Postgres has aborted rolls back without an exception.  *)
(***************************************************************************)
EXTENDS Naturals, Sequences

CONSTANTS
  Pages,       \* INSERT statements of a filing's chunks: execute_values
  MaxStops,    \* bound: times Postgres stops
  MaxCancels   \* bound: statements that fail on a live connection

ASSUME StoreConnectionAssumption ==
  Pages # {} /\ "EMBEDDED" \notin Pages /\ MaxStops \in Nat /\ MaxCancels \in Nat

Callers == {"consumer", "probe"}

VARIABLES
  serving, stops, cancels,   \* Postgres
  sessions,    \* every connection opened
  storeConn,   \* ChunkStore._conn
  at,
  using,       \* the connection a caller got
  task,        \* the consumer's transaction: "chunks" or "status"
  toWrite,     \* what it has still to write
  durable,     \* what is committed
  spoilt       \* history: the probe's failure aborted the consumer's transaction

postgresVars == <<serving, stops, cancels>>
writeVars == <<task, toWrite, durable>>
storeConnVars == <<postgresVars, sessions, storeConn, at, using, writeVars, spoilt>>

Sessions ==
  [alive : BOOLEAN, closed : BOOLEAN, transaction : {"none", "open", "aborted"},
   pending : SUBSET (Pages \cup {"EMBEDDED"})]

FreshSession == [alive |-> TRUE, closed |-> FALSE, transaction |-> "none", pending |-> {}]

Writes(t) == IF t = "chunks" THEN Pages ELSE {"EMBEDDED"}

(* lifespan connects; register_vector has run a statement. *)
StoreConnInit ==
  /\ serving = TRUE /\ stops = 0 /\ cancels = 0
  /\ sessions = <<[FreshSession EXCEPT !.transaction = "open"]>> /\ storeConn = 1
  /\ at = [c \in Callers |-> "idle"]
  /\ using = [c \in Callers |-> 1]
  /\ task = "chunks" /\ toWrite = {} /\ durable = {}
  /\ spoilt = FALSE

MoveTo(c, place) == at' = [at EXCEPT ![c] = place]

(* The attempt that has failed starts over; a failed probe answers 503.    *)
Raise(c) ==
  /\ MoveTo(c, "idle")
  /\ task' = IF c = "consumer" THEN "chunks" ELSE task

-----------------------------------------------------------------------------
(* _get_conn *)

CheckConn(c) ==
  /\ at[c] = "idle"
  /\ MoveTo(c, IF sessions[storeConn].closed THEN "open" ELSE "got")
  /\ toWrite' = IF c = "consumer" THEN Writes(task) ELSE toWrite
  /\ UNCHANGED <<postgresVars, sessions, storeConn, using, task, durable, spoilt>>

OpenSession(c) ==
  /\ at[c] = "open" /\ serving
  /\ sessions' = Append(sessions, FreshSession)
  /\ storeConn' = Len(sessions) + 1
  /\ MoveTo(c, "configure")
  /\ UNCHANGED <<postgresVars, using, writeVars, spoilt>>

OpenFails(c) ==
  /\ at[c] = "open" /\ ~serving
  /\ Raise(c)
  /\ UNCHANGED <<postgresVars, sessions, storeConn, using, toWrite, durable, spoilt>>

(* psycopg2 sets autocommit outside transactions only, be it to what it is *)
(* already; the connection may be the other caller's by now.               *)
Configure(c) ==
  /\ at[c] = "configure"
  /\ IF ~sessions[storeConn].closed /\ sessions[storeConn].transaction = "none"
       THEN MoveTo(c, "register") /\ UNCHANGED task
       ELSE Raise(c)
  /\ UNCHANGED <<postgresVars, sessions, storeConn, using, toWrite, durable, spoilt>>

GotConn(c) ==
  /\ at[c] = "got"
  /\ using' = [using EXCEPT ![c] = storeConn]
  /\ MoveTo(c, "use")
  /\ UNCHANGED <<postgresVars, sessions, storeConn, writeVars, spoilt>>

-----------------------------------------------------------------------------
(* Statements *)

(* The caller runs its next statement on session s. *)
Runs(c, s) ==
  \/ at[c] = "register" /\ s = storeConn
  \/ at[c] = "use" /\ s = using[c] /\ (c = "consumer" => toWrite # {})

Responds(s) ==
  sessions[s].alive /\ ~sessions[s].closed /\ sessions[s].transaction # "aborted"

(* register_vector *)
Register(c) ==
  /\ at[c] = "register" /\ Responds(storeConn)
  /\ sessions' = [sessions EXCEPT ![storeConn].transaction = "open"]
  /\ MoveTo(c, "got")
  /\ UNCHANGED <<postgresVars, storeConn, using, writeVars, spoilt>>

(* health: SELECT 1 *)
Select1 ==
  /\ at["probe"] = "use" /\ Responds(using["probe"])
  /\ sessions' = [sessions EXCEPT ![using["probe"]].transaction = "open"]
  /\ MoveTo("probe", "idle")
  /\ UNCHANGED <<postgresVars, storeConn, using, writeVars, spoilt>>

(* A page of store_chunks, or the UPDATE of update_ingestion_status. *)
Write ==
  /\ at["consumer"] = "use" /\ Responds(using["consumer"])
  /\ \E w \in toWrite :
        /\ toWrite' = toWrite \ {w}
        /\ sessions' = [sessions EXCEPT ![using["consumer"]].transaction = "open",
                                        ![using["consumer"]].pending = @ \cup {w}]
  /\ UNCHANGED <<postgresVars, storeConn, at, using, task, durable, spoilt>>

(* Within _transaction an exception leads to the rollback. *)
StatementRaises(c) ==
  IF c = "consumer" /\ at[c] = "use"
    THEN MoveTo(c, "rollback") /\ UNCHANGED task
    ELSE Raise(c)

(* The connection is broken, which the driver now knows, or was closed, or *)
(* its transaction is aborted.                                             *)
NoResponse(c) ==
  /\ \E s \in DOMAIN sessions :
        /\ Runs(c, s) /\ ~Responds(s)
        /\ sessions' = [sessions EXCEPT ![s].closed = @ \/ ~sessions[s].alive]
  /\ StatementRaises(c)
  /\ UNCHANGED <<postgresVars, storeConn, using, toWrite, durable, spoilt>>

(* The probe's statement is in the consumer's transaction. *)
Spoils(c, s) == c = "probe" /\ at["consumer"] = "use" /\ using["consumer"] = s

(* Postgres refuses or cancels the statement: a chunk without its row in   *)
(* ingestion_log, an administrator.  The connection lives on.              *)
Cancelled(c) ==
  /\ cancels < MaxCancels /\ cancels' = cancels + 1
  /\ \E s \in DOMAIN sessions :
        /\ Runs(c, s) /\ Responds(s)
        /\ sessions' = [sessions EXCEPT ![s].transaction = "aborted"]
        /\ spoilt' = (spoilt \/ Spoils(c, s))
  /\ StatementRaises(c)
  /\ UNCHANGED <<serving, stops, storeConn, using, toWrite, durable>>

-----------------------------------------------------------------------------
(* _transaction: commit and rollback *)

Connected(s) == sessions[s].alive /\ ~sessions[s].closed
Committed(s) == IF sessions[s].transaction = "aborted" THEN {} ELSE sessions[s].pending
Ended(s) == [sessions[s] EXCEPT !.transaction = "none", !.pending = {}]

Return ==
  /\ MoveTo("consumer", "idle")
  /\ task' = IF task = "chunks" THEN "status" ELSE "chunks"

(* Faulty variant: the commit is made on the store's connection of the moment. *)
CommitCurrent ==
  /\ at["consumer"] = "use" /\ toWrite = {}
  /\ Connected(storeConn)
  /\ durable' = durable \cup Committed(storeConn)
  /\ sessions' = [sessions EXCEPT ![storeConn] = Ended(storeConn)]
  /\ Return
  /\ UNCHANGED <<postgresVars, storeConn, using, toWrite, spoilt>>

CommitStore ==
  /\ at["consumer"] = "use" /\ toWrite = {}
  /\ LET s == using["consumer"] IN
       /\ Connected(s)
       /\ durable' = durable \cup Committed(s)
       /\ sessions' = [sessions EXCEPT ![s] = Ended(s)]
  /\ Return
  /\ UNCHANGED <<postgresVars, storeConn, using, toWrite, spoilt>>

CommitRaises ==
  /\ at["consumer"] = "use" /\ toWrite = {}
  /\ LET s == using["consumer"] IN
       /\ ~Connected(s)
       /\ sessions' = [sessions EXCEPT ![s].closed = TRUE]
  /\ Raise("consumer")
  /\ UNCHANGED <<postgresVars, storeConn, using, toWrite, durable, spoilt>>

StopAll == [s \in DOMAIN sessions |-> [sessions[s] EXCEPT !.alive = FALSE]]

(* Postgres commits and stops before it has said so. *)
CommitUnanswered ==
  /\ at["consumer"] = "use" /\ toWrite = {}
  /\ stops < MaxStops /\ stops' = stops + 1 /\ serving' = FALSE
  /\ LET s == using["consumer"] IN
       /\ Connected(s) /\ sessions[s].transaction # "aborted"
       /\ durable' = durable \cup sessions[s].pending
       /\ sessions' = [StopAll EXCEPT ![s].closed = TRUE]
  /\ Raise("consumer")
  /\ UNCHANGED <<cancels, storeConn, using, toWrite, spoilt>>

(* The exception is raised again; on a broken connection rollback raises. *)
RollBack ==
  /\ at["consumer"] = "rollback"
  /\ LET s == using["consumer"] IN
       sessions' = [sessions EXCEPT ![s] = IF Connected(s) THEN Ended(s)
                                             ELSE [@ EXCEPT !.closed = TRUE]]
  /\ Raise("consumer")
  /\ UNCHANGED <<postgresVars, storeConn, using, toWrite, durable, spoilt>>

-----------------------------------------------------------------------------
ServerStops ==
  /\ serving /\ stops < MaxStops
  /\ serving' = FALSE /\ stops' = stops + 1
  /\ sessions' = StopAll
  /\ UNCHANGED <<cancels, storeConn, at, using, writeVars, spoilt>>

ServerStarts ==
  /\ ~serving
  /\ serving' = TRUE
  /\ UNCHANGED <<stops, cancels, sessions, storeConn, at, using, writeVars, spoilt>>

StoreConnNext ==
  \/ \E c \in Callers :
        \/ CheckConn(c) \/ OpenSession(c) \/ OpenFails(c) \/ Configure(c) \/ Register(c)
        \/ GotConn(c) \/ NoResponse(c) \/ Cancelled(c)
  \/ Select1 \/ Write \/ CommitStore \/ CommitRaises \/ CommitUnanswered \/ RollBack
  \/ ServerStops \/ ServerStarts

StoreConnSpec == StoreConnInit /\ [][StoreConnNext]_storeConnVars

-----------------------------------------------------------------------------
StoreConnTypeOK ==
  /\ serving \in BOOLEAN /\ stops \in Nat /\ cancels \in Nat
  /\ sessions \in Seq(Sessions)
  /\ storeConn \in DOMAIN sessions
  /\ at \in [Callers -> {"idle", "open", "configure", "register", "got", "use", "rollback"}]
  /\ at["probe"] # "rollback"
  /\ using \in [Callers -> DOMAIN sessions]
  /\ task \in {"chunks", "status"}
  /\ toWrite \subseteq Pages \cup {"EMBEDDED"}
  /\ durable \subseteq Pages \cup {"EMBEDDED"}
  /\ spoilt \in BOOLEAN

(* A filing's chunks become durable all at once, and before it is EMBEDDED,*)
(* however the probe and lost connections interfere, with one exception:   *)
(* a statement of the probe that fails on a live connection aborts the     *)
(* consumer's transaction, whose commit then drops the chunks in silence.  *)
StoredBeforeEmbedded ==
  /\ Pages \subseteq durable \/ Pages \cap durable = {}
  /\ "EMBEDDED" \in durable => Pages \subseteq durable \/ spoilt

-----------------------------------------------------------------------------
(* The strengthening of the invariant that every step preserves.           *)

(* The driver knows of no break that did not happen. *)
ClosedIsDead == \A s \in DOMAIN sessions : sessions[s].closed => ~sessions[s].alive

InTransactionOn(s) == at["consumer"] \in {"use", "rollback"} /\ s = using["consumer"]

(* No transaction inherits what another has written. *)
NothingLeftOver ==
  \A s \in DOMAIN sessions :
    sessions[s].alive /\ ~InTransactionOn(s) => sessions[s].pending = {}

(* What the consumer's transaction has written is in the session it began  *)
(* on; if that is aborted, it was so before the first statement, which     *)
(* then raises, or by the probe.                                           *)
ConsumerWrites ==
  /\ at["consumer"] \in {"open", "configure", "register", "got"} => toWrite = Writes(task)
  /\ at["consumer"] = "use" =>
       LET session == sessions[using["consumer"]] IN
       /\ toWrite \subseteq Writes(task)
       /\ session.alive => session.pending = Writes(task) \ toWrite
       /\ session.transaction = "aborted" => toWrite = Writes(task) \/ spoilt

StatusAfterChunks == task = "status" => Pages \subseteq durable \/ spoilt

StoreConnInv ==
  /\ StoreConnTypeOK
  /\ ClosedIsDead
  /\ NothingLeftOver
  /\ ConsumerWrites
  /\ StatusAfterChunks
  /\ StoredBeforeEmbedded
=============================================================================
