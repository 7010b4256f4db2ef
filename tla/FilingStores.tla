---------------------------- MODULE FilingStores ----------------------------
(***************************************************************************)
(* The state the ingestion service and the embedding workers share: the    *)
(* Kafka topic filings.raw, and the ingestion_log table of Postgres, whose *)
(* rows one service inserts and the other moves to EMBEDDED.  Both         *)
(* components EXTEND this module, so that a module composing them speaks   *)
(* of one topic and one table.                                             *)
(*                                                                         *)
(* A filing stands for its accession number, which is the message key, the *)
(* primary key of ingestion_log and the parent of its chunks.              *)
(***************************************************************************)
EXTENDS Naturals, Sequences

CONSTANTS
  Filings,       \* accession numbers
  Malformed,     \* payloads _parse_kafka_message rejects
  Partitions,    \* partitions of filings.raw
  PartitionOf,   \* the partition of a message key (hash of the key)
  MaxTopic,      \* bound: messages ever appended to one partition
  None           \* no filing, no ticker, no worker

Messages == Filings \cup Malformed

ASSUME StoresAssumption ==
  /\ Filings \cap Malformed = {}
  /\ None \notin Messages
  /\ PartitionOf \in [Messages -> Partitions]
  /\ MaxTopic \in Nat

VARIABLES
  rawTopic,      \* rawTopic[p]: the messages of partition p, in offset order
  ingestionLog   \* ingestionLog[f]: "absent", or the row's status column

storeVars == <<rawTopic, ingestionLog>>

Statuses == {"absent", "PUBLISHED", "EMBEDDED"}

StoresTypeOK ==
  /\ rawTopic \in [Partitions -> Seq(Messages)]
  /\ ingestionLog \in [Filings -> Statuses]

StoresInit ==
  /\ rawTopic = [p \in Partitions |-> <<>>]
  /\ ingestionLog = [f \in Filings |-> "absent"]

(* SELECT 1 FROM ingestion_log WHERE accession_number = f. *)
Recorded(f) == ingestionLog[f] # "absent"

(* Some copy of message m has been appended to filings.raw. *)
OnTopic(m) ==
  \E p \in Partitions : \E o \in 1..Len(rawTopic[p]) : rawTopic[p][o] = m

RoomFor(m) == Len(rawTopic[PartitionOf[m]]) < MaxTopic

(* The broker appends one copy of m to the partition its key hashes to. *)
AppendRaw(m) ==
  /\ RoomFor(m)
  /\ rawTopic' = [rawTopic EXCEPT ![PartitionOf[m]] = Append(@, m)]

(* Faulty variant: ON CONFLICT (accession_number) DO UPDATE. *)
UpsertPublished(f) == ingestionLog' = [ingestionLog EXCEPT ![f] = "PUBLISHED"]

(* INSERT ... 'PUBLISHED' ... ON CONFLICT (accession_number) DO NOTHING. *)
InsertPublished(f) ==
  ingestionLog' = [ingestionLog EXCEPT ![f] = IF @ = "absent" THEN "PUBLISHED" ELSE @]
=============================================================================
