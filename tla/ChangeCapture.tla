---------------------------- MODULE ChangeCapture ---------------------------
(***************************************************************************)
(* internal/cdc: the consumer of a logical replication slot and its sinks.  *)
(*                                                                          *)
(* The write-ahead log is a fixed sequence of records, the position of a    *)
(* record being its LSN: a change to a table or the commit of a             *)
(* transaction.  The server keeps the slot's confirmed position and, on     *)
(* START_REPLICATION, sends again every transaction that commits after it.  *)
(***************************************************************************)
EXTENDS Integers, FiniteSets, FiniteSetsExt, Sequences

CONSTANTS
  Wal,                   \* Seq(table names and "commit")
  CdcSinks,
  MaxReconnectAttempts,  \* ConsumerConfig, greater than 0
  MaxProcesses           \* bound on the consumer processes that run in turn

Lsns    == 1..Len(Wal)
Changes == {n \in Lsns : Wal[n] # "commit"}
CommitOf(n) == Min({m \in n..Len(Wal) : Wal[m] = "commit"})

VARIABLES
  consumer,    \* off, connecting, streaming, returned
  processes,   \* consumer processes started so far
  attempts,
  lastLSN,     \* of the process, 0 before the first
  confirmed,   \* confirmed_flush_lsn of the slot
  position,    \* next record that the server sends in this session
  relations,   \* tables the decoder of this session knows
  announced,   \* tables whose RELATION message the server has sent in it
  written,     \* changes each sink has taken
  refused,     \* changes some sink refused, at some time
  undecoded    \* changes the decoder gave up on

cdcVars == <<consumer, processes, attempts, lastLSN, confirmed, position, relations, announced,
             written, refused, undecoded>>
sessionVars == <<position, relations, announced>>

CdcTypeOK ==
  /\ consumer \in {"off", "connecting", "streaming", "returned"}
  /\ processes \in 0..MaxProcesses
  /\ attempts \in 0..MaxReconnectAttempts
  /\ lastLSN \in 0..Len(Wal) /\ confirmed \in 0..Len(Wal)
  /\ position \in 1..Len(Wal) + 1
  /\ relations \subseteq announced
  /\ written \in [CdcSinks -> SUBSET Changes]
  /\ refused \subseteq Changes /\ undecoded \subseteq Changes

CdcInit ==
  /\ consumer = "off" /\ processes = 0 /\ attempts = 0
  /\ lastLSN = 0 /\ confirmed = 0 /\ position = 1
  /\ relations = {} /\ announced = {}
  /\ written = [s \in CdcSinks |-> {}]
  /\ refused = {} /\ undecoded = {}

-----------------------------------------------------------------------------

\* Start of a new process: NewConsumer and Start.
StartConsumer ==
  /\ consumer \in {"off", "returned"} /\ processes < MaxProcesses
  /\ consumer' = "connecting"
  /\ processes' = processes + 1
  /\ attempts' = 0 /\ lastLSN' = 0
  /\ UNCHANGED <<confirmed, sessionVars, written, refused, undecoded>>

\* runReplication up to CopyBothResponse; the decoder is new.
StartReplication ==
  /\ consumer = "connecting"
  /\ consumer' = "streaming"
  /\ position' = Min({n \in Changes : CommitOf(n) > confirmed} \cup {Len(Wal) + 1})
  /\ relations' = {} /\ announced' = {}
  /\ UNCHANGED <<processes, attempts, lastLSN, confirmed, written, refused, undecoded>>

\* Mutant: the limit is tested before the failure is counted.
ReplicationFails_OffByOne ==
  /\ consumer \in {"connecting", "streaming"}
  /\ attempts' = attempts + 1
  /\ consumer' = IF attempts >= MaxReconnectAttempts THEN "returned" ELSE "connecting"
  /\ UNCHANGED <<processes, lastLSN, confirmed, sessionVars, written, refused, undecoded>>

\* runReplication returns an error: replicationLoop counts it and connects again
\* or gives up; the count is never reset.
ReplicationFails ==
  /\ consumer \in {"connecting", "streaming"}
  /\ attempts' = attempts + 1
  /\ consumer' = IF attempts' >= MaxReconnectAttempts THEN "returned" ELSE "connecting"
  /\ UNCHANGED <<processes, lastLSN, confirmed, sessionVars, written, refused, undecoded>>

\* CopyDone, Stop and the end of the process all end the consumer.
ConsumerEnds ==
  /\ consumer \in {"connecting", "streaming"}
  /\ consumer' = "returned"
  /\ UNCHANGED <<processes, attempts, lastLSN, confirmed, sessionVars, written, refused, undecoded>>

Sends(table) == consumer = "streaming" /\ position <= Len(Wal) /\ Wal[position] = table

\* The server announces a table before the session's first change to it; decodeWAL
\* keeps the relation.
ReceiveRelation(table) ==
  /\ Sends(table) /\ table \notin announced
  /\ announced' = announced \cup {table}
  /\ relations' = relations \cup {table}
  /\ UNCHANGED <<consumer, processes, attempts, lastLSN, confirmed, position, written, refused, undecoded>>

updateLSN(lsn) == lastLSN' = Max({lsn, lastLSN})

\* decodeInsert, decodeUpdate and decodeDelete look the change's relation up.
Decodes(table) == table \in relations

\* A change of a relation the decoder does not know is an error, which is logged.
\* Any other goes to every sink, of which those in failing refuse it; the LSN
\* advances when none does.
ReceiveChange_AdvancesToEnd(table) ==
  /\ Sends(table) /\ table \in announced
  /\ \E failing \in SUBSET CdcSinks :
       /\ IF Decodes(table)
          THEN /\ written' = [s \in CdcSinks |-> IF s \in failing THEN written[s] ELSE written[s] \cup {position}]
               /\ refused' = IF failing = {} THEN refused ELSE refused \cup {position}
               /\ IF failing = {} THEN updateLSN(Len(Wal)) ELSE UNCHANGED lastLSN
               /\ UNCHANGED undecoded
          ELSE /\ undecoded' = undecoded \cup {position}
               /\ UNCHANGED <<lastLSN, written, refused>>
  /\ position' = position + 1
  /\ UNCHANGED <<consumer, processes, attempts, confirmed, relations, announced>>
ReceiveChange(table) ==
  /\ Sends(table) /\ table \in announced
  /\ \E failing \in SUBSET CdcSinks :
       /\ IF Decodes(table)
          THEN /\ written' = [s \in CdcSinks |-> IF s \in failing THEN written[s] ELSE written[s] \cup {position}]
               /\ refused' = IF failing = {} THEN refused ELSE refused \cup {position}
               /\ IF failing = {} THEN updateLSN(position) ELSE UNCHANGED lastLSN
               /\ UNCHANGED undecoded
          ELSE /\ undecoded' = undecoded \cup {position}
               /\ UNCHANGED <<lastLSN, written, refused>>
  /\ position' = position + 1
  /\ UNCHANGED <<consumer, processes, attempts, confirmed, relations, announced>>

\* A COMMIT carries no change, so its LSN is not recorded.
ReceiveCommit ==
  /\ Sends("commit")
  /\ position' = position + 1
  /\ UNCHANGED <<consumer, processes, attempts, lastLSN, confirmed, relations, announced, written, refused, undecoded>>

\* sendStandbyStatusUpdate; the server's position never goes back.
StandbyStatusUpdate ==
  /\ consumer = "streaming" /\ lastLSN # 0
  /\ confirmed' = Max({confirmed, lastLSN})
  /\ UNCHANGED <<consumer, processes, attempts, lastLSN, sessionVars, written, refused, undecoded>>

CdcNext ==
  \/ StartConsumer \/ StartReplication \/ ReplicationFails \/ ConsumerEnds
  \/ \E t \in {Wal[n] : n \in Changes} :
       ReceiveRelation(t) \/ ReceiveChange(t)
  \/ ReceiveCommit
  \/ StandbyStatusUpdate

-----------------------------------------------------------------------------
(* Properties                                                              *)

\* What the server will not send again.
Released == {n \in Changes : CommitOf(n) <= confirmed}

\* A change leaves the slot only after every sink has taken it or some sink has
\* refused it to the consumer's face: lost connections, restarts of the process
\* and standby updates at any moment lose nothing by themselves.
ReleasedIsAccounted ==
  \A n \in Released : n \in refused \/ \A s \in CdcSinks : n \in written[s]

\* The same without the excuse: the position confirmed to the server does not
\* pass a change that a sink refused (the comment in runReplication: "do not
\* advance past the last successfully written LSN").
ReleasedIsWritten ==
  \A n \in Released, s \in CdcSinks : n \in written[s]

\* The decoder knows every relation a change refers to, in every session.
DecoderKnowsRelations ==
  undecoded = {}

=============================================================================
