---------------------------- MODULE WebhookInbox ----------------------------
(***************************************************************************)
(* The webhook inbox worker (internal/worker/webhook_inbox.go).            *)
(*                                                                         *)
(* Rows of the table webhook_inbox are claimed in batches by any number of *)
(* workers, turned into outbox events, and marked processed, pending again *)
(* or failed.  A row's number is its place in the order of created_at.     *)
(*                                                                         *)
(* The claim is one SQL statement and therefore one step; routing a        *)
(* payload (which stores the outbox event) and saving the row's status are *)
(* two statements on the pool and therefore two steps.                     *)
(***************************************************************************)
EXTENDS Naturals, Sequences, FiniteSets

CONSTANTS
    InboxWorkers,      \* processes that run WebhookWorker.Start
    MaxRow,       \* number of rows that may arrive
    Source,       \* Source[r]: the source_id of row r
    Key,          \* Key[r]: the deduplication id routePayload gives its event
    Poison,       \* rows whose payload routePayload rejects
    BatchLimit,   \* LIMIT of the claim query (50 in the code)
    MaxInboxAttempts,  \* attempts after which a row is failed (5 in the code)
    MaxInboxFaults,    \* bound on crashes, failed statements and lost replies
    NoRow         \* a worker between two rows

Rows == 1..MaxRow

ASSUME InboxConstants ==
    /\ MaxRow \in Nat /\ BatchLimit \in Nat \ {0} /\ MaxInboxAttempts \in Nat \ {0}
    /\ MaxInboxFaults \in Nat
    /\ Poison \subseteq Rows
    /\ DOMAIN Source = Rows /\ DOMAIN Key = Rows
    /\ NoRow \notin [row : Rows, ok : BOOLEAN]

VARIABLES
    inboxStatus,    \* webhook_inbox.status, "absent" before the row arrives
    attempts,  \* webhook_inbox.attempts
    inboxBatch,     \* rows of the claim's result a worker has not scanned yet
    hand,      \* the row a worker has routed, and whether routePayload succeeded
    stored,    \* rows whose events the outbox holds, in the order stored
    inboxFaults     \* faults so far

inboxVars == <<inboxStatus, attempts, inboxBatch, hand, stored, inboxFaults>>

Settled == {"processed", "failed"}

InboxTypeOK ==
    /\ inboxStatus \in [Rows -> {"absent", "pending", "processing"} \union Settled]
    /\ attempts \in [Rows -> 0..MaxInboxAttempts]
    /\ inboxBatch \in [InboxWorkers -> SUBSET Rows]
    /\ hand \in [InboxWorkers -> [row : Rows, ok : BOOLEAN] \union {NoRow}]
    /\ stored \in Seq(Rows)
    /\ inboxFaults \in 0..MaxInboxFaults

InboxInit ==
    /\ inboxStatus = [r \in Rows |-> "absent"]
    /\ attempts = [r \in Rows |-> 0]
    /\ inboxBatch = [w \in InboxWorkers |-> {}]
    /\ hand = [w \in InboxWorkers |-> NoRow]
    /\ stored = <<>>
    /\ inboxFaults = 0

InboxFault ==
    /\ inboxFaults < MaxInboxFaults
    /\ inboxFaults' = inboxFaults + 1

(* External: a receiver inserts a row.  Rows of one source become visible  *)
(* in the order of their created_at.                                       *)
Receive(r) ==
    /\ inboxStatus[r] = "absent"
    /\ \A q \in Rows : q < r /\ Source[q] = Source[r] => inboxStatus[q] # "absent"
    /\ inboxStatus' = [inboxStatus EXCEPT ![r] = "pending"]
    /\ UNCHANGED <<attempts, inboxBatch, hand, stored, inboxFaults>>

Available_NoProcessing(r) ==
    /\ inboxStatus[r] = "pending"
    /\ ~ \E q \in Rows : /\ Source[q] = Source[r]
                         /\ inboxStatus[q] = "pending"
                         /\ q < r

Available_FailedBlocks(r) ==
    /\ inboxStatus[r] = "pending"
    /\ ~ \E q \in Rows : /\ Source[q] = Source[r]
                         /\ inboxStatus[q] # "processed"
                         /\ q < r

(* WHERE of the claim query: pending, and no older row of the same source  *)
(* is pending or processing.                                               *)
Available(r) ==
    /\ inboxStatus[r] = "pending"
    /\ ~ \E q \in Rows : /\ Source[q] = Source[r]
                         /\ inboxStatus[q] \in {"pending", "processing"}
                         /\ q < r

(* ORDER BY created_at LIMIT n: the n oldest rows of the available ones.   *)
NextAvailable ==
    LET available == {r \in Rows : Available(r)}
    IN  {r \in available :
            Cardinality({q \in available : q < r}) < BatchLimit}

(* processBatch up to the loop: claim, count the attempt, return the rows. *)
Claim(w) ==
    /\ inboxBatch[w] = {} /\ hand[w] = NoRow
    /\ NextAvailable # {}
    /\ inboxStatus' = [r \in Rows |->
                    IF r \in NextAvailable THEN "processing" ELSE inboxStatus[r]]
    /\ attempts' = [r \in Rows |->
                    IF r \in NextAvailable THEN attempts[r] + 1 ELSE attempts[r]]
    /\ inboxBatch' = [inboxBatch EXCEPT ![w] = NextAvailable]
    /\ UNCHANGED <<hand, stored, inboxFaults>>

(* The unique index on outbox_events.deduplication_id.                     *)
Conflicts(r) == \E i \in DOMAIN stored : Key[stored[i]] = Key[r]

(* routePayload: a rejected payload and a duplicate event are errors, any  *)
(* other row's event is stored.                                            *)
RoutePayload(w, r) ==
    /\ hand[w] = NoRow /\ r \in inboxBatch[w]
    /\ inboxBatch' = [inboxBatch EXCEPT ![w] = @ \ {r}]
    /\ LET ok == r \notin Poison /\ ~ Conflicts(r)
       IN  /\ stored' = IF ok THEN Append(stored, r) ELSE stored
           /\ hand' = [hand EXCEPT ![w] = [row |-> r, ok |-> ok]]
    /\ UNCHANGED <<inboxStatus, attempts, inboxFaults>>

(* OutboxRepo.Store returns an error; the insert may have committed all    *)
(* the same when only the reply was lost.                                  *)
StoreFails(w, r) ==
    /\ hand[w] = NoRow /\ r \in inboxBatch[w] /\ r \notin Poison
    /\ inboxBatch' = [inboxBatch EXCEPT ![w] = @ \ {r}]
    /\ \/ stored' = stored
       \/ ~ Conflicts(r) /\ stored' = Append(stored, r)
    /\ hand' = [hand EXCEPT ![w] = [row |-> r, ok |-> FALSE]]
    /\ InboxFault
    /\ UNCHANGED <<inboxStatus, attempts>>

(* rows.Scan fails: the row is passed over and stays processing.           *)
ScanFails(w, r) ==
    /\ hand[w] = NoRow /\ r \in inboxBatch[w]
    /\ inboxBatch' = [inboxBatch EXCEPT ![w] = @ \ {r}]
    /\ InboxFault
    /\ UNCHANGED <<inboxStatus, attempts, hand, stored>>

(* The status the two UPDATE statements after routePayload write.          *)
StatusAfter(r, ok) ==
    IF ok THEN "processed"
    ELSE IF attempts[r] >= MaxInboxAttempts THEN "failed"
    ELSE "pending"

(* Exec of the status update.  Its error is ignored.                       *)
SaveStatus(w) ==
    /\ hand[w] # NoRow
    /\ hand' = [hand EXCEPT ![w] = NoRow]
    /\ \/ /\ inboxStatus' = [inboxStatus EXCEPT ![hand[w].row] =
                            StatusAfter(hand[w].row, hand[w].ok)]
          /\ UNCHANGED inboxFaults
       \/ InboxFault /\ UNCHANGED inboxStatus
    /\ UNCHANGED <<attempts, inboxBatch, stored>>

(* The process stops inside a batch and is started again.                  *)
InboxCrash(w) ==
    /\ inboxBatch[w] # {} \/ hand[w] # NoRow
    /\ inboxBatch' = [inboxBatch EXCEPT ![w] = {}]
    /\ hand' = [hand EXCEPT ![w] = NoRow]
    /\ InboxFault
    /\ UNCHANGED <<inboxStatus, attempts, stored>>

Work(w) ==
    \/ Claim(w)
    \/ \E r \in Rows : RoutePayload(w, r)
    \/ SaveStatus(w)

InboxNext ==
    \/ \E r \in Rows : Receive(r)
    \/ \E w \in InboxWorkers : Work(w)
    \/ \E w \in InboxWorkers, r \in Rows : StoreFails(w, r) \/ ScanFails(w, r)
    \/ \E w \in InboxWorkers : InboxCrash(w)

InboxSpec == InboxInit /\ [][InboxNext]_inboxVars

-----------------------------------------------------------------------------
(* The outbox receives the events of one source in the order in which the  *)
(* source's rows were created, and no row's event twice, whatever workers, *)
(* retries, lost replies and crashes do: this is what the NOT EXISTS of    *)
(* the claim query is for.                                                 *)
StoredInSourceOrder ==
    \A i, j \in DOMAIN stored :
        i < j /\ Source[stored[i]] = Source[stored[j]] => stored[i] < stored[j]

(* A row is marked processed only if the outbox holds its event, although  *)
(* storing and marking are separate statements.                            *)
ProcessedIsStored ==
    \A r \in Rows :
        inboxStatus[r] = "processed" => \E i \in DOMAIN stored : stored[i] = r

(* As long as no statement is lost and no process stops, every row that    *)
(* arrived is processed or failed in the end: a poison row uses up its     *)
(* attempts and then lets the rest of its source through.                  *)
PendingIsSettled ==
    \A r \in Rows :
        (inboxStatus[r] = "pending") ~> (inboxStatus[r] \in Settled \/ inboxFaults > 0)
=============================================================================
