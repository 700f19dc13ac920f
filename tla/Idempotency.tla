---------------------------- MODULE Idempotency ----------------------------
(***************************************************************************)
(* The idempotency middleware over PostgresIdempotencyStore                 *)
(* (internal/middleware/idempotency.go, idempotency_store.go), for the       *)
(* requests that carry one key in one scope.  Keys do not interact.          *)
(*                                                                          *)
(* A payload stands for method, path and payload hash; a response is named   *)
(* by the request whose handler produced it.  The row is in flight while its *)
(* status code is 0.                                                        *)
(***************************************************************************)
EXTENDS Integers, FiniteSets

CONSTANTS
  Requests,     \* requests with the key, retries included
  Payloads,     \* what a key is bound to
  MaxCrashes,   \* bound on requests that die inside the handler or after it
  MaxFaults,    \* bound on failing UpdateResponse and Delete calls
  MaxExpiries   \* bound on the times the row outlives its TTL

ASSUME IdempotencyConstants ==
  /\ MaxCrashes \in Nat /\ MaxFaults \in Nat /\ MaxExpiries \in Nat

VARIABLES
  row,        \* the row of the key, or NoRow
  pc,         \* where each request is
  payload,    \* what each request carries
  reply,      \* what each request was answered
  succeeded,  \* history: the handler took effect since the row last expired
  crashes, faults, expiries

idempotencyVars == <<row, pc, payload, reply, succeeded, crashes, faults, expiries>>

NoRow    == [state |-> "none"]
NoReply  == [kind |-> "none"]
Row      == [state : {"in flight"}, payload : Payloads, expired : BOOLEAN]
            \cup [state : {"done"}, payload : Payloads, response : Requests, expired : BOOLEAN]
Reply    == [kind : {"executed", "replay"}, response : Requests]
            \cup [kind : {"failed", "conflict", "mismatch", "error"}]

IdempotencyTypeOK ==
  /\ row \in Row \cup {NoRow}
  /\ pc \in [Requests -> {"new", "insert", "handler", "store", "delete", "end", "dead"}]
  /\ payload \in [Requests -> Payloads]
  /\ reply \in [Requests -> Reply \cup {NoReply}]
  /\ succeeded \in SUBSET Requests
  /\ crashes \in 0..MaxCrashes /\ faults \in 0..MaxFaults /\ expiries \in 0..MaxExpiries

IdempotencyInit ==
  /\ row = NoRow
  /\ pc = [r \in Requests |-> "new"]
  /\ payload \in [Requests -> Payloads]
  /\ reply = [r \in Requests |-> NoReply]
  /\ succeeded = {}
  /\ crashes = 0 /\ faults = 0 /\ expiries = 0

-----------------------------------------------------------------------------
(* GetOrInsert                                                             *)

Answer(r, a) == reply' = [reply EXCEPT ![r] = a]
Goto(r, l)   == pc' = [pc EXCEPT ![r] = l]

\* The lookup locks a row it finds; it locks nothing when there is none.
LookupFindsNone(r) ==
  /\ pc[r] = "new" /\ row = NoRow
  /\ Goto(r, "insert")
  /\ UNCHANGED <<row, payload, reply, succeeded, crashes, faults, expiries>>

\* The unique key makes the second of two inserts fail.
Insert_Upsert(r) ==
  /\ pc[r] = "insert"
  /\ row' = [state |-> "in flight", payload |-> payload[r], expired |-> FALSE]
  /\ Goto(r, "handler")
  /\ UNCHANGED <<payload, reply, succeeded, crashes, faults, expiries>>
Insert(r) ==
  /\ pc[r] = "insert"
  /\ IF row = NoRow
       THEN /\ row' = [state |-> "in flight", payload |-> payload[r], expired |-> FALSE]
            /\ Goto(r, "handler") /\ UNCHANGED reply
       ELSE Answer(r, [kind |-> "error"]) /\ Goto(r, "end") /\ UNCHANGED row
  /\ UNCHANGED <<payload, succeeded, crashes, faults, expiries>>

LookupFindsExpired(r) ==
  /\ pc[r] = "new" /\ row # NoRow /\ row.expired
  /\ row' = [state |-> "in flight", payload |-> payload[r], expired |-> FALSE]
  /\ Goto(r, "handler")
  /\ UNCHANGED <<payload, reply, succeeded, crashes, faults, expiries>>

\* In flight comes before the comparison with the stored request.
LookupFindsRow(r) ==
  /\ pc[r] = "new" /\ row # NoRow /\ ~row.expired
  /\ Answer(r, IF row.state = "in flight" THEN [kind |-> "conflict"]
               ELSE IF row.payload # payload[r] THEN [kind |-> "mismatch"]
               ELSE [kind |-> "replay", response |-> row.response])
  /\ Goto(r, "end")
  /\ UNCHANGED <<row, payload, succeeded, crashes, faults, expiries>>

-----------------------------------------------------------------------------
(* The handler and what the middleware does with its response              *)

HandlerSucceeds(r) ==
  /\ pc[r] = "handler"
  /\ succeeded' = succeeded \cup {r}
  /\ Goto(r, "store")
  /\ UNCHANGED <<row, payload, reply, crashes, faults, expiries>>

HandlerFails(r) ==
  /\ pc[r] = "handler"
  /\ Goto(r, "delete")
  /\ UNCHANGED <<row, payload, reply, succeeded, crashes, faults, expiries>>

\* The error of either call is dropped; the request context may be cancelled.
Fault == faults < MaxFaults /\ faults' = faults + 1 /\ UNCHANGED row

UpdateResponse_NoStatus(r) ==
  /\ pc[r] = "store"
  /\ \/ /\ row' = IF row = NoRow THEN NoRow
                  ELSE [state |-> row.state, payload |-> row.payload, response |-> r,
                        expired |-> row.expired]
        /\ UNCHANGED faults
     \/ Fault
  /\ Answer(r, [kind |-> "executed", response |-> r]) /\ Goto(r, "end")
  /\ UNCHANGED <<payload, succeeded, crashes, expiries>>
UpdateResponse(r) ==
  /\ pc[r] = "store"
  /\ \/ /\ row' = IF row = NoRow THEN NoRow
                  ELSE [state |-> "done", payload |-> row.payload, response |-> r,
                        expired |-> row.expired]
        /\ UNCHANGED faults
     \/ Fault
  /\ Answer(r, [kind |-> "executed", response |-> r]) /\ Goto(r, "end")
  /\ UNCHANGED <<payload, succeeded, crashes, expiries>>

Delete(r) ==
  /\ pc[r] = "delete"
  /\ (row' = NoRow /\ UNCHANGED faults) \/ Fault
  /\ Answer(r, [kind |-> "failed"]) /\ Goto(r, "end")
  /\ UNCHANGED <<payload, succeeded, crashes, expiries>>

-----------------------------------------------------------------------------
\* The process dies; the row stays in flight.
Crash(r) ==
  /\ pc[r] \in {"handler", "store", "delete"} /\ crashes < MaxCrashes
  /\ crashes' = crashes + 1
  /\ Goto(r, "dead")
  /\ UNCHANGED <<row, payload, reply, succeeded, faults, expiries>>

\* The TTL of a day passes.  A request does not run as long as that.
Expire ==
  /\ row # NoRow /\ ~row.expired /\ expiries < MaxExpiries
  /\ \A r \in Requests : pc[r] \notin {"insert", "handler", "store", "delete"}
  /\ expiries' = expiries + 1
  /\ row' = [row EXCEPT !.expired = TRUE]
  /\ succeeded' = {}
  /\ UNCHANGED <<pc, payload, reply, crashes, faults>>

\* The sweeper removes an expired row.
DeleteExpiredBatch ==
  /\ row # NoRow /\ row.expired
  /\ row' = NoRow
  /\ UNCHANGED <<pc, payload, reply, succeeded, crashes, faults, expiries>>

IdempotencyNext ==
  \/ \E r \in Requests :
       \/ LookupFindsNone(r) \/ Insert(r) \/ LookupFindsExpired(r) \/ LookupFindsRow(r)
       \/ HandlerSucceeds(r) \/ HandlerFails(r) \/ UpdateResponse(r) \/ Delete(r)
       \/ Crash(r)
  \/ Expire
  \/ DeleteExpiredBatch

IdempotencySpec == IdempotencyInit /\ [][IdempotencyNext]_idempotencyVars

-----------------------------------------------------------------------------
(* Properties                                                              *)

\* Within the TTL of a key its handler takes effect at most once, although
\* lookups race before the row exists, the process may die anywhere and the
\* response may not be stored.
EffectAtMostOnce == Cardinality(succeeded) <= 1

\* A replayed response was produced by a handler that ran for the same method,
\* path and payload.
ReplayIsForSameRequest ==
  \A r \in Requests :
    reply[r].kind = "replay" => payload[reply[r].response] = payload[r]

\* A stored response is what every later retry gets until the TTL passes: it is
\* neither replaced nor removed before.
StoredResponseIsStable ==
  [][row.state = "done" /\ ~row.expired =>
       row'.state = "done" /\ row'.response = row.response]_idempotencyVars

=============================================================================
