--------------------------- MODULE Reconciliation ---------------------------
(***************************************************************************)
(* Reconciliation of backend subscriptions with contract snapshots         *)
(* (internal/reconciliation, internal/handlers/reconciliation.go).  One    *)
(* subscription; its fields are equal to the backend's (0) or not (1).     *)
(***************************************************************************)
EXTENDS Integers, Sequences, SequencesExt

CONSTANTS
  Assets,        \* keys of the balances maps
  ReconAttempts  \* RetryOptions.MaxAttempts

Scalars == {"status", "amount", "currency", "interval"}
Balances == UNION {[keys -> 0 .. 1] : keys \in SUBSET Assets}

(* The ledger has no snapshot of the subscription. *)
Missing == [missing |-> TRUE]
Snapshots == [differs : SUBSET Scalars, stale : BOOLEAN, balances : Balances]

VARIABLES
  caller,    \* "service" (Reconcile), or who calls NewReconcileHandler: "admin", "merchant"
  hasStore,  \* a Store is configured
  foreign,   \* the submitted subscription names another tenant than the merchant's
  ours,      \* the snapshot is of the caller's tenant
  backend,   \* balances of the submitted subscription
  ledger,    \* the contract's snapshot at this moment
  reconAttempt,   \* attempts made
  stored,    \* reports the store holds, in order
  outcome,   \* "waiting", "error", "answered", or "warned": answered with the header
             \* X-Reconcile-Save-Error
  reconReport   \* the answer: {} or a set of one [snap, mismatches]

requestVars == <<caller, hasStore, foreign, ours, backend>>
reconVars   == <<requestVars, ledger, reconAttempt, stored, outcome, reconReport>>

ReconTypeOK ==
  /\ caller \in {"service", "admin", "merchant"} /\ hasStore \in BOOLEAN
  /\ foreign \in BOOLEAN /\ ours \in BOOLEAN /\ backend \in Balances
  /\ ledger \in Snapshots \union {Missing}
  /\ reconAttempt \in 0 .. ReconAttempts /\ Len(stored) <= ReconAttempts
  /\ outcome \in {"waiting", "error", "answered", "warned"}
  /\ outcome \in {"answered", "warned"} <=> reconReport # {}

ReconInit ==
  /\ caller \in {"service", "admin", "merchant"} /\ hasStore \in BOOLEAN
  /\ foreign \in BOOLEAN /\ ours \in BOOLEAN
  /\ caller # "merchant" => ~foreign /\ ours
  /\ backend \in Balances /\ ledger \in Snapshots \union {Missing}
  /\ reconAttempt = 0 /\ stored = <<>> /\ outcome = "waiting" /\ reconReport = {}

-----------------------------------------------------------------------------
AmountFields == {"amount", "currency"}

(* Compare: the set of fields reported as mismatches. *)
Compare(b, snap) ==
  IF snap = Missing THEN {"contract_snapshot"}
  ELSE {f \in {"snapshot_stale"} : snap.stale}
    \union (snap.differs \ AmountFields)
    \union {f \in {"amount"} : snap.differs \intersect AmountFields # {}}
    \union {k \in DOMAIN b : k \notin DOMAIN snap.balances \/ b[k] # snap.balances[k]}
    \union (DOMAIN snap.balances \ DOMAIN b)

(* The contract moves on between attempts. *)
LedgerMoves ==
  /\ outcome = "waiting" /\ ledger # Missing
  /\ ledger' = [ledger EXCEPT !.differs = IF "status" \in @ THEN @ \ {"status"}
                                          ELSE @ \union {"status"}]
  /\ UNCHANGED <<requestVars, reconAttempt, stored, outcome, reconReport>>

(* The handler's checks before the fetch: credentials, tenant, permission, *)
(* the body, and that a merchant submits subscriptions of its own tenant.  *)
RequestDenied ==
  /\ caller # "service" /\ outcome = "waiting"
  /\ outcome' = "error"
  /\ UNCHANGED <<requestVars, ledger, reconAttempt, stored, reconReport>>

Fetches == outcome = "waiting" /\ ~foreign

(* A failed attempt: the service makes the next one after a delay, unless *)
(* it was the last; the handler makes one only.                           *)
AttemptFails ==
  /\ reconAttempt' = reconAttempt + 1
  /\ outcome' = IF reconAttempt + 1 = ReconAttempts \/ caller # "service" THEN "error" ELSE "waiting"
  /\ UNCHANGED reconReport

FetchFails ==
  /\ Fetches
  /\ AttemptFails
  /\ UNCHANGED <<requestVars, ledger, stored>>

(* The snapshots of other tenants are left out for a merchant. *)
Snap == IF ours THEN ledger ELSE Missing

Reports(how) ==
  /\ outcome' = how /\ reconAttempt' = reconAttempt + 1
  /\ reconReport' = {[snap |-> Snap, mismatches |-> Compare(backend, Snap)]}

(* The reports are saved if a store is configured. *)
FetchAndSave ==
  /\ Fetches
  /\ stored' = IF hasStore THEN Append(stored, Compare(backend, Snap)) ELSE stored
  /\ Reports("answered")
  /\ UNCHANGED <<requestVars, ledger>>

SaveFails_Answers ==
  /\ Fetches /\ hasStore
  /\ stored' \in {stored, Append(stored, Compare(backend, Snap))}
  /\ Reports(IF caller = "service" THEN "answered" ELSE "warned")
  /\ UNCHANGED <<requestVars, ledger>>

(* SaveReports fails; a store that lost only its answer has kept them.  The *)
(* service tries again from the fetch, the handler answers with a warning. *)
SaveFails ==
  /\ Fetches /\ hasStore
  /\ stored' \in {stored, Append(stored, Compare(backend, Snap))}
  /\ IF caller = "service" THEN AttemptFails ELSE Reports("warned")
  /\ UNCHANGED <<requestVars, ledger>>

(* The context ends during the delay before another attempt. *)
DelayCancelled ==
  /\ outcome = "waiting" /\ reconAttempt > 0
  /\ outcome' = "error"
  /\ UNCHANGED <<requestVars, ledger, reconAttempt, stored, reconReport>>

ReconNext ==
  LedgerMoves \/ RequestDenied \/ FetchFails \/ FetchAndSave \/ SaveFails \/ DelayCancelled

ReconSpec == ReconInit /\ [][ReconNext]_reconVars

-----------------------------------------------------------------------------
(* A report without mismatches was made from a fresh snapshot equal to the *)
(* backend in every field and in its whole balances map, and a snapshot    *)
(* that is fresh and equal gives no mismatch (Compare).                    *)
MatchedMeansEqual ==
  \A a \in reconReport :
    (a.mismatches = {}
       <=> /\ a.snap # Missing
           /\ a.snap = [differs |-> {}, stale |-> FALSE, balances |-> backend])

(* With a store, what is answered without a warning is the last thing that *)
(* was saved: Reconcile never answers an attempt whose save failed, and    *)
(* since the next one fetches again while the contract moves, it saves and *)
(* answers what that one found; NewReconcileHandler answers a failed save  *)
(* with the header X-Reconcile-Save-Error only.                            *)
AnsweredIsSaved ==
  hasStore /\ outcome = "answered" =>
    \A a \in reconReport : stored # <<>> /\ a.mismatches = Last(stored)
=============================================================================
