---------------------------- MODULE Subscriptions ---------------------------
(***************************************************************************)
(* Subscriptions: the status change and the versioned writes of one row     *)
(* (service/subscription_service.go, subscriptions/state_machine.go,        *)
(* repository/postgres_subscription_repo.go), the cancel-with-refund flow   *)
(* of saga/flows.go on top of it, the batching loader                       *)
(* (repository/loader.go) and the live status stream                        *)
(* (handlers/subscriptions.go).  subKind selects the part a behaviour is    *)
(* about.                                                                   *)
(***************************************************************************)
EXTENDS Integers, Sequences, FiniteSets

CONSTANTS
  Editors,      \* requests that write the row
  MaxVersion,   \* bound on the row's version
  Loads,        \* calls of Loader.load
  LoadId,       \* [Loads -> ids]: what each asks for
  MaxBatch,     \* Loader.maxBatch
  Streams,      \* websocket clients of the subscription
  SendCap,      \* capacity of WsClient.Send
  BroadcastCap  \* capacity of WsHub.broadcast

Statuses == {"pending", "active", "paused", "cancelled", "expired"}

allowedTransitions ==
  [pending   |-> {"active", "cancelled"},
   active    |-> {"paused", "cancelled", "expired"},
   paused    |-> {"active", "cancelled"},
   cancelled |-> {},
   expired   |-> {}]

VARIABLES
  subKind,
  subRow,       \* the row: status, version, deleted (deleted_at is set), exists
  edit,      \* [Editors -> the request: op, what it read and its target]
  editReply,     \* [Editors -> its answer]
  lost,      \* a versioned write replaced a status its writer had not read
  flow,      \* CancelSubscriptionFlow: at, previous_status, refund; before: the status
             \* at its start; again: it was resumed; loose: a write of the cancel step
             \* or of its record ended in an error that does not say if it was made
  load,      \* [Loads -> new, waiting, row, notfound, error, gone]
  pending,   \* loads of the batch that is being collected
  timers,    \* armed timers
  current,   \* the handle tpl.timer is one of them
  batches,   \* batches taken by dispatch and not yet answered
  clients,   \* WsHub.clients
  buffered,  \* [Streams -> events in Send]
  sendClosed, \* streams whose Send is closed
  conn,      \* [Streams -> new, open, closed]
  pumps,     \* [Streams -> running pumps]
  unregister, \* streams whose readPump waits on hub.unregister
  broadcast, \* events in hub.broadcast
  hubPanicked   \* a channel was closed twice or used after its close

rowVars    == <<subRow, edit, editReply, lost>>
loaderVars == <<load, pending, timers, current, batches>>
hubVars    == <<clients, buffered, sendClosed, conn, pumps, unregister, broadcast, hubPanicked>>
subVars    == <<subKind, rowVars, flow, loaderVars, hubVars>>

Idle == [op |-> "none", status |-> "active", version |-> 0, target |-> "active"]

SubTypeOK ==
  /\ subKind \in {"status", "refund", "loader", "hub"}
  /\ subRow \in [status : Statuses, version : 0..MaxVersion, deleted : BOOLEAN, exists : BOOLEAN]
  /\ edit \in [Editors -> [op : {"none", "change", "edit"}, status : Statuses,
                           version : 0..MaxVersion, target : Statuses]]
  /\ editReply \in [Editors -> {"none", "ok", "unchanged", "notfound", "gone", "conflict", "error"}]
  /\ lost \in BOOLEAN
  /\ flow \in [at : {"cancel", "cancelling", "refund", "undo", "undoing", "done", "compensated", "failed"},
               prev : Statuses \cup {"unset"}, before : Statuses, refund : {"none", "issued"},
               again : BOOLEAN, loose : BOOLEAN]
  /\ load \in [Loads -> {"new", "waiting", "row", "notfound", "error", "gone"}]
  /\ pending \subseteq Loads /\ timers \in 0..Cardinality(Loads) /\ current \in BOOLEAN
  /\ batches \subseteq SUBSET Loads
  /\ clients \subseteq Streams /\ sendClosed \subseteq Streams /\ unregister \subseteq Streams
  /\ buffered \in [Streams -> 0..SendCap] /\ conn \in [Streams -> {"new", "open", "closed"}]
  /\ pumps \in [Streams -> SUBSET {"read", "write"}]
  /\ broadcast \in 0..BroadcastCap /\ hubPanicked \in BOOLEAN

SubInit ==
  /\ subKind \in {"status", "refund", "loader", "hub"}
  /\ subRow \in [status : Statuses, version : {0}, deleted : BOOLEAN, exists : {TRUE}]
  /\ subKind \in {"loader", "hub"} => subRow.status = "active" /\ ~subRow.deleted
  /\ edit = [e \in Editors |-> Idle] /\ editReply = [e \in Editors |-> "none"] /\ lost = FALSE
  /\ flow = [at |-> "cancel", prev |-> "unset", before |-> subRow.status,
             refund |-> "none", again |-> FALSE, loose |-> FALSE]
  /\ load = [l \in Loads |-> "new"] /\ pending = {} /\ timers = 0 /\ current = FALSE /\ batches = {}
  /\ clients = {} /\ buffered = [s \in Streams |-> 0] /\ sendClosed = {}
  /\ conn = [s \in Streams |-> "new"] /\ pumps = [s \in Streams |-> {}] /\ unregister = {}
  /\ broadcast = 0 /\ hubPanicked = FALSE

-----------------------------------------------------------------------------
(* ChangeStatus and the versioned writes                                   *)

CanTransition(from, to) == from = to \/ to \in allowedTransitions[from]

AnswerCall(e, r) == editReply' = [editReply EXCEPT ![e] = r] /\ edit' = [edit EXCEPT ![e] = Idle]

\* ChangeStatus up to the write: FindByIDAndTenant and the checks.
ChangeReads(e, target) ==
  /\ edit[e].op = "none"
  /\ \/ ~subRow.exists /\ AnswerCall(e, "notfound")
     \/ subRow.exists /\ subRow.deleted /\ AnswerCall(e, "gone")
     \/ subRow.exists /\ ~subRow.deleted /\ subRow.status = target /\ AnswerCall(e, "unchanged")
     \/ subRow.exists /\ ~subRow.deleted /\ ~CanTransition(subRow.status, target) /\ AnswerCall(e, "conflict")
     \/ /\ subRow.exists /\ ~subRow.deleted /\ subRow.status # target /\ CanTransition(subRow.status, target)
        /\ edit' = [edit EXCEPT ![e] = [op |-> "change", status |-> subRow.status,
                                        version |-> subRow.version, target |-> target]]
        /\ UNCHANGED editReply
  /\ UNCHANGED <<subRow, lost>>

\* UpdateSubscriptionStatus: no version in the WHERE clause, but it counts one up.
\* It returns an error when nothing was written, or when the answer to the commit
\* was lost.
UpdateStatus(e) ==
  /\ edit[e].op = "change" /\ subRow.version < MaxVersion
  /\ \/ /\ subRow.exists
        /\ subRow' = [subRow EXCEPT !.status = edit[e].target, !.version = @ + 1]
        /\ \E answer \in {"ok", "error"} : AnswerCall(e, answer)
     \/ /\ AnswerCall(e, IF subRow.exists THEN "error" ELSE "notfound")
        /\ UNCHANGED subRow
  /\ UNCHANGED lost

\* A caller of Update or Delete reads the row it will write back.
EditReads(e) ==
  /\ edit[e].op = "none" /\ subRow.exists
  /\ edit' = [edit EXCEPT ![e] = [op |-> "edit", status |-> subRow.status,
                                  version |-> subRow.version, target |-> subRow.status]]
  /\ UNCHANGED <<subRow, editReply, lost>>

\* Update: the whole row, status included, where the version is the one read.
Update(e) ==
  /\ edit[e].op = "edit" /\ subRow.version < MaxVersion
  /\ LET hit == subRow.exists /\ subRow.version = edit[e].version IN
     /\ subRow' = IF hit THEN [subRow EXCEPT !.status = edit[e].status, !.version = @ + 1] ELSE subRow
     /\ lost' = (lost \/ (hit /\ subRow.status # edit[e].status))
     /\ AnswerCall(e, IF hit THEN "ok" ELSE "conflict")
DeleteRow(e) ==
  /\ edit[e].op = "edit"
  /\ LET hit == subRow.exists /\ subRow.version = edit[e].version IN
     /\ subRow' = [subRow EXCEPT !.exists = @ /\ ~hit]
     /\ AnswerCall(e, IF hit THEN "ok" ELSE "conflict")
  /\ UNCHANGED lost

StatusNext ==
  /\ subKind = "status"
  /\ \E e \in Editors : \/ \E t \in Statuses : ChangeReads(e, t)
                        \/ UpdateStatus(e) \/ EditReads(e) \/ Update(e) \/ DeleteRow(e)
  /\ UNCHANGED <<subKind, flow, loaderVars, hubVars>>

-----------------------------------------------------------------------------
(* CancelSubscriptionFlow, run by the coordinator                          *)

Saga == CHOOSE e \in Editors : TRUE

FlowCalls(at, target, next) ==
  /\ flow.at = at
  /\ ChangeReads(Saga, target)
  /\ flow' = [flow EXCEPT !.at = next]

\* Step cancel_subscription returns.  Without an error previous_status is set and
\* the step recorded; when it or its record fails, failAndCompensate finds no
\* earlier step to compensate and saves SagaCompensated.
FlowCancelled ==
  /\ flow.at = "cancelling" /\ edit[Saga].op = "none"
  /\ \/ /\ editReply[Saga] \in {"ok", "unchanged"}
        /\ \E recorded \in BOOLEAN :
             flow' = [flow EXCEPT !.at = IF recorded THEN "refund" ELSE "compensated",
                                  !.prev = IF editReply[Saga] = "ok" THEN flow.before ELSE "cancelled",
                                  !.loose = @ \/ ~recorded]
     \/ /\ editReply[Saga] \notin {"ok", "unchanged"}
        /\ flow' = [flow EXCEPT !.at = "compensated", !.loose = @ \/ editReply[Saga] = "error"]
  /\ UNCHANGED rowVars

\* The process dies inside a step and Resume runs that step again, with the
\* context that begin saved: previous_status is not in it.
FlowResumes ==
  /\ flow.at \in {"cancelling", "refund"} /\ ~flow.again
  /\ \E made \in IF flow.at = "refund" THEN {"none", "issued"} ELSE {flow.refund} :
       flow' = [flow EXCEPT !.at = IF @ = "refund" THEN @ ELSE "cancel",
                            !.prev = "unset", !.refund = made, !.again = TRUE]
  /\ edit' = [edit EXCEPT ![Saga] = Idle]
  /\ UNCHANGED <<subRow, editReply, lost>>

\* Step create_refund_statement, whose id is the saga's: a statement that is there
\* is refused.  It may fail after the row was written, and so may its record.
FlowRefunds ==
  /\ flow.at = "refund"
  /\ \/ flow.refund = "none" /\ flow' = [flow EXCEPT !.at = "done", !.refund = "issued"]
     \/ \E made \in {flow.refund, "issued"} : flow' = [flow EXCEPT !.at = "undo", !.refund = made]
  /\ UNCHANGED rowVars

\* Compensation of cancel_subscription: ChangeStatus to the previous status.
FlowUndoes ==
  \/ flow.prev # "unset" /\ FlowCalls("undo", flow.prev, "undoing")
  \/ /\ flow.at = "undo" /\ flow.prev = "unset"
     /\ flow' = [flow EXCEPT !.at = "failed"]
     /\ UNCHANGED rowVars
FlowUndone_IgnoresError ==
  /\ flow.at = "undoing" /\ edit[Saga].op = "none"
  /\ flow' = [flow EXCEPT !.at = "compensated"]
  /\ UNCHANGED rowVars
FlowUndone ==
  /\ flow.at = "undoing" /\ edit[Saga].op = "none"
  /\ flow' = [flow EXCEPT !.at = IF editReply[Saga] \in {"ok", "unchanged"} THEN "compensated" ELSE "failed"]
  /\ UNCHANGED rowVars

RefundNext ==
  /\ subKind = "refund"
  /\ \/ FlowCalls("cancel", "cancelled", "cancelling") \/ FlowUndoes
     \/ FlowCancelled \/ FlowResumes \/ FlowRefunds \/ FlowUndone
     \/ UpdateStatus(Saga) /\ UNCHANGED flow
  /\ UNCHANGED <<subKind, loaderVars, hubVars>>

-----------------------------------------------------------------------------
(* Loader, the loads of one tenant                                         *)

Ids(ls) == {LoadId[l] : l \in ls}

\* dispatch: the current timer is stopped and the batch taken.
Take(batch) ==
  /\ timers' = timers - (IF current THEN 1 ELSE 0)
  /\ current' = FALSE
  /\ pending' = {}
  /\ batches' = batches \cup {batch}

\* load: the timer is armed for the first id of a batch (and again for another
\* load of that id); a full batch is dispatched by the caller.
LoadCalled(l) ==
  LET batch == pending \cup {l} IN
  /\ load[l] = "new"
  /\ load' = [load EXCEPT ![l] = "waiting"]
  /\ IF Cardinality(Ids(batch)) >= MaxBatch
     THEN Take(batch)
     ELSE /\ pending' = batch
          /\ LET arms == Cardinality(Ids(batch)) = 1 IN
             timers' = timers + (IF arms THEN 1 ELSE 0) /\ current' = (current \/ arms)
          /\ UNCHANGED batches

\* A timer fires: the current one, or one whose handle was overwritten.
TimerDispatches ==
  /\ timers > 0
  /\ \/ /\ current /\ pending # {}
        /\ Take(pending)
     \/ /\ timers > (IF current THEN 1 ELSE 0)
        /\ IF pending = {}
           THEN timers' = timers - 1 /\ UNCHANGED <<pending, current, batches>>
           ELSE /\ timers' = timers - 1 - (IF current THEN 1 ELSE 0)
                /\ current' = FALSE /\ pending' = {} /\ batches' = batches \cup {pending}
  /\ UNCHANGED load

\* The batched query returns, and every caller still waiting has its answer.
BatchAnswers(b) ==
  /\ b \in batches
  /\ batches' = batches \ {b}
  /\ \E failed \in BOOLEAN, found \in SUBSET Ids(b) :
       load' = [l \in Loads |-> IF l \notin b \/ load[l] # "waiting" THEN load[l]
                                ELSE IF failed THEN "error"
                                ELSE IF LoadId[l] \in found THEN "row" ELSE "notfound"]
  /\ UNCHANGED <<pending, timers, current>>

CallerLeaves(l) ==
  /\ load[l] = "waiting"
  /\ load' = [load EXCEPT ![l] = "gone"]
  /\ UNCHANGED <<pending, timers, current, batches>>

LoaderNext ==
  /\ subKind = "loader"
  /\ \/ \E l \in Loads : LoadCalled(l) \/ CallerLeaves(l)
     \/ TimerDispatches \/ \E b \in batches : BatchAnswers(b)
  /\ UNCHANGED <<subKind, rowVars, flow, hubVars>>

-----------------------------------------------------------------------------
(* WsHub and its clients                                                   *)

Close(s) == sendClosed' = sendClosed \cup {s} /\ hubPanicked' = (hubPanicked \/ s \in sendClosed)

\* GetSubscriptionEvents: upgrade, register (run takes it), two pumps.
StreamOpens(s) ==
  /\ conn[s] = "new"
  /\ conn' = [conn EXCEPT ![s] = "open"]
  /\ clients' = clients \cup {s}
  /\ pumps' = [pumps EXCEPT ![s] = {"read", "write"}]
  /\ UNCHANGED <<buffered, sendClosed, unregister, broadcast, hubPanicked>>

\* WebSocketOutboxPublisher.Publish; with a full channel the event is dropped.
Broadcast ==
  /\ broadcast < BroadcastCap
  /\ broadcast' = broadcast + 1
  /\ UNCHANGED <<clients, buffered, sendClosed, conn, pumps, unregister, hubPanicked>>

\* run, case broadcast: the event goes to every client with room, the others go.
HubSends ==
  /\ broadcast > 0
  /\ broadcast' = broadcast - 1
  /\ LET full == {s \in clients : buffered[s] = SendCap} IN
     /\ clients' = clients \ full
     /\ sendClosed' = sendClosed \cup full
     /\ hubPanicked' = (hubPanicked \/ clients \cap sendClosed # {})
     /\ buffered' = [s \in Streams |-> IF s \in clients \ full THEN buffered[s] + 1 ELSE buffered[s]]
  /\ UNCHANGED <<conn, pumps, unregister>>

\* run, case unregister.
HubUnregisters_Always(s) ==
  /\ s \in unregister
  /\ unregister' = unregister \ {s}
  /\ clients' = clients \ {s}
  /\ Close(s)
  /\ UNCHANGED <<buffered, conn, pumps, broadcast>>
HubUnregisters(s) ==
  /\ s \in unregister
  /\ unregister' = unregister \ {s}
  /\ clients' = clients \ {s}
  /\ IF s \in clients THEN Close(s) ELSE UNCHANGED <<sendClosed, hubPanicked>>
  /\ UNCHANGED <<buffered, conn, pumps, broadcast>>

\* writePump: an event, or the close of Send, or a failed write or ping.
WriteEvent(s) ==
  /\ "write" \in pumps[s] /\ buffered[s] > 0 /\ conn[s] = "open"
  /\ buffered' = [buffered EXCEPT ![s] = @ - 1]
  /\ UNCHANGED <<clients, sendClosed, conn, pumps, unregister, broadcast, hubPanicked>>
WriteEnds(s) ==
  /\ "write" \in pumps[s] /\ (conn[s] = "closed" \/ (s \in sendClosed /\ buffered[s] = 0))
  /\ pumps' = [pumps EXCEPT ![s] = @ \ {"write"}]
  /\ conn' = [conn EXCEPT ![s] = "closed"]
  /\ UNCHANGED <<clients, buffered, sendClosed, unregister, broadcast, hubPanicked>>

\* The peer goes, or stops answering pings.
PeerLeaves(s) ==
  /\ conn[s] = "open"
  /\ conn' = [conn EXCEPT ![s] = "closed"]
  /\ UNCHANGED <<clients, buffered, sendClosed, pumps, unregister, broadcast, hubPanicked>>

\* readPump: the read fails; the deferred unregister blocks until run takes it.
ReadEnds(s) ==
  /\ "read" \in pumps[s] /\ conn[s] = "closed"
  /\ pumps' = [pumps EXCEPT ![s] = @ \ {"read"}]
  /\ unregister' = unregister \cup {s}
  /\ UNCHANGED <<clients, buffered, sendClosed, conn, broadcast, hubPanicked>>

HubNext ==
  /\ subKind = "hub"
  /\ \/ Broadcast \/ HubSends
     \/ \E s \in Streams : \/ StreamOpens(s) \/ HubUnregisters(s) \/ WriteEvent(s)
                           \/ WriteEnds(s) \/ PeerLeaves(s) \/ ReadEnds(s)
  /\ UNCHANGED <<subKind, rowVars, flow, loaderVars>>

SubNext == StatusNext \/ RefundNext \/ LoaderNext \/ HubNext

-----------------------------------------------------------------------------
(* Properties                                                              *)

\* Every change of a status is one the state machine allows ("checking that the
\* transition is allowed per the state machine"): a cancelled subscription never
\* comes back, whatever requests run at the same time.
TransitionsAllowed == [][subRow'.status # subRow.status => CanTransition(subRow.status, subRow'.status)]_subRow

\* The versioned Update loses no write: the status it stores is the one it
\* replaces, although ChangeStatus runs beside it without a version.
NoLostStatus == ~lost

\* The flow's outcome is true: done means cancelled with a refund; compensated
\* means that the subscription has the status it had before, unless the step ran
\* a second time after a restart or the error that ended it came after the write;
\* and no outcome leaves a refund beside a subscription that goes on.
FlowOutcomeHolds ==
  /\ flow.at = "done" => flow.refund = "issued" /\ subRow.status = "cancelled"
  /\ flow.at = "compensated" /\ ~flow.again /\ ~flow.loose => subRow.status = flow.before
  /\ flow.refund = "issued" => subRow.status = "cancelled"

\* No load is forgotten: one that waits is in a batch that is being answered, or
\* in the pending batch with a timer armed for it.
LoadsAreServed ==
  \A l \in Loads : load[l] = "waiting" =>
    \/ \E b \in batches : l \in b
    \/ l \in pending /\ timers > 0

\* The hub and the pumps close every Send channel once and never use it after.
HubNeverPanics == ~hubPanicked

=============================================================================
