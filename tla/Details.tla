------------------------------- MODULE Details -------------------------------
(***************************************************************************)
(* The handlers that read a subscription or the statements of a customer,  *)
(* and the export of a customer's statements (service/subscription_        *)
(* service.go, statement_service.go, statement_export.go and their         *)
(* handlers).  Each makes several queries outside a transaction, and the   *)
(* rows are written in between.                                            *)
(*                                                                         *)
(* One customer has a subscription with each of two tenants.  A request    *)
(* asks for the first subscription, the first statement, the customer's    *)
(* statements, or their export for a tenant.                               *)
(***************************************************************************)
EXTENDS Naturals, FiniteSets

CONSTANTS
  StatementPage,  \* statementPageSize, and maxLimit of a listing
  MaxRowWrites    \* bound on the writes during the request

ASSUME DetailsConstants == StatementPage \in Nat \ {0} /\ MaxRowWrites \in Nat

TheCustomer   == "customer"
OtherCustomer == "other customer"
DetailTenants == {"t1", "t2"}
DetailCallers == DetailTenants \cup {TheCustomer, OtherCustomer}

SubIds  == {"s1", "s2"}
PlanIds == {"p1", "p2"}
StmtIds == {"i1", "i2", "i3"}

SubTenant == [s1 |-> "t1", s2 |-> "t2"]
StmtSub   == [i1 |-> "s1", i2 |-> "s2", i3 |-> "s1"]

NoPlan == "none"

VARIABLES
  subRows,    \* subscriptions: live, soft (deleted_at is set) or gone; plan_id;
              \* whether amount is a number
  planRows,   \* the plans there are
  stmtRows,   \* statements: none, live or deleted
  rowWrites,
  detail,     \* the request: where it is and what it has read
  atStart     \* the rows as they were when the request began

detailVars == <<subRows, planRows, stmtRows, rowWrites, detail, atStart>>

NoRequest == [kind |-> NoPlan, at |-> "idle", caller |-> NoPlan, roles |-> {}, tenant |-> NoPlan,
              plan |-> NoPlan, meta |-> NoPlan, amount |-> TRUE, limit |-> 0, subs |-> {},
              lines |-> {}, cut |-> FALSE, code |-> 0]

DetailsTypeOK ==
  /\ subRows \in [SubIds -> [state : {"live", "soft", "gone"}, plan : PlanIds, amount : BOOLEAN]]
  /\ planRows \subseteq PlanIds
  /\ stmtRows \in [StmtIds -> {"none", "live", "deleted"}]
  /\ rowWrites \in 0..MaxRowWrites
  /\ detail.plan \in PlanIds \cup {NoPlan} /\ detail.meta \in PlanIds \cup {NoPlan}
  /\ detail.subs \subseteq SubIds /\ detail.lines \subseteq StmtIds
  /\ detail.limit \in 0..StatementPage
  /\ detail.code \in {0, 200, 400, 401, 403, 404, 410, 500}
  /\ (detail.code # 0) = (detail.at = "done")

\* An amount may not be a number, and rows may be deleted from the beginning.
DetailsInit ==
  /\ \E a \in BOOLEAN, s \in {"live", "soft"} :
       subRows = [s1 |-> [state |-> s, plan |-> "p1", amount |-> a],
                  s2 |-> [state |-> s, plan |-> "p1", amount |-> TRUE]]
  /\ planRows = PlanIds
  /\ \E i \in {"live", "deleted"} : stmtRows = [i1 |-> i, i2 |-> "live", i3 |-> "none"]
  /\ rowWrites = 0
  /\ detail = NoRequest
  /\ atStart = [subs |-> subRows, stmts |-> stmtRows]

-----------------------------------------------------------------------------
(* The handlers: what they take from the context, the query and the body   *)

RequestCalled(kind, caller, roles, tenant, limit) ==
  /\ detail.at = "idle"
  /\ detail' = [NoRequest EXCEPT !.kind = kind, !.at = kind, !.caller = caller, !.roles = roles,
                                 !.tenant = tenant, !.limit = limit]
  /\ atStart' = [subs |-> subRows, stmts |-> stmtRows]
  /\ UNCHANGED <<subRows, planRows, stmtRows, rowWrites>>

\* getAuthContext finds no caller or roles (401), or a parameter is wrong (400).
RequestRefused(kind) ==
  /\ detail.at = "idle"
  /\ \E code \in {400, 401} :
       detail' = [NoRequest EXCEPT !.kind = kind, !.at = "done", !.code = code]
  /\ UNCHANGED <<subRows, planRows, stmtRows, rowWrites, atStart>>

RoleSets == SUBSET {"admin", "merchant"}

GetSubscriptionCalled ==
  \E c \in DetailCallers, t \in DetailTenants : RequestCalled("subscription", c, {}, t, 0)

GetStatementCalled ==
  \/ \E c \in DetailCallers, r \in RoleSets : RequestCalled("statement", c, r, NoPlan, 0)
  \/ RequestRefused("statement")

\* A limit over maxLimit is cut to it, one below 1 is an error.
buildStatementQuery(n) == IF n > StatementPage THEN StatementPage ELSE n

ListCalled ==
  \/ \E c \in DetailCallers, r \in RoleSets, n \in 1..StatementPage + 1 :
       RequestCalled("list", c, r, NoPlan, buildStatementQuery(n))
  \/ RequestRefused("list")

ExportCalled ==
  \/ \E c \in DetailCallers, r \in RoleSets, t \in DetailTenants :
       RequestCalled("export", c, r, t, StatementPage)
  \/ RequestRefused("export")

-----------------------------------------------------------------------------
(* The services                                                            *)

rowsUnchanged == UNCHANGED <<subRows, planRows, stmtRows, rowWrites, atStart>>

DetailEnds(code) == detail' = [detail EXCEPT !.at = "done", !.code = code] /\ rowsUnchanged

\* Any query or upload may fail, which the handlers answer with 500.
QueryFails ==
  /\ detail.at \notin {"idle", "owner", "done"}
  /\ DetailEnds(500)

\* GetDetail of a subscription: the row, through the loader or the repository.
ReadSubscription ==
  LET row == subRows["s1"]
      found == row.state # "gone" /\ detail.tenant = SubTenant["s1"] IN
  /\ detail.at = "subscription"
  /\ \/ ~found /\ DetailEnds(404)
     \/ found /\ row.state = "soft" /\ DetailEnds(410)
     \/ found /\ row.state = "live" /\ detail.caller # TheCustomer /\ DetailEnds(403)
     \/ /\ found /\ row.state = "live" /\ detail.caller = TheCustomer
        /\ detail' = [detail EXCEPT !.at = "plan", !.plan = row.plan, !.amount = row.amount]
        /\ rowsUnchanged

\* Then its plan, whose absence is only a warning, and the amount of the row.
ReadPlan ==
  /\ detail.at = "plan"
  /\ detail' = [detail EXCEPT !.at = "done",
                              !.code = IF detail.amount THEN 200 ELSE 500,
                              !.meta = IF detail.plan \in planRows THEN detail.plan ELSE NoPlan]
  /\ rowsUnchanged

\* GetDetail of a statement; for a merchant the subscription is read as well.
\* The handler answers a deleted one like a missing one.
ReadStatement ==
  LET live == stmtRows["i1"] = "live" IN
  /\ detail.at = "statement"
  /\ \/ ~live /\ DetailEnds(404)
     \/ live /\ "admin" \in detail.roles /\ DetailEnds(200)
     \/ /\ live /\ detail.roles = {"merchant"}
        /\ detail' = [detail EXCEPT !.at = "owner"] /\ rowsUnchanged
     \/ live /\ detail.roles = {} /\ DetailEnds(IF detail.caller = TheCustomer THEN 200 ELSE 403)

\* A subscription that is gone, or cannot be read, is nobody's.
CheckMerchant ==
  /\ detail.at = "owner"
  /\ \/ DetailEnds(403)
     \/ subRows["s1"].state # "gone" /\ detail.caller = SubTenant["s1"] /\ DetailEnds(200)

StmtsThere == {i \in StmtIds : stmtRows[i] # "none"}

\* ListByCustomerID: any rows of the customer, at most limit.
Pages(limit) ==
  {S \in SUBSET StmtsThere : Cardinality(S) = IF Cardinality(StmtsThere) > limit
                                            THEN limit ELSE Cardinality(StmtsThere)}

ListByCustomer ==
  /\ detail.at = "list"
  /\ \/ detail.roles = {} /\ detail.caller # TheCustomer /\ DetailEnds(403)
     \/ /\ detail.roles # {} \/ detail.caller = TheCustomer
        /\ \E page \in Pages(detail.limit) :
             detail' = [detail EXCEPT !.at = "done", !.code = 200, !.lines = page]
        /\ rowsUnchanged

-----------------------------------------------------------------------------
(* ExportStatements                                                        *)

\* The roles, then the tenant's subscriptions, deleted_at set or not.
ListByTenant_Live ==
  LET subs == {s \in SubIds : SubTenant[s] = detail.tenant /\ subRows[s].state = "live"} IN
  /\ detail.at = "export"
  /\ \/ /\ \/ detail.roles = {}
           \/ "merchant" \in detail.roles /\ detail.caller # detail.tenant
        /\ DetailEnds(403)
     \/ /\ detail.roles # {}
        /\ "merchant" \in detail.roles => detail.caller = detail.tenant
        /\ detail' = [detail EXCEPT !.at = "rows", !.subs = subs]
        /\ rowsUnchanged

ListByTenant ==
  LET subs == {s \in SubIds : SubTenant[s] = detail.tenant /\ subRows[s].state # "gone"} IN
  /\ detail.at = "export"
  /\ \/ /\ \/ detail.roles = {}
           \/ "merchant" \in detail.roles /\ detail.caller # detail.tenant
           \/ subs = {}
        /\ DetailEnds(403)
     \/ /\ detail.roles # {} /\ subs # {}
        /\ "merchant" \in detail.roles => detail.caller = detail.tenant
        /\ detail' = [detail EXCEPT !.at = "rows", !.subs = subs]
        /\ rowsUnchanged

\* One page of the customer's statements, those of the subscriptions kept.
ExportRows ==
  /\ detail.at = "rows"
  /\ \E page \in Pages(detail.limit) :
       detail' = [detail EXCEPT !.at = "put",
                                !.lines = {i \in page : StmtSub[i] \in detail.subs},
                                !.cut = Cardinality(StmtsThere) > detail.limit]
  /\ rowsUnchanged

\* The upload, then the URL.
ExportPuts ==
  /\ detail.at = "put"
  /\ detail' = [detail EXCEPT !.at = "presign"]
  /\ rowsUnchanged

ExportPresigns == detail.at = "presign" /\ DetailEnds(200)

-----------------------------------------------------------------------------
(* The writers                                                             *)

RowWrite ==
  /\ detail.at \notin {"idle", "done"}
  /\ rowWrites < MaxRowWrites
  /\ rowWrites' = rowWrites + 1
  /\ UNCHANGED <<detail, atStart>>

SubscriptionWritten(s) ==
  /\ RowWrite
  /\ subRows[s].state # "gone"
  /\ \/ \E p \in PlanIds : subRows' = [subRows EXCEPT ![s].plan = p]
     \/ \E state \in {"soft", "gone"} : subRows' = [subRows EXCEPT ![s].state = state]
  /\ UNCHANGED <<planRows, stmtRows>>

\* PostgresPlanRepo.Delete.
PlanDeleted(p) ==
  /\ RowWrite
  /\ p \in planRows
  /\ planRows' = planRows \ {p}
  /\ UNCHANGED <<subRows, stmtRows>>

StatementWritten(i) ==
  /\ RowWrite
  /\ \/ stmtRows[i] = "none" /\ stmtRows' = [stmtRows EXCEPT ![i] = "live"]
     \/ stmtRows[i] = "live" /\ stmtRows' = [stmtRows EXCEPT ![i] = "deleted"]
  /\ UNCHANGED <<subRows, planRows>>

DetailsNext ==
  \/ GetSubscriptionCalled \/ GetStatementCalled \/ ListCalled \/ ExportCalled
  \/ QueryFails
  \/ ReadSubscription \/ ReadPlan
  \/ ReadStatement \/ CheckMerchant
  \/ ListByCustomer
  \/ ListByTenant \/ ExportRows \/ ExportPuts \/ ExportPresigns
  \/ \E s \in SubIds : SubscriptionWritten(s)
  \/ \E p \in PlanIds : PlanDeleted(p)
  \/ \E i \in StmtIds : StatementWritten(i)

-----------------------------------------------------------------------------
DetailServed(kind) == detail.kind = kind /\ detail.code = 200

\* What was deleted before the request began is not shown: neither GetDetail
\* serves a row with deleted_at set, on whichever way it decides that the caller
\* may see it.
DeletedStaysHidden ==
  /\ DetailServed("subscription") => atStart.subs["s1"].state = "live"
  /\ DetailServed("statement") => atStart.stmts["i1"] # "deleted"

\* An export of which the URL is handed out holds the customer's statements with
\* the tenant and no other's: every one that was there when the request began,
\* unless the page was cut at statementPageSize or the subscription was removed.
ExportIsTheTenants ==
  DetailServed("export") =>
    /\ \A i \in detail.lines : SubTenant[StmtSub[i]] = detail.tenant
    /\ \A i \in StmtIds :
         \/ atStart.stmts[i] = "none" \/ detail.cut \/ i \in detail.lines
         \/ SubTenant[StmtSub[i]] # detail.tenant
         \/ subRows[StmtSub[i]].state = "gone"

==============================================================================
