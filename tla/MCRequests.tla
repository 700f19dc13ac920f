----------------------------- MODULE MCRequests -----------------------------
(***************************************************************************)
(* Small instances of the components on the path of a request, from its     *)
(* limits and credentials to the events, exports and jobs it leaves behind. *)
(* They share no state, so a behaviour is about one of them, the focus, and *)
(* the others stay in one of their initial states.                          *)
(***************************************************************************)
EXTENDS Subscriptions, RequestLimits, Credentials, Responses, Details, FeatureGates, Listings,
        Fees, FilterParser, Telemetry, Idempotency, TenantExport, OutboxService, LaneScheduler,
        ReadCache, TLC

CONSTANTS l1, l2, l3, p1, e1, e2, n1, n2, u1, byId, byTenant

VARIABLE focus

\* Two calls ask for the same plan.
LoadedIds == (l1 :> "a") @@ (l2 :> "a") @@ (l3 :> "b")

SixRows == {<<1, 1>>, <<1, 2>>, <<1, 3>>, <<2, 1>>, <<2, 2>>, <<3, 1>>}

\* Two exports of the same tenant and one of another.
ExportTenants == (e1 :> "a") @@ (e2 :> "a")

\* Two replicas write, the readers are on the first of them.
TwoKeys     == <<byId, byTenant>>
ReaderOnFirst == u1 :> n1

\* DefaultLaneWeights of internal/worker/job.go.
DefaultLaneWeights == [high |-> 3, normal |-> 2, low |-> 1]

RequestsInit ==
  /\ focus \in {"sub", "limit", "cred", "resp", "detail", "gate", "list", "fee", "filter", "tel",
                "idem", "export", "service", "lane", "cache"}
  /\ LaneInit /\ CacheInit
  /\ SubInit           /\ (focus # "sub" => subKind = "hub")
  /\ LimitInit         /\ (focus # "limit" => limitKind = "bucket")
  /\ CredInit          /\ (focus # "cred" => credKind = "jwks")
  /\ RespInit          /\ (focus # "resp" => respKind = "flags")
  /\ DetailsInit       /\ (focus # "detail" => subRows["s1"].amount /\ subRows["s1"].state = "live"
                                              /\ stmtRows["i1"] = "live")
  /\ GatesInit         /\ (focus # "gate" => \A f \in FlagNames : /\ flagsJson[f] = "unset"
                                                                /\ flagsFF[f] = "unset"
                                                                /\ gateFlags[f] # "none")
  /\ ListInit          /\ (focus # "list" => listKind = "reports")
  /\ FeesInit          /\ (focus # "fee" => feeCall = CHOOSE c \in Calls : TRUE)
  /\ FilterInit        /\ (focus # "filter" => input = <<>>)
  /\ TelemetryInit     /\ (focus # "tel" => telKind = "fraud")
  /\ IdempotencyInit   /\ (focus # "idem" => payload = [r \in Requests |-> p1])
  /\ ExportInit        /\ (focus # "export" => durable)
  /\ OutboxServiceInit /\ (focus # "service" => serviceKind = "limiter")

RequestsNext ==
  /\ UNCHANGED focus
  /\ \/ /\ focus = "sub" /\ SubNext
        /\ UNCHANGED <<limitVars, credVars, respVars, detailVars, gateVars, listVars, feeCallVars,
                      filterVars, telVars, idempotencyVars, exportVars, outboxServiceVars,
                      laneVars, cacheVars>>
     \/ /\ focus = "limit" /\ LimitNext
        /\ UNCHANGED <<subVars, credVars, respVars, detailVars, gateVars, listVars, feeCallVars,
                      filterVars, telVars, idempotencyVars, exportVars, outboxServiceVars,
                      laneVars, cacheVars>>
     \/ /\ focus = "cred" /\ CredNext
        /\ UNCHANGED <<subVars, limitVars, respVars, detailVars, gateVars, listVars, feeCallVars,
                      filterVars, telVars, idempotencyVars, exportVars, outboxServiceVars,
                      laneVars, cacheVars>>
     \/ /\ focus = "resp" /\ RespNext
        /\ UNCHANGED <<subVars, limitVars, credVars, detailVars, gateVars, listVars, feeCallVars,
                      filterVars, telVars, idempotencyVars, exportVars, outboxServiceVars,
                      laneVars, cacheVars>>
     \/ /\ focus = "detail" /\ DetailsNext
        /\ UNCHANGED <<subVars, limitVars, credVars, respVars, gateVars, listVars, feeCallVars,
                      filterVars, telVars, idempotencyVars, exportVars, outboxServiceVars,
                      laneVars, cacheVars>>
     \/ /\ focus = "gate" /\ GatesNext
        /\ UNCHANGED <<subVars, limitVars, credVars, respVars, detailVars, listVars, feeCallVars,
                      filterVars, telVars, idempotencyVars, exportVars, outboxServiceVars,
                      laneVars, cacheVars>>
     \/ /\ focus = "list" /\ ListNext
        /\ UNCHANGED <<subVars, limitVars, credVars, respVars, detailVars, gateVars, feeCallVars,
                      filterVars, telVars, idempotencyVars, exportVars, outboxServiceVars,
                      laneVars, cacheVars>>
     \/ /\ focus = "fee" /\ FeesNext
        /\ UNCHANGED <<subVars, limitVars, credVars, respVars, detailVars, gateVars, listVars,
                      filterVars, telVars, idempotencyVars, exportVars, outboxServiceVars,
                      laneVars, cacheVars>>
     \/ /\ focus = "filter" /\ FilterNext
        /\ UNCHANGED <<subVars, limitVars, credVars, respVars, detailVars, gateVars, listVars,
                      feeCallVars, telVars, idempotencyVars, exportVars, outboxServiceVars,
                      laneVars, cacheVars>>
     \/ /\ focus = "tel" /\ TelemetryNext
        /\ UNCHANGED <<subVars, limitVars, credVars, respVars, detailVars, gateVars, listVars,
                      feeCallVars, filterVars, idempotencyVars, exportVars, outboxServiceVars,
                      laneVars, cacheVars>>
     \/ /\ focus = "idem" /\ IdempotencyNext
        /\ UNCHANGED <<subVars, limitVars, credVars, respVars, detailVars, gateVars, listVars,
                      feeCallVars, filterVars, telVars, exportVars, outboxServiceVars, laneVars,
                      cacheVars>>
     \/ /\ focus = "export" /\ ExportNext
        /\ UNCHANGED <<subVars, limitVars, credVars, respVars, detailVars, gateVars, listVars,
                      feeCallVars, filterVars, telVars, idempotencyVars, outboxServiceVars,
                      laneVars, cacheVars>>
     \/ /\ focus = "service" /\ OutboxServiceNext
        /\ UNCHANGED <<subVars, limitVars, credVars, respVars, detailVars, gateVars, listVars,
                      feeCallVars, filterVars, telVars, idempotencyVars, exportVars, laneVars,
                      cacheVars>>
     \/ /\ focus = "lane" /\ LaneNext
        /\ UNCHANGED <<subVars, limitVars, credVars, respVars, detailVars, gateVars, listVars,
                      feeCallVars, filterVars, telVars, idempotencyVars, exportVars,
                      outboxServiceVars, cacheVars>>
     \/ /\ focus = "cache" /\ CacheNext
        /\ UNCHANGED <<subVars, limitVars, credVars, respVars, detailVars, gateVars, listVars,
                      feeCallVars, filterVars, telVars, idempotencyVars, exportVars,
                      outboxServiceVars, laneVars>>

RequestsSpec ==
  RequestsInit
  /\ [][RequestsNext]_<<focus, subVars, limitVars, credVars, respVars, detailVars, gateVars,
                            listVars, feeCallVars, filterVars, telVars, idempotencyVars,
                            exportVars, outboxServiceVars, laneVars, cacheVars>>

\* Every variable of the components has values of its type.
RequestsTypeOK ==
  /\ SubTypeOK /\ LimitTypeOK /\ CredTypeOK /\ RespTypeOK
  /\ DetailsTypeOK /\ GatesTypeOK /\ ListTypeOK /\ FeesTypeOK
  /\ FilterTypeOK /\ TelemetryTypeOK /\ IdempotencyTypeOK /\ ExportTypeOK
  /\ OutboxServiceTypeOK /\ LaneTypeOK /\ CacheTypeOK

=============================================================================
