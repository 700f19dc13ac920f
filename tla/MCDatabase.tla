----------------------------- MODULE MCDatabase -----------------------------
(***************************************************************************)
(* Small instances of the components between the backend and its stores,    *)
(* and of the start and the end of the process.  They share no state, so a  *)
(* behaviour is about one of them, the focus, and the others stay in one of *)
(* their initial states.                                                    *)
(***************************************************************************)
EXTENDS ShardedDispatcher, ScheduledJobs, ChangeCapture, CircuitBreaker, DatabaseReads,
        AuditTrail, Reconciliation, RefreshJobs, Lifecycle, JobWorker, TLC

CONSTANTS i1, i2, m1, m2, b1, b2

VARIABLE focus

\* The second instance competes for the first one's shard.
SharedShard == (i1 :> {0, 1}) @@ (i2 :> {0})

JobHorizon == [archive |-> 1, rollover |-> 3]

\* Two transactions, on two tables.
TwoCommits == <<"plans", "subs", "commit", "plans", "commit">>

FlagToggles == {1, 3, 4}

\* An older release knows one migration less.
OlderRelease == (m1 :> {1, 2, 3}) @@ (m2 :> {1, 2})

\* One billing worker can run a job twice at a time, the other once.
TwoAndOne == (b1 :> 2) @@ (b2 :> 1)

DatabaseInit ==
  /\ focus \in {"shard", "job", "cdc", "circuit", "read", "audit", "recon", "refresh", "life", "billing"}
  /\ ShardInit /\ CdcInit /\ JobWorkerInit
  /\ JobInit     /\ (focus # "job" => jobKind = "archive")
  /\ CircuitInit /\ (focus # "circuit" => breakerKind = "breaker")
  /\ ReadInit    /\ (focus # "read" => readKind = "hedge")
  /\ AuditInit   /\ (focus # "audit" => auditKind = "file")
  /\ RefreshInit /\ (focus # "refresh" => refreshKind = "fee")
  /\ LifeInit    /\ (focus # "life" => lifeKind = "migrate")
  /\ ReconInit
  /\ focus # "recon" => /\ caller = "service" /\ hasStore /\ ledger = Missing
                        /\ backend = CHOOSE b \in Balances : TRUE

DatabaseNext ==
  /\ UNCHANGED focus
  /\ \/ /\ focus = "shard" /\ ShardNext
        /\ UNCHANGED <<jobVars, cdcVars, circuitVars, readVars, auditVars, reconVars, refreshVars,
                      lifeVars, jobWorkerVars>>
     \/ /\ focus = "job" /\ JobNext
        /\ UNCHANGED <<shardVars, cdcVars, circuitVars, readVars, auditVars, reconVars,
                      refreshVars, lifeVars, jobWorkerVars>>
     \/ /\ focus = "cdc" /\ CdcNext
        /\ UNCHANGED <<shardVars, jobVars, circuitVars, readVars, auditVars, reconVars,
                      refreshVars, lifeVars, jobWorkerVars>>
     \/ /\ focus = "circuit" /\ CircuitNext
        /\ UNCHANGED <<shardVars, jobVars, cdcVars, readVars, auditVars, reconVars, refreshVars,
                      lifeVars, jobWorkerVars>>
     \/ /\ focus = "read" /\ ReadNext
        /\ UNCHANGED <<shardVars, jobVars, cdcVars, circuitVars, auditVars, reconVars,
                      refreshVars, lifeVars, jobWorkerVars>>
     \/ /\ focus = "audit" /\ AuditNext
        /\ UNCHANGED <<shardVars, jobVars, cdcVars, circuitVars, readVars, reconVars, refreshVars,
                      lifeVars, jobWorkerVars>>
     \/ /\ focus = "recon" /\ ReconNext
        /\ UNCHANGED <<shardVars, jobVars, cdcVars, circuitVars, readVars, auditVars, refreshVars,
                      lifeVars, jobWorkerVars>>
     \/ /\ focus = "refresh" /\ RefreshNext
        /\ UNCHANGED <<shardVars, jobVars, cdcVars, circuitVars, readVars, auditVars, reconVars,
                      lifeVars, jobWorkerVars>>
     \/ /\ focus = "life" /\ LifeNext
        /\ UNCHANGED <<shardVars, jobVars, cdcVars, circuitVars, readVars, auditVars, reconVars,
                      refreshVars, jobWorkerVars>>
     \/ /\ focus = "billing" /\ JobWorkerNext
        /\ UNCHANGED <<shardVars, jobVars, cdcVars, circuitVars, readVars, auditVars, reconVars,
                      refreshVars, lifeVars>>

DatabaseSpec ==
  DatabaseInit
  /\ [][DatabaseNext]_<<focus, shardVars, jobVars, cdcVars, circuitVars, readVars, auditVars,
                            reconVars, refreshVars, lifeVars, jobWorkerVars>>

\* Every variable of the components has values of its type.
DatabaseTypeOK ==
  /\ ShardTypeOK /\ JobTypeOK /\ CdcTypeOK /\ CircuitTypeOK
  /\ ReadTypeOK /\ AuditTypeOK /\ ReconTypeOK /\ RefreshTypeOK
  /\ LifeTypeOK /\ JobWorkerTypeOK

=============================================================================
