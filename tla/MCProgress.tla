----------------------------- MODULE MCProgress -----------------------------
(***************************************************************************)
(* Small instances of the background processes, with their fairness.        *)
(* They share no state, so a behaviour is about one of them, the focus, and *)
(* the others stay in one of their initial states.                          *)
(***************************************************************************)
EXTENDS OutboxWorker, SagaCoordinator, WebhookInbox, Lifecycle, JobWorker, ReadCache, TLC

CONSTANTS s1, s2, k1, k2, k3, m1, b1, b2, p1, r1, r2, byId, byTenant

VARIABLE focus

FirstStep == {1}

\* Two inbox rows of each of two sources.  The second source's first row is
\* poison, its second row is about the same object as the first source's first.
RowSources == <<s1, s2, s1, s2>>
RowKeys    == <<k1, k2, k3, k1>>
PoisonRows == {2}

OneRelease == m1 :> {1}

OneEach == (b1 :> 1) @@ (b2 :> 1)

TwoKeys     == <<byId, byTenant>>
BothOnFirst == (r1 :> p1) @@ (r2 :> p1)

ProgressInit ==
  /\ focus \in {"outbox", "saga", "inbox", "server", "job", "cache"}
  /\ OutboxWorkerInit /\ SagaInit /\ InboxInit /\ JobWorkerInit /\ CacheInit
  /\ LifeInit /\ lifeKind = "server"

ProgressNext ==
  /\ UNCHANGED focus
  /\ \/ /\ focus = "outbox" /\ OutboxWorkerNext
        /\ UNCHANGED <<sagaVars, inboxVars, lifeVars, jobWorkerVars, cacheVars>>
     \/ /\ focus = "saga" /\ SagaNext
        /\ UNCHANGED <<outboxWorkerVars, inboxVars, lifeVars, jobWorkerVars, cacheVars>>
     \/ /\ focus = "inbox" /\ InboxNext
        /\ UNCHANGED <<outboxWorkerVars, sagaVars, lifeVars, jobWorkerVars, cacheVars>>
     \/ /\ focus = "server" /\ ServerNext
        /\ UNCHANGED <<outboxWorkerVars, sagaVars, inboxVars, jobWorkerVars, cacheVars>>
     \/ /\ focus = "job" /\ JobWorkerNext
        /\ UNCHANGED <<outboxWorkerVars, sagaVars, inboxVars, lifeVars, cacheVars>>
     \/ /\ focus = "cache" /\ CacheNext
        /\ UNCHANGED <<outboxWorkerVars, sagaVars, inboxVars, lifeVars, jobWorkerVars>>

\* What the scheduling of the code guarantees, in the behaviours about each of
\* the components.
ProgressFairness ==
  \* The ticker of a running outbox worker fires, its calls return (Publish within
  \* ProcessingTimeout), time passes, and a worker that is down is restarted.
  /\ \A e \in Ids : WF_outboxWorkerVars(focus = "outbox" /\ RetryFallsDue(e))
  /\ (\A w \in Workers :
        /\ WF_outboxWorkerVars(focus = "outbox" /\ Start(w))
        /\ WF_outboxWorkerVars(focus = "outbox" /\ StopReturns(w))
        /\ WF_outboxWorkerVars(focus = "outbox" /\ ClaimSelects(w))
        /\ WF_outboxWorkerVars(focus = "outbox" /\ (ClaimCommits(w) \/ ClaimFails(w)))
        /\ WF_outboxWorkerVars(focus = "outbox" /\ PublishBegins(w))
        /\ WF_outboxWorkerVars(focus = "outbox" /\ \E c \in batch[w] : Outcome(w, c)))
  \* The inbox worker's ticker fires every 100 ms.
  /\ \A w \in InboxWorkers : WF_inboxVars(focus = "inbox" /\ Work(w))
  \* The main goroutine goes on; nothing makes a request end.
  /\ WF_lifeVars(/\ focus = "server" /\ MainStep /\ mainAt # "exit"
                 /\ UNCHANGED <<lifeKind, migrateVars, inputVars, probeVars>>)
  \* Time passes for the billing jobs, their poll loops run, and a goroutine ends
  \* because the executor runs under a timeout; nothing makes it succeed.
  /\ \A j \in Jobs : WF_jobWorkerVars(focus = "job" /\ FallsDue(j))
  /\ \A w \in JobWorkers : WF_jobWorkerVars(focus = "job" /\ PollStep(w))
  /\ \A w \in JobWorkers, s \in ExecSlots : WF_jobWorkerVars(focus = "job" /\ SlotStep(w, s))
  \* Goroutines that can run do run, and a sync.Mutex is handed to a waiter that
  \* has waited long enough (its starvation mode).
  /\ \A r \in Readers : /\ WF_cacheVars(focus = "cache" /\ Read(r))
                        /\ SF_cacheVars(focus = "cache" /\ Lock(r))

ProgressSpec ==
  ProgressInit /\ ProgressFairness
  /\ [][ProgressNext]_<<focus, outboxWorkerVars, sagaVars, inboxVars, lifeVars, jobWorkerVars,
                        cacheVars>>

\* Every variable of the components has values of its type.
ProgressTypeOK ==
  /\ OutboxWorkerTypeOK /\ SagaTypeOK /\ InboxTypeOK /\ LifeTypeOK
  /\ JobWorkerTypeOK /\ CacheTypeOK

=============================================================================
