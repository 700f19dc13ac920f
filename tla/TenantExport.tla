----------------------------- MODULE TenantExport ----------------------------
(***************************************************************************)
(* Exports of a tenant's data: the handlers of handlers/tenant_export.go,   *)
(* ExportJobManager and ExportTenantData of service/tenant_export.go and    *)
(* the S3 client of storage/s3/client.go.  A request stands for the job and *)
(* the operation it creates.  m.jobs has no lock: requests interleave, and  *)
(* where the Go runtime notices concurrent use of the map the process ends. *)
(***************************************************************************)
EXTENDS Integers, Sequences, FiniteSets

CONSTANTS
  Exports,     \* requests
  TenantOf,    \* [Exports -> tenants]
  PendingCap,  \* capacity of the pending channel
  ExportRetries,  \* of PutObject
  LastSecond   \* bound on the clock

VARIABLES
  durable,     \* the operation store is the PostgreSQL one
  second,      \* the time the last key was made, in the resolution of keys
  request,     \* [Exports -> where its request is]
  jobs,        \* m.jobs
  exportJob,         \* [Exports -> status of its job]
  operation,   \* [Exports -> status of its operation]
  pendingJobs, \* m.pending
  loop,        \* the job processLoop works on: its stage, the uploads tried and the
               \* status its operation is to get
  exportStopped,     \* m.ctx is cancelled
  objects,     \* set of <<key, job>>: which job's bundle a key holds
  keyOf        \* [Exports -> the key its upload used]

exportVars == <<durable, second, request, jobs, exportJob, operation, pendingJobs, loop, exportStopped, objects, keyOf>>

Rest == [stage |-> "rest", job |-> CHOOSE j \in Exports : TRUE, tries |-> 0, note |-> "none"]
NoKey == <<"none", 0>>
Live == {"pending", "running"}

ExportTypeOK ==
  /\ durable \in BOOLEAN /\ exportStopped \in BOOLEAN /\ second \in 0..LastSecond
  /\ request \in [Exports -> {"idle", "checked", "waits", "accepted", "conflict", "error"}]
  /\ jobs \subseteq Exports
  /\ exportJob \in [Exports -> Live \union {"none", "completed", "failed"}]
  /\ operation \in [Exports -> Live \union {"none", "succeeded", "failed", "expired"}]
  /\ pendingJobs \in Seq(Exports) /\ Len(pendingJobs) <= PendingCap
  /\ loop \in [stage : {"rest", "get", "update", "fetch", "upload", "presign"}, job : Exports,
               tries : 0..ExportRetries, note : {"none", "running", "failed", "succeeded"}]
  /\ \A o \in objects : o[2] \in Exports

ExportInit ==
  /\ durable \in BOOLEAN /\ second = 0
  /\ request = [e \in Exports |-> "idle"] /\ jobs = {}
  /\ exportJob = [e \in Exports |-> "none"] /\ operation = [e \in Exports |-> "none"]
  /\ pendingJobs = <<>> /\ loop = Rest /\ exportStopped = FALSE
  /\ objects = {} /\ keyOf = [e \in Exports |-> NoKey]

ExportAnswered(e, how) == request' = [request EXCEPT ![e] = how]

-----------------------------------------------------------------------------
(* CreateJob                                                               *)

\* The loop over m.jobs.
ChecksJobs(e) ==
  /\ request[e] = "idle"
  /\ ExportAnswered(e, IF \E o \in jobs : TenantOf[o] = TenantOf[e] /\ exportJob[o] \in Live
                 THEN "conflict" ELSE "checked")
  /\ UNCHANGED <<jobs, exportJob, operation, pendingJobs>>

\* operations.Create, then the job enters m.jobs.
InsertsJob(e) ==
  /\ request[e] = "checked"
  /\ \/ /\ operation' = [operation EXCEPT ![e] = "pending"]
        /\ exportJob' = [exportJob EXCEPT ![e] = "pending"]
        /\ jobs' = jobs \union {e}
        /\ ExportAnswered(e, "waits")
     \/ durable /\ ExportAnswered(e, "error") /\ UNCHANGED <<jobs, exportJob, operation>>
  /\ UNCHANGED pendingJobs

\* The select: a free place in the channel, the client gone, or a stopped manager.
EnqueuesJob(e) ==
  /\ request[e] = "waits"
  /\ \/ /\ Len(pendingJobs) < PendingCap
        /\ pendingJobs' = Append(pendingJobs, e)
        /\ ExportAnswered(e, "accepted")
        /\ UNCHANGED jobs
     \/ jobs' = jobs \ {e} /\ ExportAnswered(e, "error") /\ UNCHANGED pendingJobs
  /\ UNCHANGED <<exportJob, operation>>

CreateJob ==
  /\ \E e \in Exports : ChecksJobs(e) \/ InsertsJob(e) \/ EnqueuesJob(e)
  /\ UNCHANGED <<durable, second, loop, exportStopped, objects, keyOf>>

\* GetOperation drops operations a day old, whatever their status, and reads one.
GetOperation ==
  /\ \E e \in Exports :
       operation[e] # "none" /\ operation' = [operation EXCEPT ![e] = "expired"]
  /\ UNCHANGED <<durable, second, request, jobs, exportJob, pendingJobs, loop, exportStopped, objects, keyOf>>

-----------------------------------------------------------------------------
(* processLoop                                                             *)

\* The job's own status first, then its operation's in two calls whose errors are
\* dropped.
SetStatus(e, status, note) ==
  /\ exportJob' = [exportJob EXCEPT ![e] = status]
  /\ loop' = [Rest EXCEPT !.stage = "get", !.job = e, !.note = note]

AfterOperation(note) ==
  IF note = "running" THEN [Rest EXCEPT !.stage = "fetch", !.job = loop.job] ELSE Rest

\* operations.Get: the in-memory store hands out the stored operation itself, so
\* that the assignments to it are seen at once; the PostgreSQL one a copy, or an
\* error, always when the context is cancelled.
GetsOperation ==
  LET e == loop.job IN
  /\ loop.stage = "get"
  /\ \/ /\ operation[e] # "expired" /\ ~(durable /\ exportStopped)
        /\ operation' = IF durable THEN operation ELSE [operation EXCEPT ![e] = loop.note]
        /\ loop' = [loop EXCEPT !.stage = "update"]
     \/ /\ operation[e] = "expired" \/ durable
        /\ loop' = AfterOperation(loop.note)
        /\ UNCHANGED operation
  /\ UNCHANGED <<exportJob, pendingJobs, objects, keyOf>>

\* operations.Update: the in-memory store puts an operation back that expired
\* meanwhile; the PostgreSQL one may fail, before or after the effect.
UpdatesOperation ==
  LET e == loop.job IN
  /\ loop.stage = "update"
  /\ \/ operation' = IF durable /\ operation[e] = "expired" THEN operation
                     ELSE [operation EXCEPT ![e] = loop.note]
     \/ durable /\ UNCHANGED operation
  /\ loop' = AfterOperation(loop.note)
  /\ UNCHANGED <<exportJob, pendingJobs, objects, keyOf>>

\* The select may pick the queue although the context is cancelled as well.
TakesJob ==
  /\ loop.stage = "rest" /\ pendingJobs # <<>>
  /\ SetStatus(Head(pendingJobs), "running", "running")
  /\ pendingJobs' = Tail(pendingJobs)
  /\ UNCHANGED <<operation, objects, keyOf>>

\* processJob's two error branches.
JobFails_KeepsOperation(e) ==
  /\ exportJob' = [exportJob EXCEPT ![e] = "failed"] /\ loop' = Rest
  /\ UNCHANGED <<operation, pendingJobs>>
JobFails(e) ==
  /\ SetStatus(e, "failed", "failed")
  /\ UNCHANGED <<operation, pendingJobs>>

\* "exports/tenants/<tenant>/<time>.zip"
ObjectKey(e) == <<TenantOf[e], second'>>

\* Roles, plans, subscriptions and statements, then the ZIP and its key, named
\* after the time it is made; a cancelled context is noticed between the reads.
FetchData ==
  /\ loop.stage = "fetch"
  /\ second' \in second..LastSecond
  /\ \/ /\ ~exportStopped
        /\ loop' = [loop EXCEPT !.stage = "upload"]
        /\ keyOf' = [keyOf EXCEPT ![loop.job] = ObjectKey(loop.job)]
        /\ UNCHANGED <<exportJob, operation, pendingJobs>>
     \/ JobFails(loop.job) /\ UNCHANGED keyOf
  /\ UNCHANGED objects

Stored(e) == {o \in objects : o[1] # keyOf[e]} \union {<<keyOf[e], e>>}

\* One attempt of PutObject: it is answered; it fails with or without an effect
\* on the store and is tried again, the last one being the result; or a client
\* error, or a cancelled context seen before the next attempt, ends it.
PutObject ==
  LET e == loop.job IN
  /\ loop.stage = "upload"
  /\ \/ /\ objects' = Stored(e) /\ loop' = [loop EXCEPT !.stage = "presign"]
        /\ UNCHANGED <<exportJob, operation, pendingJobs>>
     \/ /\ loop.tries < ExportRetries
        /\ objects' \in {objects, Stored(e)}
        /\ loop' = [loop EXCEPT !.tries = @ + 1]
        /\ UNCHANGED <<exportJob, operation, pendingJobs>>
     \/ objects' \in {objects, Stored(e)} /\ JobFails(e)
  /\ UNCHANGED keyOf

PresignURL ==
  /\ loop.stage = "presign"
  /\ \/ /\ ~exportStopped
        /\ SetStatus(loop.job, "completed", "succeeded")
        /\ UNCHANGED <<operation, pendingJobs>>
     \/ exportStopped /\ JobFails(loop.job)
  /\ UNCHANGED <<objects, keyOf>>

processJob ==
  FetchData \/ ((PutObject \/ PresignURL \/ GetsOperation \/ UpdatesOperation) /\ UNCHANGED second)

processLoop ==
  /\ (TakesJob /\ UNCHANGED second) \/ processJob
  /\ UNCHANGED <<durable, request, jobs, exportStopped>>

\* Stop, and the loop's exit once it sees the cancelled context.
ExportStop ==
  /\ ~exportStopped /\ exportStopped' = TRUE
  /\ UNCHANGED <<durable, second, request, jobs, exportJob, operation, pendingJobs, loop, objects, keyOf>>

ExportNext == CreateJob \/ GetOperation \/ processLoop \/ ExportStop

ExportSpec == ExportInit /\ [][ExportNext]_exportVars

-----------------------------------------------------------------------------
\* What a client is told about its export is true.  A completed job's URL leads
\* to its own bundle, whose hash the result carries, unless the same tenant
\* exported again within the second that names the key.  The operation the client
\* polls is never ahead of the job, which is updated by calls of its own that may
\* fail: it tells success or failure only when the job has ended so.  And it does
\* not stay behind: once processJob is done with the job, the operation tells its
\* outcome or is gone.  Only the PostgreSQL store can miss the update, which leaves
\* the operation where it was.
ExportOutcomeIsTrue ==
  \A e \in Exports :
     /\ exportJob[e] = "completed" =>
          \/ <<keyOf[e], e>> \in objects
          \/ \E o \in Exports \ {e} : /\ TenantOf[o] = TenantOf[e] /\ keyOf[o] = keyOf[e]
                                      /\ <<keyOf[e], o>> \in objects
     /\ operation[e] = "succeeded" => exportJob[e] = "completed"
     /\ operation[e] = "failed" => exportJob[e] = "failed"
     /\ (exportJob[e] \in {"completed", "failed"} /\ ~(loop.job = e /\ loop.stage \in {"get", "update"}))
          => \/ operation[e] \in {"succeeded", "failed", "expired"}
             \/ durable

=============================================================================
