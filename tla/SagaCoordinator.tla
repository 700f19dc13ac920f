-------------------------- MODULE SagaCoordinator --------------------------
(***************************************************************************)
(* The saga coordinator of internal/saga: Execute and Resume run the steps   *)
(* of a saga in order, retry a failing step, and compensate the earlier      *)
(* steps in reverse order when one fails for good.  The saga row and the     *)
(* step results are persisted (store_postgres.go) by calls of their own, so  *)
(* a crash or a failing store separates an effect from its record.           *)
(*                                                                          *)
(* effect is what the steps did to other aggregates.  The saga context is    *)
(* the set of steps that have put a value in it; it is written to the row    *)
(* only by begin and by the last save.                                      *)
(***************************************************************************)
EXTENDS Integers, FiniteSets

CONSTANTS
  N,              \* number of steps
  MaxStepAttempts,    \* RetryPolicy.MaxAttempts; 0 for a step without a policy
  NeedsContext,   \* steps whose Compensate fails without their context value
  MaxCrashes,     \* bound on crashes of the process
  MaxSagaFaults,      \* bound on failing writes to the store
  MaxBegins       \* bound on calls of Execute and Resume

Steps == 1..N

ASSUME SagaConstants ==
  /\ N \in Nat \ {0} /\ MaxStepAttempts \in Nat /\ NeedsContext \subseteq Steps
  /\ MaxCrashes \in Nat /\ MaxSagaFaults \in Nat /\ MaxBegins \in Nat

VARIABLES
  row,       \* saga_instances: status and context
  result,    \* saga_step_results
  effect,    \* the steps whose effect is in force
  sagaPc, step, retries, ctx, done, compFailed,   \* the coordinator's memory
  loose,     \* history: steps whose effect and record were separated, or
             \* whose compensation failed
  crashes, sagaFaults, begins

disk == <<row, result, effect>>
mem  == <<sagaPc, step, retries, ctx, done, compFailed>>
sagaVars == <<row, result, effect, sagaPc, step, retries, ctx, done, compFailed,
          loose, crashes, sagaFaults, begins>>

StepStatus == {"none", "retrying", "completed", "failed", "compensated",
               "compensation_failed"}
Control    == {"idle", "execute", "record", "recordRetry", "recordFailed", "wait",
               "compensate", "recordUndone", "recordStuck", "finish"}

SagaTypeOK ==
  /\ row \in [status : {"none", "running", "completed", "failed", "compensated"},
              ctx : SUBSET Steps]
  /\ result \in [Steps -> StepStatus]
  /\ effect \in SUBSET Steps /\ loose \in SUBSET Steps
  /\ sagaPc \in Control
  /\ step \in 0..(N + 1)
  /\ retries \in 0..MaxStepAttempts
  /\ ctx \in SUBSET Steps /\ done \in SUBSET Steps /\ compFailed \in BOOLEAN
  /\ crashes \in 0..MaxCrashes /\ sagaFaults \in 0..MaxSagaFaults /\ begins \in 0..MaxBegins

SagaInit ==
  /\ row = [status |-> "none", ctx |-> {}]
  /\ result = [i \in Steps |-> "none"]
  /\ effect = {} /\ loose = {}
  /\ sagaPc = "idle" /\ step = 0 /\ retries = 0
  /\ ctx = {} /\ done = {} /\ compFailed = FALSE
  /\ crashes = 0 /\ sagaFaults = 0 /\ begins = 0

-----------------------------------------------------------------------------
(* begin, and runFrom's loop                                               *)

\* runFrom continues with the first step after i that is not done.
GoAfter(i, d) ==
  \E k \in (i + 1)..(N + 1) :
    /\ k \notin d
    /\ \A l \in (i + 1)..(k - 1) : l \in d
    /\ step' = k /\ retries' = 0
    /\ sagaPc' = IF k > N THEN "finish" ELSE "execute"

\* begin: a failing Save ends the call before any step.
Begin(c, d) ==
  /\ sagaPc = "idle" /\ begins < MaxBegins
  /\ begins' = begins + 1
  /\ \/ /\ row' = [status |-> "running", ctx |-> c]
        /\ ctx' = c /\ done' = d /\ compFailed' = FALSE
        /\ GoAfter(0, d)
        /\ UNCHANGED sagaFaults
     \/ /\ sagaFaults < MaxSagaFaults /\ sagaFaults' = sagaFaults + 1
        /\ UNCHANGED <<row, sagaPc, step, retries, ctx, done, compFailed>>
  /\ UNCHANGED <<result, effect, loose, crashes>>

\* Execute, for a saga id that was not used before.
Execute == row.status = "none" /\ Begin({}, {})

\* ListRunning offers the running sagas; steps recorded as completed are skipped.
Resume ==
  row.status = "running" /\ Begin(row.ctx, {i \in Steps : result[i] = "completed"})

-----------------------------------------------------------------------------
(* runStep                                                                 *)

ShouldRetry(n) == n < MaxStepAttempts

\* step.Execute returns nil.
StepSucceeds ==
  /\ sagaPc = "execute"
  /\ effect' = effect \cup {step} /\ ctx' = ctx \cup {step}
  /\ sagaPc' = "record"
  /\ UNCHANGED <<row, result, step, retries, done, compFailed, loose, crashes, sagaFaults, begins>>

\* step.Execute fails without an effect.
StepFails ==
  /\ sagaPc = "execute"
  /\ IF ShouldRetry(retries + 1)
       THEN sagaPc' = "recordRetry" /\ retries' = retries + 1
       ELSE sagaPc' = "recordFailed" /\ UNCHANGED retries
  /\ UNCHANGED <<disk, step, ctx, done, compFailed, loose, crashes, sagaFaults, begins>>

\* SaveStepResult of the step in hand: it is written, or the write fails.
Saved(s) == result' = [result EXCEPT ![step] = s] /\ UNCHANGED sagaFaults
Lost     == sagaFaults < MaxSagaFaults /\ sagaFaults' = sagaFaults + 1 /\ UNCHANGED result

Compensating ==
  /\ sagaPc' = "compensate" /\ step' = step - 1 /\ UNCHANGED retries

\* The return value of SaveStepResult is the return value of runStep.
RecordSuccess ==
  /\ sagaPc = "record"
  /\ \/ Saved("completed") /\ GoAfter(step, done) /\ UNCHANGED loose
     \/ Lost /\ Compensating /\ loose' = loose \cup {step}
  /\ UNCHANGED <<row, effect, ctx, done, compFailed, crashes, begins>>

RecordRetry ==
  /\ sagaPc = "recordRetry"
  /\ \/ Saved("retrying") /\ sagaPc' = "wait" /\ UNCHANGED <<step, retries>>
     \/ Lost /\ Compensating
  /\ UNCHANGED <<row, effect, ctx, done, compFailed, loose, crashes, begins>>

RecordFailure ==
  /\ sagaPc = "recordFailed"
  /\ Saved("failed") \/ Lost
  /\ Compensating
  /\ UNCHANGED <<row, effect, ctx, done, compFailed, loose, crashes, begins>>

\* The delay passes, or the context is cancelled during it.
Wait ==
  /\ sagaPc = "wait"
  /\ \/ sagaPc' = "execute" /\ UNCHANGED <<step, retries>>
     \/ Compensating
  /\ UNCHANGED <<disk, ctx, done, compFailed, loose, crashes, sagaFaults, begins>>

-----------------------------------------------------------------------------
(* failAndCompensate                                                       *)

\* Compensate returns nil; a step without Compensate has nothing to undo.
StepCompensated ==
  /\ sagaPc = "compensate" /\ step > 0
  /\ step \in NeedsContext => step \in ctx
  /\ effect' = effect \ {step}
  /\ sagaPc' = "recordUndone"
  /\ UNCHANGED <<row, result, step, retries, ctx, done, compFailed, loose, crashes, sagaFaults, begins>>

CompensationFails ==
  /\ sagaPc = "compensate" /\ step > 0
  /\ sagaPc' = "recordStuck" /\ compFailed' = TRUE
  /\ loose' = loose \cup {step}
  /\ UNCHANGED <<disk, step, retries, ctx, done, crashes, sagaFaults, begins>>

\* Errors of these writes are dropped.
RecordUndone_FromFirst ==
  /\ sagaPc = "recordUndone"
  /\ (Saved("compensated") /\ UNCHANGED loose) \/ (Lost /\ loose' = loose \cup {step})
  /\ sagaPc' = "finish" /\ step' = step - 1
  /\ UNCHANGED <<row, effect, retries, ctx, done, compFailed, crashes, begins>>
RecordUndone ==
  /\ sagaPc = "recordUndone"
  /\ (Saved("compensated") /\ UNCHANGED loose) \/ (Lost /\ loose' = loose \cup {step})
  /\ sagaPc' = "compensate" /\ step' = step - 1
  /\ UNCHANGED <<row, effect, retries, ctx, done, compFailed, crashes, begins>>

RecordStuck ==
  /\ sagaPc = "recordStuck"
  /\ Saved("compensation_failed") \/ Lost
  /\ sagaPc' = "finish"
  /\ UNCHANGED <<row, effect, step, retries, ctx, done, compFailed, loose, crashes, begins>>

CompensationEnds ==
  /\ sagaPc = "compensate" /\ step = 0
  /\ sagaPc' = "finish"
  /\ UNCHANGED <<disk, step, retries, ctx, done, compFailed, loose, crashes, sagaFaults, begins>>

\* The last save.  runFrom returned nil exactly when it ran past the last step.
Finish ==
  /\ sagaPc = "finish"
  /\ \/ /\ row' = [status |-> IF step > N THEN "completed"
                              ELSE IF compFailed THEN "failed" ELSE "compensated",
                   ctx |-> ctx]
        /\ UNCHANGED sagaFaults
     \/ sagaFaults < MaxSagaFaults /\ sagaFaults' = sagaFaults + 1 /\ UNCHANGED row
  /\ sagaPc' = "idle"
  /\ UNCHANGED <<result, effect, step, retries, ctx, done, compFailed, loose, crashes, begins>>

-----------------------------------------------------------------------------
\* The process dies; what it had not written is lost.
SagaCrash ==
  /\ sagaPc # "idle" /\ crashes < MaxCrashes
  /\ crashes' = crashes + 1
  /\ loose' = IF sagaPc \in {"record", "recordUndone"} THEN loose \cup {step} ELSE loose
  /\ sagaPc' = "idle" /\ step' = 0 /\ retries' = 0
  /\ ctx' = {} /\ done' = {} /\ compFailed' = FALSE
  /\ UNCHANGED <<disk, sagaFaults, begins>>

Run ==
  \/ StepSucceeds \/ StepFails \/ RecordSuccess \/ RecordRetry \/ RecordFailure
  \/ Wait \/ StepCompensated \/ CompensationFails \/ RecordUndone \/ RecordStuck
  \/ CompensationEnds \/ Finish

SagaNext == Execute \/ Resume \/ Run \/ SagaCrash

SagaSpec == SagaInit /\ [][SagaNext]_sagaVars

-----------------------------------------------------------------------------
(* The inductive invariant                                                 *)

Forward == {"execute", "record", "recordRetry", "recordFailed", "wait"}
Undoing == {"compensate", "recordUndone", "recordStuck"}

\* The row says running while a call is under way.
Active == sagaPc # "idle" => row.status = "running"

Fresh == row.status = "none" => effect = {} /\ \A i \in Steps : result[i] = "none"

\* While steps run, done is what is recorded from the current step on.
Progress ==
  sagaPc \in Forward =>
    /\ step \in Steps \ done
    /\ \A i \in Steps : i < step => result[i] = "completed"
    /\ \A i \in Steps : i >= step => (result[i] = "completed" <=> i \in done)

AtEnd == sagaPc = "finish" /\ step > N => \A i \in Steps : result[i] = "completed"

\* What is recorded is in force and what is in force is recorded, except for
\* the step in hand and the loose ones.
Tracked ==
  /\ sagaPc = "record" => step \in effect
  /\ \A i \in Steps \ loose :
       /\ result[i] = "completed" /\ ~(sagaPc = "recordUndone" /\ i = step) => i \in effect
       /\ i \in effect /\ ~(sagaPc = "record" /\ i = step) => result[i] = "completed"

\* A recorded step that is not loose has only recorded steps before it.
Prefix ==
  \A i, j \in Steps :
    i < j /\ j \notin loose /\ result[j] = "completed" => result[i] = "completed"

\* Compensation has undone what is above the current step.
Undo ==
  /\ sagaPc \in Undoing => /\ step \in 0..N
                           /\ \A i \in Steps \ loose : i > step => result[i] # "completed"
  /\ sagaPc \in {"recordUndone", "recordStuck"} => step \in Steps
  /\ sagaPc = "recordUndone" => step \notin effect
  /\ sagaPc = "recordStuck" => compFailed /\ step \in loose
  /\ sagaPc = "finish" /\ step <= N /\ ~compFailed => effect \subseteq loose

-----------------------------------------------------------------------------
(* Properties                                                              *)

\* A step runs only when every earlier step is recorded as completed, whatever
\* writes were lost and wherever an earlier run crashed: runFrom skips recorded
\* steps only, and runStep returns the error of SaveStepResult.
EarlierStepsRecorded ==
  sagaPc \in {"execute", "record", "wait"} =>
    \A i \in Steps : i < step => result[i] = "completed"

\* A saga saved as completed has the effect of every step in force, and one
\* saved as compensated of none, through crashes, resumptions and lost writes;
\* the exceptions are the steps whose effect and record were separated or whose
\* compensation failed.
TerminalIsAllOrNothing ==
  /\ row.status = "completed" => Steps \ effect \subseteq loose
  /\ row.status = "compensated" => effect \subseteq loose

\* A saga resumed after a crash that ends completed has every effect in force.
\* A compensation that was not recorded is skipped as completed.
CompletedHasEffects == row.status = "completed" => effect = Steps

SagaIInv ==
  /\ SagaTypeOK /\ Active /\ Fresh /\ Progress /\ AtEnd
  /\ Tracked /\ Prefix /\ Undo /\ TerminalIsAllOrNothing

=============================================================================
