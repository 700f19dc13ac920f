----------------------- MODULE SagaCoordinatorProofs -----------------------
(***************************************************************************)
(* Proofs about SagaCoordinator, for any number of steps, crashes, failing  *)
(* writes and resumptions.                                                 *)
(***************************************************************************)
EXTENDS SagaCoordinator, TLAPS

\* A saga that was never executed satisfies the invariant.
LEMMA InitInv == SagaInit => SagaIInv
<1> SUFFICES ASSUME SagaInit PROVE SagaIInv
  OBVIOUS
<1>1. SagaTypeOK
  <2>1. row \in [status : {"none", "running", "completed", "failed", "compensated"},
               ctx : SUBSET Steps]
    BY DEF SagaInit
  <2>2. result \in [Steps -> StepStatus] /\ effect \in SUBSET Steps /\ loose \in SUBSET Steps
    BY DEF SagaInit, StepStatus
  <2>3. sagaPc \in Control /\ ctx \in SUBSET Steps /\ done \in SUBSET Steps /\ compFailed \in BOOLEAN
    BY Zenon DEF SagaInit, Control
  <2>4. /\ step \in 0..(N + 1) /\ retries \in 0..MaxStepAttempts
        /\ crashes \in 0..MaxCrashes /\ sagaFaults \in 0..MaxSagaFaults /\ begins \in 0..MaxBegins
    BY SagaConstants DEF SagaInit
  <2> QED BY <2>1, <2>2, <2>3, <2>4 DEF SagaTypeOK
<1>2. Active /\ Fresh /\ Progress /\ AtEnd /\ Tracked /\ Prefix /\ Undo /\ TerminalIsAllOrNothing
  BY DEF SagaInit, Active, Fresh, Progress, AtEnd, Tracked, Prefix, Undo, TerminalIsAllOrNothing,
     Forward, Undoing
<1> QED BY <1>1, <1>2 DEF SagaIInv

\* Every step of the coordinator, and a crash, preserves the invariant.
LEMMA NextInv == SagaIInv /\ [SagaNext]_sagaVars => SagaIInv'
<1> SUFFICES ASSUME SagaIInv, [SagaNext]_sagaVars PROVE SagaIInv'
  OBVIOUS
<1>1. CASE Execute
  <2>1. SagaTypeOK'
    <3>1. row' \in [status : {"none", "running", "completed", "failed", "compensated"},
               ctx : SUBSET Steps]
      BY <1>1, SagaConstants DEF SagaIInv, Execute, Begin, GoAfter, SagaTypeOK, Steps
    <3>2. result' \in [Steps -> StepStatus]
      BY <1>1, SagaConstants DEF SagaIInv, Execute, Begin, GoAfter, SagaTypeOK, Progress,
         Undo, Forward, Undoing, Steps, StepStatus
    <3>3. effect' \in SUBSET Steps /\ loose' \in SUBSET Steps
      BY <1>1, SagaConstants DEF SagaIInv, Execute, Begin, GoAfter, SagaTypeOK, Progress,
         Undo, Forward, Undoing, Steps
    <3>4. sagaPc' \in Control
      BY <1>1, SagaConstants DEF SagaIInv, Execute, Begin, GoAfter, SagaTypeOK, Control
    <3>5. step' \in 0..(N + 1)
      BY <1>1, SagaConstants DEF SagaIInv, Execute, Begin, GoAfter, SagaTypeOK, Progress,
         Undo, Forward, Undoing, Steps
    <3>6. retries' \in 0..MaxStepAttempts
      BY <1>1, SagaConstants DEF SagaIInv, Execute, Begin, GoAfter, SagaTypeOK
    <3>7. ctx' \in SUBSET Steps /\ done' \in SUBSET Steps /\ compFailed' \in BOOLEAN
      BY Zenon, <1>1, SagaConstants DEF SagaIInv, Execute, Begin, GoAfter, SagaTypeOK, Steps
    <3>8. crashes' \in 0..MaxCrashes /\ sagaFaults' \in 0..MaxSagaFaults /\ begins' \in 0..MaxBegins
      BY <1>1, SagaConstants DEF SagaIInv, Execute, Begin, GoAfter, SagaTypeOK
    <3> QED BY <3>1, <3>2, <3>3, <3>4, <3>5, <3>6, <3>7, <3>8 DEF SagaTypeOK
  <2>2. Active'
    BY <1>1, SagaConstants DEF SagaIInv, Execute, Begin, GoAfter, Active, SagaTypeOK
  <2>3. Fresh'
    BY <1>1, SagaConstants DEF SagaIInv, Execute, Begin, GoAfter, Fresh, Active,
       SagaTypeOK, Steps
  <2>4. Progress'
    BY <1>1, SagaConstants DEF SagaIInv, Execute, Begin, GoAfter, Progress, SagaTypeOK,
       Fresh, Forward, Steps, StepStatus
  <2>5. AtEnd'
    BY <1>1, SagaConstants DEF SagaIInv, Execute, Begin, GoAfter, AtEnd, Progress,
       SagaTypeOK, Fresh, Undo, Forward, Undoing, Steps
  <2>6. Tracked'
    BY <1>1, SagaConstants DEF SagaIInv, Execute, Begin, GoAfter, Tracked, Progress,
       Prefix, Undo, SagaTypeOK, Fresh, Active, Forward, Undoing, Steps, StepStatus
  <2>7. Prefix'
    BY <1>1, SagaConstants DEF SagaIInv, Execute, Begin, GoAfter, Prefix, Progress,
       Undo, SagaTypeOK, Forward, Undoing, Steps, StepStatus
  <2>8. Undo'
    BY <1>1, SagaConstants DEF SagaIInv, Execute, Begin, GoAfter, Undo, Progress,
       Prefix, Tracked, AtEnd, SagaTypeOK, Forward, Undoing, Steps, StepStatus
  <2>9. TerminalIsAllOrNothing'
    BY <1>1, SagaConstants DEF SagaIInv, Execute, Begin, GoAfter,
       TerminalIsAllOrNothing, Active, AtEnd, Tracked, Undo, SagaTypeOK, Steps
  <2> QED BY <2>1, <2>2, <2>3, <2>4, <2>5, <2>6, <2>7, <2>8, <2>9 DEF SagaIInv
<1>2. CASE Resume
  <2>1. SagaTypeOK'
    <3>1. row' \in [status : {"none", "running", "completed", "failed", "compensated"},
               ctx : SUBSET Steps]
      BY <1>2, SagaConstants DEF SagaIInv, Resume, Begin, GoAfter, SagaTypeOK, Steps
    <3>2. result' \in [Steps -> StepStatus]
      BY <1>2, SagaConstants DEF SagaIInv, Resume, Begin, GoAfter, SagaTypeOK, Progress,
         Undo, Forward, Undoing, Steps, StepStatus
    <3>3. effect' \in SUBSET Steps /\ loose' \in SUBSET Steps
      BY <1>2, SagaConstants DEF SagaIInv, Resume, Begin, GoAfter, SagaTypeOK, Progress,
         Undo, Forward, Undoing, Steps
    <3>4. sagaPc' \in Control
      BY <1>2, SagaConstants DEF SagaIInv, Resume, Begin, GoAfter, SagaTypeOK, Control
    <3>5. step' \in 0..(N + 1)
      BY <1>2, SagaConstants DEF SagaIInv, Resume, Begin, GoAfter, SagaTypeOK, Progress,
         Undo, Forward, Undoing, Steps
    <3>6. retries' \in 0..MaxStepAttempts
      BY <1>2, SagaConstants DEF SagaIInv, Resume, Begin, GoAfter, SagaTypeOK
    <3>7. ctx' \in SUBSET Steps /\ done' \in SUBSET Steps /\ compFailed' \in BOOLEAN
      BY Zenon, <1>2, SagaConstants DEF SagaIInv, Resume, Begin, GoAfter, SagaTypeOK, Steps
    <3>8. crashes' \in 0..MaxCrashes /\ sagaFaults' \in 0..MaxSagaFaults /\ begins' \in 0..MaxBegins
      BY <1>2, SagaConstants DEF SagaIInv, Resume, Begin, GoAfter, SagaTypeOK
    <3> QED BY <3>1, <3>2, <3>3, <3>4, <3>5, <3>6, <3>7, <3>8 DEF SagaTypeOK
  <2>2. Active'
    BY <1>2, SagaConstants DEF SagaIInv, Resume, Begin, GoAfter, Active, SagaTypeOK
  <2>3. Fresh'
    BY <1>2, SagaConstants DEF SagaIInv, Resume, Begin, GoAfter, Fresh, Active,
       SagaTypeOK, Steps
  <2>4. Progress'
    BY <1>2, SagaConstants DEF SagaIInv, Resume, Begin, GoAfter, Progress, SagaTypeOK,
       Fresh, Forward, Steps, StepStatus
  <2>5. AtEnd'
    BY <1>2, SagaConstants DEF SagaIInv, Resume, Begin, GoAfter, AtEnd, Progress,
       SagaTypeOK, Fresh, Undo, Forward, Undoing, Steps
  <2>6. Tracked'
    BY <1>2, SagaConstants DEF SagaIInv, Resume, Begin, GoAfter, Tracked, Progress,
       Prefix, Undo, SagaTypeOK, Fresh, Active, Forward, Undoing, Steps, StepStatus
  <2>7. Prefix'
    BY <1>2, SagaConstants DEF SagaIInv, Resume, Begin, GoAfter, Prefix, Progress,
       Undo, SagaTypeOK, Forward, Undoing, Steps, StepStatus
  <2>8. Undo'
    BY <1>2, SagaConstants DEF SagaIInv, Resume, Begin, GoAfter, Undo, Progress,
       Prefix, Tracked, AtEnd, SagaTypeOK, Forward, Undoing, Steps, StepStatus
  <2>9. TerminalIsAllOrNothing'
    BY <1>2, SagaConstants DEF SagaIInv, Resume, Begin, GoAfter,
       TerminalIsAllOrNothing, Active, AtEnd, Tracked, Undo, SagaTypeOK, Steps
  <2> QED BY <2>1, <2>2, <2>3, <2>4, <2>5, <2>6, <2>7, <2>8, <2>9 DEF SagaIInv
<1>3. CASE StepSucceeds
  <2>1. SagaTypeOK'
    BY <1>3, SagaConstants DEF SagaIInv, StepSucceeds, SagaTypeOK, Progress, Undo,
       Control, StepStatus, Forward, Undoing, Steps
  <2>2. Active'
    BY <1>3, SagaConstants DEF SagaIInv, StepSucceeds, Active, SagaTypeOK
  <2>3. Fresh'
    BY <1>3, SagaConstants DEF SagaIInv, StepSucceeds, Fresh, Active, SagaTypeOK, Steps
  <2>4. Progress'
    BY <1>3, SagaConstants DEF SagaIInv, StepSucceeds, Progress, SagaTypeOK, Fresh,
       Forward, Steps, StepStatus
  <2>5. AtEnd'
    BY <1>3, SagaConstants DEF SagaIInv, StepSucceeds, AtEnd, Progress, SagaTypeOK, Fresh,
       Undo, Forward, Undoing, Steps
  <2>6. Tracked'
    BY <1>3, SagaConstants DEF SagaIInv, StepSucceeds, Tracked, Progress, Prefix,
       Undo, SagaTypeOK, Fresh, Active, Forward, Undoing, Steps, StepStatus
  <2>7. Prefix'
    BY <1>3, SagaConstants DEF SagaIInv, StepSucceeds, Prefix, Progress, Undo, SagaTypeOK,
       Forward, Undoing, Steps, StepStatus
  <2>8. Undo'
    BY <1>3, SagaConstants DEF SagaIInv, StepSucceeds, Undo, Progress, Prefix,
       Tracked, AtEnd, SagaTypeOK, Forward, Undoing, Steps, StepStatus
  <2>9. TerminalIsAllOrNothing'
    BY <1>3, SagaConstants DEF SagaIInv, StepSucceeds, TerminalIsAllOrNothing, Active,
       AtEnd, Tracked, Undo, SagaTypeOK, Steps
  <2> QED BY <2>1, <2>2, <2>3, <2>4, <2>5, <2>6, <2>7, <2>8, <2>9 DEF SagaIInv
<1>4. CASE StepFails
  <2>1. SagaTypeOK'
    BY <1>4, SagaConstants DEF SagaIInv, StepFails, ShouldRetry, disk, SagaTypeOK,
       Progress, Undo, Control, StepStatus, Forward, Undoing, Steps
  <2>2. Active'
    BY <1>4, SagaConstants DEF SagaIInv, StepFails, ShouldRetry, disk, Active, SagaTypeOK
  <2>3. Fresh'
    BY <1>4, SagaConstants DEF SagaIInv, StepFails, ShouldRetry, disk, Fresh, Active,
       SagaTypeOK, Steps
  <2>4. Progress'
    BY <1>4, SagaConstants DEF SagaIInv, StepFails, ShouldRetry, disk, Progress,
       SagaTypeOK, Fresh, Forward, Steps, StepStatus
  <2>5. AtEnd'
    BY <1>4, SagaConstants DEF SagaIInv, StepFails, ShouldRetry, disk, AtEnd,
       Progress, SagaTypeOK, Fresh, Undo, Forward, Undoing, Steps
  <2>6. Tracked'
    BY <1>4, SagaConstants DEF SagaIInv, StepFails, ShouldRetry, disk, Tracked,
       Progress, Prefix, Undo, SagaTypeOK, Fresh, Active, Forward, Undoing, Steps,
       StepStatus
  <2>7. Prefix'
    BY <1>4, SagaConstants DEF SagaIInv, StepFails, ShouldRetry, disk, Prefix,
       Progress, Undo, SagaTypeOK, Forward, Undoing, Steps, StepStatus
  <2>8. Undo'
    BY <1>4, SagaConstants DEF SagaIInv, StepFails, ShouldRetry, disk, Undo, Progress,
       Prefix, Tracked, AtEnd, SagaTypeOK, Forward, Undoing, Steps, StepStatus
  <2>9. TerminalIsAllOrNothing'
    BY <1>4, SagaConstants DEF SagaIInv, StepFails, ShouldRetry, disk,
       TerminalIsAllOrNothing, Active, AtEnd, Tracked, Undo, SagaTypeOK, Steps
  <2> QED BY <2>1, <2>2, <2>3, <2>4, <2>5, <2>6, <2>7, <2>8, <2>9 DEF SagaIInv
<1>5. CASE RecordSuccess
  <2>1. SagaTypeOK'
    <3>1. row' \in [status : {"none", "running", "completed", "failed", "compensated"},
               ctx : SUBSET Steps]
      BY <1>5, SagaConstants DEF SagaIInv, RecordSuccess, Saved, Lost, Compensating,
         GoAfter, SagaTypeOK, Steps
    <3>2. result' \in [Steps -> StepStatus]
      BY <1>5, SagaConstants DEF SagaIInv, RecordSuccess, Saved, Lost, Compensating,
         GoAfter, SagaTypeOK, Progress, Undo, Forward, Undoing, Steps, StepStatus
    <3>3. effect' \in SUBSET Steps /\ loose' \in SUBSET Steps
      BY Zenon, <1>5, SagaConstants DEF SagaIInv, RecordSuccess, Saved, Lost, Compensating,
         GoAfter, SagaTypeOK, Progress, Undo, Forward, Undoing, Steps
    <3>4. sagaPc' \in Control
      BY <1>5, SagaConstants DEF SagaIInv, RecordSuccess, Saved, Lost, Compensating,
         GoAfter, SagaTypeOK, Control
    <3>5. step' \in 0..(N + 1)
      BY <1>5, SagaConstants DEF SagaIInv, RecordSuccess, Saved, Lost, Compensating,
         GoAfter, SagaTypeOK, Progress, Undo, Forward, Undoing, Steps
    <3>6. retries' \in 0..MaxStepAttempts
      BY <1>5, SagaConstants DEF SagaIInv, RecordSuccess, Saved, Lost, Compensating,
         GoAfter, SagaTypeOK
    <3>7. ctx' \in SUBSET Steps /\ done' \in SUBSET Steps /\ compFailed' \in BOOLEAN
      BY <1>5, SagaConstants DEF SagaIInv, RecordSuccess, Saved, Lost, Compensating,
         GoAfter, SagaTypeOK, Steps
    <3>8. crashes' \in 0..MaxCrashes /\ sagaFaults' \in 0..MaxSagaFaults /\ begins' \in 0..MaxBegins
      BY <1>5, SagaConstants DEF SagaIInv, RecordSuccess, Saved, Lost, Compensating,
         GoAfter, SagaTypeOK
    <3> QED BY <3>1, <3>2, <3>3, <3>4, <3>5, <3>6, <3>7, <3>8 DEF SagaTypeOK
  <2>2. Active'
    BY <1>5, SagaConstants DEF SagaIInv, RecordSuccess, Saved, Lost, Compensating,
       GoAfter, Active, SagaTypeOK
  <2>3. Fresh'
    BY <1>5, SagaConstants DEF SagaIInv, RecordSuccess, Saved, Lost, Compensating,
       GoAfter, Fresh, Active, SagaTypeOK, Steps
  <2>4. Progress'
    BY <1>5, SagaConstants DEF SagaIInv, RecordSuccess, Saved, Lost, Compensating,
       GoAfter, Progress, SagaTypeOK, Fresh, Forward, Steps, StepStatus
  <2>5. AtEnd'
    BY <1>5, SagaConstants DEF SagaIInv, RecordSuccess, Saved, Lost, Compensating,
       GoAfter, AtEnd, Progress, SagaTypeOK, Fresh, Undo, Forward, Undoing, Steps
  <2>6. Tracked'
    <3>0. result[step] # "completed" /\ step \in Steps
      BY <1>5 DEF SagaIInv, Progress, RecordSuccess, Forward, Steps
    <3>1. CASE Saved("completed") /\ GoAfter(step, done) /\ UNCHANGED loose
      <4>1. sagaPc' \in {"execute", "finish"}
        BY <3>1 DEF GoAfter
      <4>2. /\ effect' = effect /\ loose' = loose
            /\ result' = [result EXCEPT ![step] = "completed"]
        BY <1>5, <3>1 DEF RecordSuccess, Saved
      <4>3. sagaPc = "record" /\ result \in [Steps -> StepStatus] /\ Tracked
        BY <1>5 DEF SagaIInv, SagaTypeOK, RecordSuccess
      <4>4. step \in effect
        BY <1>5 DEF SagaIInv, Tracked, RecordSuccess
      <4> QED BY <3>0, <4>1, <4>2, <4>3, <4>4 DEF Tracked
    <3>2. CASE Lost /\ Compensating /\ loose' = loose \cup {step}
      BY <1>5, <3>2, SagaConstants DEF SagaIInv, RecordSuccess, Lost, Compensating,
         Tracked, Progress, SagaTypeOK, Forward, Steps
    <3> QED BY <1>5, <3>1, <3>2 DEF RecordSuccess
  <2>7. Prefix'
    BY <1>5, SagaConstants DEF SagaIInv, RecordSuccess, Saved, Lost, Compensating,
       GoAfter, Prefix, Progress, Undo, SagaTypeOK, Forward, Undoing, Steps, StepStatus
  <2>8. Undo'
    BY <1>5, SagaConstants DEF SagaIInv, RecordSuccess, Saved, Lost, Compensating,
       GoAfter, Undo, Progress, Prefix, Tracked, AtEnd, SagaTypeOK, Forward, Undoing, Steps,
       StepStatus
  <2>9. TerminalIsAllOrNothing'
    BY <1>5, SagaConstants DEF SagaIInv, RecordSuccess, Saved, Lost, Compensating,
       GoAfter, TerminalIsAllOrNothing, Active, AtEnd, Tracked, Undo, SagaTypeOK, Steps
  <2> QED BY <2>1, <2>2, <2>3, <2>4, <2>5, <2>6, <2>7, <2>8, <2>9 DEF SagaIInv
<1>6. CASE RecordRetry
  <2>1. SagaTypeOK'
    BY <1>6, SagaConstants DEF SagaIInv, RecordRetry, Saved, Lost, Compensating,
       SagaTypeOK, Progress, Undo, Control, StepStatus, Forward, Undoing, Steps
  <2>2. Active'
    BY <1>6, SagaConstants DEF SagaIInv, RecordRetry, Saved, Lost, Compensating,
       Active, SagaTypeOK
  <2>3. Fresh'
    BY <1>6, SagaConstants DEF SagaIInv, RecordRetry, Saved, Lost, Compensating,
       Fresh, Active, SagaTypeOK, Steps
  <2>4. Progress'
    BY <1>6, SagaConstants DEF SagaIInv, RecordRetry, Saved, Lost, Compensating,
       Progress, SagaTypeOK, Fresh, Forward, Steps, StepStatus
  <2>5. AtEnd'
    BY <1>6, SagaConstants DEF SagaIInv, RecordRetry, Saved, Lost, Compensating,
       AtEnd, Progress, SagaTypeOK, Fresh, Undo, Forward, Undoing, Steps
  <2>6. Tracked'
    BY <1>6, SagaConstants DEF SagaIInv, RecordRetry, Saved, Lost, Compensating,
       Tracked, Progress, Prefix, Undo, SagaTypeOK, Fresh, Active, Forward, Undoing, Steps,
       StepStatus
  <2>7. Prefix'
    BY <1>6, SagaConstants DEF SagaIInv, RecordRetry, Saved, Lost, Compensating,
       Prefix, Progress, Undo, SagaTypeOK, Forward, Undoing, Steps, StepStatus
  <2>8. Undo'
    BY <1>6, SagaConstants DEF SagaIInv, RecordRetry, Saved, Lost, Compensating, Undo,
       Progress, Prefix, Tracked, AtEnd, SagaTypeOK, Forward, Undoing, Steps, StepStatus
  <2>9. TerminalIsAllOrNothing'
    BY <1>6, SagaConstants DEF SagaIInv, RecordRetry, Saved, Lost, Compensating,
       TerminalIsAllOrNothing, Active, AtEnd, Tracked, Undo, SagaTypeOK, Steps
  <2> QED BY <2>1, <2>2, <2>3, <2>4, <2>5, <2>6, <2>7, <2>8, <2>9 DEF SagaIInv
<1>7. CASE RecordFailure
  <2>1. SagaTypeOK'
    BY <1>7, SagaConstants DEF SagaIInv, RecordFailure, Saved, Lost, Compensating,
       SagaTypeOK, Progress, Undo, Control, StepStatus, Forward, Undoing, Steps
  <2>2. Active'
    BY <1>7, SagaConstants DEF SagaIInv, RecordFailure, Saved, Lost, Compensating,
       Active, SagaTypeOK
  <2>3. Fresh'
    BY <1>7, SagaConstants DEF SagaIInv, RecordFailure, Saved, Lost, Compensating,
       Fresh, Active, SagaTypeOK, Steps
  <2>4. Progress'
    BY <1>7, SagaConstants DEF SagaIInv, RecordFailure, Saved, Lost, Compensating,
       Progress, SagaTypeOK, Fresh, Forward, Steps, StepStatus
  <2>5. AtEnd'
    BY <1>7, SagaConstants DEF SagaIInv, RecordFailure, Saved, Lost, Compensating,
       AtEnd, Progress, SagaTypeOK, Fresh, Undo, Forward, Undoing, Steps
  <2>6. Tracked'
    BY <1>7, SagaConstants DEF SagaIInv, RecordFailure, Saved, Lost, Compensating,
       Tracked, Progress, Prefix, Undo, SagaTypeOK, Fresh, Active, Forward, Undoing, Steps,
       StepStatus
  <2>7. Prefix'
    BY <1>7, SagaConstants DEF SagaIInv, RecordFailure, Saved, Lost, Compensating,
       Prefix, Progress, Undo, SagaTypeOK, Forward, Undoing, Steps, StepStatus
  <2>8. Undo'
    BY <1>7, SagaConstants DEF SagaIInv, RecordFailure, Saved, Lost, Compensating,
       Undo, Progress, Prefix, Tracked, AtEnd, SagaTypeOK, Forward, Undoing, Steps,
       StepStatus
  <2>9. TerminalIsAllOrNothing'
    BY <1>7, SagaConstants DEF SagaIInv, RecordFailure, Saved, Lost, Compensating,
       TerminalIsAllOrNothing, Active, AtEnd, Tracked, Undo, SagaTypeOK, Steps
  <2> QED BY <2>1, <2>2, <2>3, <2>4, <2>5, <2>6, <2>7, <2>8, <2>9 DEF SagaIInv
<1>8. CASE Wait
  <2>1. SagaTypeOK'
    BY <1>8, SagaConstants DEF SagaIInv, Wait, Compensating, disk, SagaTypeOK, Progress,
       Undo, Control, StepStatus, Forward, Undoing, Steps
  <2>2. Active'
    BY <1>8, SagaConstants DEF SagaIInv, Wait, Compensating, disk, Active, SagaTypeOK
  <2>3. Fresh'
    BY <1>8, SagaConstants DEF SagaIInv, Wait, Compensating, disk, Fresh, Active,
       SagaTypeOK, Steps
  <2>4. Progress'
    BY <1>8, SagaConstants DEF SagaIInv, Wait, Compensating, disk, Progress, SagaTypeOK,
       Fresh, Forward, Steps, StepStatus
  <2>5. AtEnd'
    BY <1>8, SagaConstants DEF SagaIInv, Wait, Compensating, disk, AtEnd, Progress,
       SagaTypeOK, Fresh, Undo, Forward, Undoing, Steps
  <2>6. Tracked'
    BY <1>8, SagaConstants DEF SagaIInv, Wait, Compensating, disk, Tracked, Progress,
       Prefix, Undo, SagaTypeOK, Fresh, Active, Forward, Undoing, Steps, StepStatus
  <2>7. Prefix'
    BY <1>8, SagaConstants DEF SagaIInv, Wait, Compensating, disk, Prefix, Progress,
       Undo, SagaTypeOK, Forward, Undoing, Steps, StepStatus
  <2>8. Undo'
    BY <1>8, SagaConstants DEF SagaIInv, Wait, Compensating, disk, Undo, Progress,
       Prefix, Tracked, AtEnd, SagaTypeOK, Forward, Undoing, Steps, StepStatus
  <2>9. TerminalIsAllOrNothing'
    BY <1>8, SagaConstants DEF SagaIInv, Wait, Compensating, disk,
       TerminalIsAllOrNothing, Active, AtEnd, Tracked, Undo, SagaTypeOK, Steps
  <2> QED BY <2>1, <2>2, <2>3, <2>4, <2>5, <2>6, <2>7, <2>8, <2>9 DEF SagaIInv
<1>9. CASE StepCompensated
  <2>1. SagaTypeOK'
    BY <1>9, SagaConstants DEF SagaIInv, StepCompensated, SagaTypeOK, Progress, Undo,
       Control, StepStatus, Forward, Undoing, Steps
  <2>2. Active'
    BY <1>9, SagaConstants DEF SagaIInv, StepCompensated, Active, SagaTypeOK
  <2>3. Fresh'
    BY <1>9, SagaConstants DEF SagaIInv, StepCompensated, Fresh, Active, SagaTypeOK, Steps
  <2>4. Progress'
    BY <1>9, SagaConstants DEF SagaIInv, StepCompensated, Progress, SagaTypeOK, Fresh,
       Forward, Steps, StepStatus
  <2>5. AtEnd'
    BY <1>9, SagaConstants DEF SagaIInv, StepCompensated, AtEnd, Progress, SagaTypeOK,
       Fresh, Undo, Forward, Undoing, Steps
  <2>6. Tracked'
    BY <1>9, SagaConstants DEF SagaIInv, StepCompensated, Tracked, Progress, Prefix,
       Undo, SagaTypeOK, Fresh, Active, Forward, Undoing, Steps, StepStatus
  <2>7. Prefix'
    BY <1>9, SagaConstants DEF SagaIInv, StepCompensated, Prefix, Progress, Undo,
       SagaTypeOK, Forward, Undoing, Steps, StepStatus
  <2>8. Undo'
    BY <1>9, SagaConstants DEF SagaIInv, StepCompensated, Undo, Progress, Prefix,
       Tracked, AtEnd, SagaTypeOK, Forward, Undoing, Steps, StepStatus
  <2>9. TerminalIsAllOrNothing'
    BY <1>9, SagaConstants DEF SagaIInv, StepCompensated, TerminalIsAllOrNothing,
       Active, AtEnd, Tracked, Undo, SagaTypeOK, Steps
  <2> QED BY <2>1, <2>2, <2>3, <2>4, <2>5, <2>6, <2>7, <2>8, <2>9 DEF SagaIInv
<1>10. CASE CompensationFails
  <2>1. SagaTypeOK'
    BY <1>10, SagaConstants DEF SagaIInv, CompensationFails, disk, SagaTypeOK, Progress,
       Undo, Control, StepStatus, Forward, Undoing, Steps
  <2>2. Active'
    BY <1>10, SagaConstants DEF SagaIInv, CompensationFails, disk, Active, SagaTypeOK
  <2>3. Fresh'
    BY <1>10, SagaConstants DEF SagaIInv, CompensationFails, disk, Fresh, Active,
       SagaTypeOK, Steps
  <2>4. Progress'
    BY <1>10, SagaConstants DEF SagaIInv, CompensationFails, disk, Progress, SagaTypeOK,
       Fresh, Forward, Steps, StepStatus
  <2>5. AtEnd'
    BY <1>10, SagaConstants DEF SagaIInv, CompensationFails, disk, AtEnd, Progress,
       SagaTypeOK, Fresh, Undo, Forward, Undoing, Steps
  <2>6. Tracked'
    BY <1>10, SagaConstants DEF SagaIInv, CompensationFails, disk, Tracked, Progress,
       Prefix, Undo, SagaTypeOK, Fresh, Active, Forward, Undoing, Steps, StepStatus
  <2>7. Prefix'
    BY <1>10, SagaConstants DEF SagaIInv, CompensationFails, disk, Prefix, Progress,
       Undo, SagaTypeOK, Forward, Undoing, Steps, StepStatus
  <2>8. Undo'
    BY <1>10, SagaConstants DEF SagaIInv, CompensationFails, disk, Undo, Progress,
       Prefix, Tracked, AtEnd, SagaTypeOK, Forward, Undoing, Steps, StepStatus
  <2>9. TerminalIsAllOrNothing'
    BY <1>10, SagaConstants DEF SagaIInv, CompensationFails, disk,
       TerminalIsAllOrNothing, Active, AtEnd, Tracked, Undo, SagaTypeOK, Steps
  <2> QED BY <2>1, <2>2, <2>3, <2>4, <2>5, <2>6, <2>7, <2>8, <2>9 DEF SagaIInv
<1>11. CASE RecordUndone
  <2>1. SagaTypeOK'
    <3>1. row' \in [status : {"none", "running", "completed", "failed", "compensated"},
               ctx : SUBSET Steps]
      BY <1>11, SagaConstants DEF SagaIInv, RecordUndone, Saved, Lost, SagaTypeOK, Steps
    <3>2. result' \in [Steps -> StepStatus]
      BY <1>11, SagaConstants DEF SagaIInv, RecordUndone, Saved, Lost, SagaTypeOK,
         Progress, Undo, Forward, Undoing, Steps, StepStatus
    <3>3. effect' \in SUBSET Steps /\ loose' \in SUBSET Steps
      BY Zenon, <1>11, SagaConstants DEF SagaIInv, RecordUndone, Saved, Lost, SagaTypeOK,
         Progress, Undo, Forward, Undoing, Steps
    <3>4. sagaPc' \in Control
      BY <1>11, SagaConstants DEF SagaIInv, RecordUndone, Saved, Lost, SagaTypeOK, Control
    <3>5. step' \in 0..(N + 1)
      BY <1>11, SagaConstants DEF SagaIInv, RecordUndone, Saved, Lost, SagaTypeOK,
         Progress, Undo, Forward, Undoing, Steps
    <3>6. retries' \in 0..MaxStepAttempts
      BY <1>11, SagaConstants DEF SagaIInv, RecordUndone, Saved, Lost, SagaTypeOK
    <3>7. ctx' \in SUBSET Steps /\ done' \in SUBSET Steps /\ compFailed' \in BOOLEAN
      BY <1>11, SagaConstants DEF SagaIInv, RecordUndone, Saved, Lost, SagaTypeOK, Steps
    <3>8. crashes' \in 0..MaxCrashes /\ sagaFaults' \in 0..MaxSagaFaults /\ begins' \in 0..MaxBegins
      BY <1>11, SagaConstants DEF SagaIInv, RecordUndone, Saved, Lost, SagaTypeOK
    <3> QED BY <3>1, <3>2, <3>3, <3>4, <3>5, <3>6, <3>7, <3>8 DEF SagaTypeOK
  <2>2. Active'
    BY <1>11, SagaConstants DEF SagaIInv, RecordUndone, Saved, Lost, Active, SagaTypeOK
  <2>3. Fresh'
    BY <1>11, SagaConstants DEF SagaIInv, RecordUndone, Saved, Lost, Fresh, Active,
       SagaTypeOK, Steps
  <2>4. Progress'
    BY <1>11, SagaConstants DEF SagaIInv, RecordUndone, Saved, Lost, Progress, SagaTypeOK,
       Fresh, Forward, Steps, StepStatus
  <2>5. AtEnd'
    BY <1>11, SagaConstants DEF SagaIInv, RecordUndone, Saved, Lost, AtEnd, Progress,
       SagaTypeOK, Fresh, Undo, Forward, Undoing, Steps
  <2>6. Tracked'
    BY <1>11, SagaConstants DEF SagaIInv, RecordUndone, Saved, Lost, Tracked,
       Progress, Prefix, Undo, SagaTypeOK, Fresh, Active, Forward, Undoing, Steps,
       StepStatus
  <2>7. Prefix'
    BY <1>11, SagaConstants DEF SagaIInv, RecordUndone, Saved, Lost, Prefix, Progress,
       Undo, SagaTypeOK, Forward, Undoing, Steps, StepStatus
  <2>8. Undo'
    BY <1>11, SagaConstants DEF SagaIInv, RecordUndone, Saved, Lost, Undo, Progress,
       Prefix, Tracked, AtEnd, SagaTypeOK, Forward, Undoing, Steps, StepStatus
  <2>9. TerminalIsAllOrNothing'
    BY <1>11, SagaConstants DEF SagaIInv, RecordUndone, Saved, Lost,
       TerminalIsAllOrNothing, Active, AtEnd, Tracked, Undo, SagaTypeOK, Steps
  <2> QED BY <2>1, <2>2, <2>3, <2>4, <2>5, <2>6, <2>7, <2>8, <2>9 DEF SagaIInv
<1>12. CASE RecordStuck
  <2>1. SagaTypeOK'
    BY <1>12, SagaConstants DEF SagaIInv, RecordStuck, Saved, Lost, SagaTypeOK, Progress,
       Undo, Control, StepStatus, Forward, Undoing, Steps
  <2>2. Active'
    BY <1>12, SagaConstants DEF SagaIInv, RecordStuck, Saved, Lost, Active, SagaTypeOK
  <2>3. Fresh'
    BY <1>12, SagaConstants DEF SagaIInv, RecordStuck, Saved, Lost, Fresh, Active,
       SagaTypeOK, Steps
  <2>4. Progress'
    BY <1>12, SagaConstants DEF SagaIInv, RecordStuck, Saved, Lost, Progress, SagaTypeOK,
       Fresh, Forward, Steps, StepStatus
  <2>5. AtEnd'
    BY <1>12, SagaConstants DEF SagaIInv, RecordStuck, Saved, Lost, AtEnd, Progress,
       SagaTypeOK, Fresh, Undo, Forward, Undoing, Steps
  <2>6. Tracked'
    BY <1>12, SagaConstants DEF SagaIInv, RecordStuck, Saved, Lost, Tracked, Progress,
       Prefix, Undo, SagaTypeOK, Fresh, Active, Forward, Undoing, Steps, StepStatus
  <2>7. Prefix'
    BY <1>12, SagaConstants DEF SagaIInv, RecordStuck, Saved, Lost, Prefix, Progress,
       Undo, SagaTypeOK, Forward, Undoing, Steps, StepStatus
  <2>8. Undo'
    BY <1>12, SagaConstants DEF SagaIInv, RecordStuck, Saved, Lost, Undo, Progress,
       Prefix, Tracked, AtEnd, SagaTypeOK, Forward, Undoing, Steps, StepStatus
  <2>9. TerminalIsAllOrNothing'
    BY <1>12, SagaConstants DEF SagaIInv, RecordStuck, Saved, Lost,
       TerminalIsAllOrNothing, Active, AtEnd, Tracked, Undo, SagaTypeOK, Steps
  <2> QED BY <2>1, <2>2, <2>3, <2>4, <2>5, <2>6, <2>7, <2>8, <2>9 DEF SagaIInv
<1>13. CASE CompensationEnds
  <2>1. SagaTypeOK'
    BY <1>13, SagaConstants DEF SagaIInv, CompensationEnds, disk, SagaTypeOK, Progress,
       Undo, Control, StepStatus, Forward, Undoing, Steps
  <2>2. Active'
    BY <1>13, SagaConstants DEF SagaIInv, CompensationEnds, disk, Active, SagaTypeOK
  <2>3. Fresh'
    BY <1>13, SagaConstants DEF SagaIInv, CompensationEnds, disk, Fresh, Active,
       SagaTypeOK, Steps
  <2>4. Progress'
    BY <1>13, SagaConstants DEF SagaIInv, CompensationEnds, disk, Progress, SagaTypeOK,
       Fresh, Forward, Steps, StepStatus
  <2>5. AtEnd'
    BY <1>13, SagaConstants DEF SagaIInv, CompensationEnds, disk, AtEnd, Progress,
       SagaTypeOK, Fresh, Undo, Forward, Undoing, Steps
  <2>6. Tracked'
    BY <1>13, SagaConstants DEF SagaIInv, CompensationEnds, disk, Tracked, Progress,
       Prefix, Undo, SagaTypeOK, Fresh, Active, Forward, Undoing, Steps, StepStatus
  <2>7. Prefix'
    BY <1>13, SagaConstants DEF SagaIInv, CompensationEnds, disk, Prefix, Progress,
       Undo, SagaTypeOK, Forward, Undoing, Steps, StepStatus
  <2>8. Undo'
    BY <1>13, SagaConstants DEF SagaIInv, CompensationEnds, disk, Undo, Progress,
       Prefix, Tracked, AtEnd, SagaTypeOK, Forward, Undoing, Steps, StepStatus
  <2>9. TerminalIsAllOrNothing'
    BY <1>13, SagaConstants DEF SagaIInv, CompensationEnds, disk,
       TerminalIsAllOrNothing, Active, AtEnd, Tracked, Undo, SagaTypeOK, Steps
  <2> QED BY <2>1, <2>2, <2>3, <2>4, <2>5, <2>6, <2>7, <2>8, <2>9 DEF SagaIInv
<1>14. CASE Finish
  <2>1. SagaTypeOK'
    <3>1. row' \in [status : {"none", "running", "completed", "failed", "compensated"},
               ctx : SUBSET Steps]
      <4>1. row \in [status : {"none", "running", "completed", "failed", "compensated"},
                 ctx : SUBSET Steps] /\ ctx \in SUBSET Steps
        BY DEF SagaIInv, SagaTypeOK
      <4>2. \/ row' = row
            \/ \E s \in {"completed", "failed", "compensated"} :
                 row' = [status |-> s, ctx |-> ctx]
        BY <1>14, Zenon DEF Finish
      <4> QED BY <4>1, <4>2
    <3>2. result' \in [Steps -> StepStatus]
      BY <1>14, SagaConstants DEF SagaIInv, Finish, SagaTypeOK, Progress, Undo, Forward,
         Undoing, Steps, StepStatus
    <3>3. effect' \in SUBSET Steps /\ loose' \in SUBSET Steps
      BY <1>14, SagaConstants DEF SagaIInv, Finish, SagaTypeOK, Progress, Undo, Forward,
         Undoing, Steps
    <3>4. sagaPc' \in Control
      BY <1>14, SagaConstants DEF SagaIInv, Finish, SagaTypeOK, Control
    <3>5. step' \in 0..(N + 1)
      BY <1>14, SagaConstants DEF SagaIInv, Finish, SagaTypeOK, Progress, Undo, Forward,
         Undoing, Steps
    <3>6. retries' \in 0..MaxStepAttempts
      BY <1>14, SagaConstants DEF SagaIInv, Finish, SagaTypeOK
    <3>7. ctx' \in SUBSET Steps /\ done' \in SUBSET Steps /\ compFailed' \in BOOLEAN
      BY <1>14, SagaConstants DEF SagaIInv, Finish, SagaTypeOK, Steps
    <3>8. crashes' \in 0..MaxCrashes /\ sagaFaults' \in 0..MaxSagaFaults /\ begins' \in 0..MaxBegins
      BY <1>14, SagaConstants DEF SagaIInv, Finish, SagaTypeOK
    <3> QED BY <3>1, <3>2, <3>3, <3>4, <3>5, <3>6, <3>7, <3>8 DEF SagaTypeOK
  <2>2. Active'
    BY <1>14, SagaConstants DEF SagaIInv, Finish, Active, SagaTypeOK
  <2>3. Fresh'
    BY <1>14, SagaConstants DEF SagaIInv, Finish, Fresh, Active, SagaTypeOK, Steps
  <2>4. Progress'
    BY <1>14, SagaConstants DEF SagaIInv, Finish, Progress, SagaTypeOK, Fresh, Forward,
       Steps, StepStatus
  <2>5. AtEnd'
    BY <1>14, SagaConstants DEF SagaIInv, Finish, AtEnd, Progress, SagaTypeOK, Fresh,
       Undo, Forward, Undoing, Steps
  <2>6. Tracked'
    BY <1>14, SagaConstants DEF SagaIInv, Finish, Tracked, Progress, Prefix, Undo,
       SagaTypeOK, Fresh, Active, Forward, Undoing, Steps, StepStatus
  <2>7. Prefix'
    BY <1>14, SagaConstants DEF SagaIInv, Finish, Prefix, Progress, Undo, SagaTypeOK,
       Forward, Undoing, Steps, StepStatus
  <2>8. Undo'
    BY <1>14, SagaConstants DEF SagaIInv, Finish, Undo, Progress, Prefix, Tracked,
       AtEnd, SagaTypeOK, Forward, Undoing, Steps, StepStatus
  <2>9. TerminalIsAllOrNothing'
    BY <1>14, SagaConstants DEF SagaIInv, Finish, TerminalIsAllOrNothing, Active,
       AtEnd, Tracked, Undo, SagaTypeOK, Steps
  <2> QED BY <2>1, <2>2, <2>3, <2>4, <2>5, <2>6, <2>7, <2>8, <2>9 DEF SagaIInv
<1>15. CASE SagaCrash
  <2>1. SagaTypeOK'
    <3>1. row' \in [status : {"none", "running", "completed", "failed", "compensated"},
               ctx : SUBSET Steps]
      BY <1>15, SagaConstants DEF SagaIInv, SagaCrash, disk, SagaTypeOK, Steps
    <3>2. result' \in [Steps -> StepStatus]
      BY <1>15, SagaConstants DEF SagaIInv, SagaCrash, disk, SagaTypeOK, Progress, Undo,
         Forward, Undoing, Steps, StepStatus
    <3>3. effect' \in SUBSET Steps /\ loose' \in SUBSET Steps
      BY <1>15, SagaConstants DEF SagaIInv, SagaCrash, disk, SagaTypeOK, Progress, Undo,
         Forward, Undoing, Steps
    <3>4. sagaPc' \in Control
      BY <1>15, SagaConstants DEF SagaIInv, SagaCrash, disk, SagaTypeOK, Control
    <3>5. step' \in 0..(N + 1)
      BY <1>15, SagaConstants DEF SagaIInv, SagaCrash, disk, SagaTypeOK, Progress, Undo,
         Forward, Undoing, Steps
    <3>6. retries' \in 0..MaxStepAttempts
      BY <1>15, SagaConstants DEF SagaIInv, SagaCrash, disk, SagaTypeOK
    <3>7. ctx' \in SUBSET Steps /\ done' \in SUBSET Steps /\ compFailed' \in BOOLEAN
      BY Zenon, <1>15, SagaConstants DEF SagaIInv, SagaCrash, disk, SagaTypeOK, Steps
    <3>8. crashes' \in 0..MaxCrashes /\ sagaFaults' \in 0..MaxSagaFaults /\ begins' \in 0..MaxBegins
      BY <1>15, SagaConstants DEF SagaIInv, SagaCrash, disk, SagaTypeOK
    <3> QED BY <3>1, <3>2, <3>3, <3>4, <3>5, <3>6, <3>7, <3>8 DEF SagaTypeOK
  <2>2. Active'
    BY <1>15, SagaConstants DEF SagaIInv, SagaCrash, disk, Active, SagaTypeOK
  <2>3. Fresh'
    BY <1>15, SagaConstants DEF SagaIInv, SagaCrash, disk, Fresh, Active, SagaTypeOK, Steps
  <2>4. Progress'
    BY <1>15, SagaConstants DEF SagaIInv, SagaCrash, disk, Progress, SagaTypeOK, Fresh,
       Forward, Steps, StepStatus
  <2>5. AtEnd'
    BY <1>15, SagaConstants DEF SagaIInv, SagaCrash, disk, AtEnd, Progress, SagaTypeOK, Fresh,
       Undo, Forward, Undoing, Steps
  <2>6. Tracked'
    BY <1>15, SagaConstants DEF SagaIInv, SagaCrash, disk, Tracked, Progress, Prefix,
       Undo, SagaTypeOK, Fresh, Active, Forward, Undoing, Steps, StepStatus
  <2>7. Prefix'
    BY <1>15, SagaConstants DEF SagaIInv, SagaCrash, disk, Prefix, Progress, Undo, SagaTypeOK,
       Forward, Undoing, Steps, StepStatus
  <2>8. Undo'
    BY <1>15, SagaConstants DEF SagaIInv, SagaCrash, disk, Undo, Progress, Prefix,
       Tracked, AtEnd, SagaTypeOK, Forward, Undoing, Steps, StepStatus
  <2>9. TerminalIsAllOrNothing'
    BY <1>15, SagaConstants DEF SagaIInv, SagaCrash, disk, TerminalIsAllOrNothing, Active,
       AtEnd, Tracked, Undo, SagaTypeOK, Steps
  <2> QED BY <2>1, <2>2, <2>3, <2>4, <2>5, <2>6, <2>7, <2>8, <2>9 DEF SagaIInv
<1>16. CASE UNCHANGED sagaVars
  BY <1>16 DEF sagaVars, SagaIInv, SagaTypeOK, Active, Fresh, Progress, AtEnd, Tracked, Prefix, Undo,
     TerminalIsAllOrNothing
<1> QED
  BY <1>1, <1>2, <1>3, <1>4, <1>5, <1>6, <1>7, <1>8, <1>9, <1>10, <1>11, <1>12, <1>13,
     <1>14, <1>15, <1>16 DEF SagaNext, Run

\* The invariant holds in every reachable state of the coordinator.
THEOREM Invariance == SagaSpec => []SagaIInv
  BY InitInv, NextInv, PTL DEF SagaSpec

\* Execute, Resume and a crash keep every variable in its type; in particular
\* the retries of runStep stay within MaxAttempts.
THEOREM TypeCorrect == SagaSpec => []SagaTypeOK
<1>1. SagaIInv => SagaTypeOK
  BY DEF SagaIInv
<1> QED BY <1>1, Invariance, PTL

\* runStep starts a step only when every earlier step is recorded as completed,
\* for any number of crashes and lost writes before.
THEOREM StepsInOrder == SagaSpec => []EarlierStepsRecorded
<1>1. SagaIInv => EarlierStepsRecorded
  BY DEF SagaIInv, Progress, EarlierStepsRecorded, Forward
<1> QED BY <1>1, Invariance, PTL

\* The last save of a saga writes completed or compensated only when every step,
\* or no step, is in force, apart from the loose ones.
THEOREM AllOrNothing == SagaSpec => []TerminalIsAllOrNothing
<1>1. SagaIInv => TerminalIsAllOrNothing
  BY DEF SagaIInv
<1> QED BY <1>1, Invariance, PTL

=============================================================================
