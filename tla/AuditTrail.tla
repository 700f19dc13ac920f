------------------------------ MODULE AuditTrail -----------------------------
(***************************************************************************)
(* The audit log: Logger with the chained FileSink (audit/logger.go,        *)
(* audit/sink.go), the nightly copy of its toggle events                    *)
(* (worker/audit_exporter.go) and the buffering WORMExporter                *)
(* (audit/exporter.go).  Events are numbered in the order they are logged;  *)
(* an event stands for its own hash, and 0 for the empty previous hash.     *)
(***************************************************************************)
EXTENDS Integers, Sequences, SequencesExt

CONSTANTS
  MaxEvents,  \* bound on the events
  Toggles,    \* the events whose action is feature_flag_toggle
  Mismatched, \* the events that reach the WORM exporter with another hash than theirs
  MaxSize,    \* buffer size that makes the WORM exporter rotate
  Rotators,   \* goroutines that may call WriteEvent and Rotate
  MaxStops    \* bound on restarts of the process

VARIABLES
  auditKind,  \* "file" or "worm"
  logged,     \* number of the newest event
  lines,      \* the audit file: one record per line
  open,       \* the last line has no line end
  lastHash,   \* FileSink.lastHash
  loaded,     \* FileSink.init
  accepted,   \* events whose Log returned without error, or that are in the buffer
  stops,
  reading,    \* lines the export run has read, -1 when it is not running
  warehouse,  \* the export file
  whole,      \* lines the last run that ended without error read, -1 when none
  buffer,     \* WORMExporter.buffer
  toRotate,   \* rotators whose WriteEvent found that it is time to rotate
  rotating,   \* [Rotators -> the events its Rotate took out, <<>> when none]
  segments,   \* the segments in the blob store
  unacked,    \* those whose Upload returned an error all the same
  panicked    \* events of the Rotate calls that panicked

fileVars  == <<lines, open, lastHash, loaded, stops, reading, warehouse, whole>>
wormVars  == <<buffer, toRotate, rotating, segments, unacked, panicked>>
auditVars == <<auditKind, logged, accepted, fileVars, wormVars>>

AuditEvents == 1..MaxEvents

AuditTypeOK ==
  /\ auditKind \in {"file", "worm"}
  /\ logged \in 0..MaxEvents /\ accepted \subseteq AuditEvents
  /\ lines \in Seq([ev : AuditEvents, prev : 0..MaxEvents, json : BOOLEAN])
  /\ open \in BOOLEAN /\ lastHash \in 0..MaxEvents /\ loaded \in BOOLEAN
  /\ stops \in 0..MaxStops
  /\ reading \in -1..Len(lines) /\ warehouse \in Seq(AuditEvents) /\ whole \in -1..Len(lines)
  /\ buffer \in Seq(AuditEvents) /\ rotating \in [Rotators -> Seq(AuditEvents)]
  /\ segments \subseteq Seq(AuditEvents) /\ unacked \subseteq segments
  /\ toRotate \subseteq Rotators /\ panicked \subseteq AuditEvents

AuditInit ==
  /\ auditKind \in {"file", "worm"}
  /\ logged = 0 /\ accepted = {}
  /\ lines = <<>> /\ open = FALSE /\ lastHash = 0 /\ loaded = FALSE /\ stops = 0
  /\ reading = -1 /\ warehouse = <<>> /\ whole = -1
  /\ buffer = <<>> /\ toRotate = {} /\ rotating = [r \in Rotators |-> <<>>]
  /\ segments = {} /\ unacked = {} /\ panicked = {}

-----------------------------------------------------------------------------
(* FileSink                                                                *)

\* loadLastHashLocked: the hash of the last line, an error when it does not
\* parse.  Every Log loads it until one load succeeds.
loadLastHash == IF loaded \/ lines = <<>> THEN TRUE ELSE Last(lines).json
Chain == IF loaded THEN lastHash ELSE IF lines = <<>> THEN 0 ELSE Last(lines).ev

\* Bytes after an unfinished line belong to that line.
Appended(ev, json) ==
  IF open THEN Front(lines) \o <<[ev |-> ev, prev |-> Chain, json |-> FALSE]>>
          ELSE Append(lines, [ev |-> ev, prev |-> Chain, json |-> json])

\* Logger.Log with FileSink.WriteEvent, both under their mutex.
LogWritten ==
  /\ loadLastHash
  /\ lines' = Appended(logged', TRUE) /\ open' = FALSE
  /\ lastHash' = logged' /\ loaded' = TRUE
  /\ accepted' = accepted \union {logged'}

\* The file cannot be read, parsed or opened, or the disk takes part of the line.
LogFails ==
  /\ \/ UNCHANGED <<lines, open>> /\ loaded' = loaded
     \/ UNCHANGED <<lines, open>> /\ loadLastHash /\ loaded' = TRUE
     \/ loadLastHash /\ loaded' = TRUE /\ lines' = Appended(logged', FALSE) /\ open' = TRUE
  /\ lastHash' = (IF loaded' THEN Chain ELSE lastHash)
  /\ UNCHANGED accepted

LogCalled ==
  /\ logged < MaxEvents /\ logged' = logged + 1
  /\ LogWritten \/ LogFails
  /\ UNCHANGED <<stops, reading, warehouse, whole>>

\* The process stops between two calls; a run of the export job ends with it.
AuditRestarts ==
  /\ stops < MaxStops /\ stops' = stops + 1
  /\ lastHash' = 0 /\ loaded' = FALSE /\ reading' = -1
  /\ UNCHANGED <<logged, accepted, lines, open, warehouse, whole>>

-----------------------------------------------------------------------------
(* AuditExporterJob                                                        *)

\* Start's ticker calls Run, which truncates the export file.
RunOpens ==
  /\ reading = -1 /\ lines # <<>>
  /\ reading' = 0 /\ warehouse' = <<>> /\ whole' = -1

\* The scanner's next line: a toggle event that parses is copied.
RunReads ==
  /\ reading >= 0 /\ reading < Len(lines)
  /\ LET l == lines[reading + 1]
     IN  warehouse' = IF l.json /\ l.ev \in Toggles THEN Append(warehouse, l.ev) ELSE warehouse
  /\ reading' = reading + 1
  /\ UNCHANGED whole

\* The end of the file, a cancelled context or a failed write.
RunEnds ==
  /\ reading >= 0
  /\ \/ reading = Len(lines) /\ whole' = reading
     \/ UNCHANGED whole
  /\ reading' = -1
  /\ UNCHANGED warehouse

FileNext ==
  /\ auditKind = "file"
  /\ \/ LogCalled
     \/ AuditRestarts
     \/ /\ RunOpens \/ RunReads \/ RunEnds
        /\ UNCHANGED <<logged, accepted, lines, open, lastHash, loaded, stops>>
  /\ UNCHANGED <<auditKind, wormVars>>

-----------------------------------------------------------------------------
(* WORMExporter                                                            *)

Idle(r) == r \notin toRotate /\ rotating[r] = <<>>

\* WriteEvent: the append under the lock.  shouldRotate holds at MaxSize, and may
\* hold at any size by rotateTime.
WriteEvent(r) ==
  /\ Idle(r) /\ logged < MaxEvents
  /\ logged' = logged + 1 /\ accepted' = accepted \union {logged + 1}
  /\ buffer' = Append(buffer, logged + 1)
  /\ \/ toRotate' = toRotate \union {r}
     \/ Len(buffer) + 1 < MaxSize /\ UNCHANGED toRotate
  /\ UNCHANGED <<rotating, segments, unacked, panicked>>

\* A gap in the chain or a wrong hash is a panic, which takes the events along.
Chained(s)  == \A i \in 1..Len(s) - 1 : s[i + 1] = s[i] + 1
Verified(s) == Chained(s) /\ ToSet(s) \intersect Mismatched = {}

\* Rotate, by a WriteEvent that let go of the lock before or by another caller, up
\* to the upload: the buffer is swapped under the lock and verified without it.
Rotate(r) ==
  /\ rotating[r] = <<>> /\ (r \in toRotate \/ buffer # <<>>)
  /\ toRotate' = toRotate \ {r}
  /\ buffer' = <<>>
  /\ \/ Verified(buffer) /\ rotating' = [rotating EXCEPT ![r] = buffer] /\ UNCHANGED panicked
     \/ /\ ~Verified(buffer)
        /\ panicked' = panicked \union ToSet(buffer)
        /\ UNCHANGED rotating
  /\ UNCHANGED <<logged, accepted, segments, unacked>>

Uploaded(r) ==
  /\ rotating[r] # <<>>
  /\ segments' = segments \union {rotating[r]}
  /\ rotating' = [rotating EXCEPT ![r] = <<>>]
  /\ UNCHANGED <<logged, accepted, buffer, toRotate, unacked, panicked>>

\* Marshalling, signing or the upload failed, or the reply of the upload was lost.
restoreAndError_Replaces(r) ==
  /\ rotating[r] # <<>>
  /\ buffer' = rotating[r]
  /\ \/ UNCHANGED <<segments, unacked>>
     \/ /\ segments' = segments \union {rotating[r]}
        /\ unacked' = unacked \union {rotating[r]}
  /\ rotating' = [rotating EXCEPT ![r] = <<>>]
  /\ UNCHANGED <<logged, accepted, toRotate, panicked>>
restoreAndError(r) ==
  /\ rotating[r] # <<>>
  /\ buffer' = rotating[r] \o buffer
  /\ \/ UNCHANGED <<segments, unacked>>
     \/ /\ segments' = segments \union {rotating[r]}
        /\ unacked' = unacked \union {rotating[r]}
  /\ rotating' = [rotating EXCEPT ![r] = <<>>]
  /\ UNCHANGED <<logged, accepted, toRotate, panicked>>

WormNext ==
  /\ auditKind = "worm"
  /\ \E r \in Rotators : WriteEvent(r) \/ Rotate(r) \/ Uploaded(r) \/ restoreAndError(r)
  /\ UNCHANGED <<auditKind, fileVars>>

AuditNext == FileNext \/ WormNext

AuditSpec == AuditInit /\ [][AuditNext]_auditVars

-----------------------------------------------------------------------------
\* What Verify answers: every line parses and continues the one before it.
Verify(ls) ==
  \A i \in 1..Len(ls) : ls[i].json /\ ls[i].prev = IF i = 1 THEN 0 ELSE ls[i - 1].ev

\* As long as no write was cut short, the file verifies after any order of
\* failed calls and restarts (each of which loads the chain anew), and holds
\* every event whose Log call succeeded.
LogVerifies ==
  (\A i \in 1..Len(lines) : lines[i].json) =>
     /\ Verify(lines)
     /\ auditKind = "file" => accepted \subseteq {lines[i].ev : i \in 1..Len(lines)}

\* A run of the export job that reached the end has copied each toggle event of
\* the lines it read once, in order, whatever Log appended or an earlier
\* interrupted run left meanwhile.
WarehouseFollowsLog ==
  whole >= 0 /\ reading = -1 =>
     warehouse = SelectSeq([i \in 1..whole |-> IF lines[i].json THEN lines[i].ev ELSE 0],
                           LAMBDA e : e \in Toggles)

Kept == accepted = ToSet(buffer) \union UNION {ToSet(rotating[r]) : r \in Rotators}
                                 \union UNION {ToSet(s) : s \in segments} \union panicked

\* Rotations overlap, as the lock is held neither between an append and the rotation
\* it calls for nor during an upload: still every stored segment is a gapless piece
\* of the chain, and an event is in two segments only if the store kept one of them
\* and answered an error.  No event is lost but by a panic of the verification: an
\* upload that fails puts its events back and keeps those that came meanwhile
\* (WORMExporter.Rotate, restoreAndError).
SegmentsHoldTheChain ==
  /\ \A s \in segments :
        /\ Verified(s)
        /\ \A t \in segments \ {s} :
             ToSet(s) \intersect ToSet(t) # {} => s \in unacked \/ t \in unacked
  /\ auditKind = "worm" => Kept

=============================================================================
