------------------------------ MODULE Responses ------------------------------
(***************************************************************************)
(* The layers a request and its answer pass through around the handler:    *)
(*   "body"    middleware/gzip_policy.go on the way in and on the way out, *)
(*             inside middleware/recovery.go;                              *)
(*   "flags"   the feature-flag toggle of handlers/feature_flags.go over   *)
(*             the manager of internal/featureflags, called concurrently.  *)
(* Bodies are counted in units; a unit on the wire is raw or encoded.      *)
(***************************************************************************)
EXTENDS Integers, Sequences, FiniteSets, SequencesExt

CONSTANTS
  Ratio,        \* cfg.MaxRatio
  MaxPlain,     \* cfg.MaxUncompressedBytes, 0 for none
  MaxCompressed,\* cfg.MaxCompressedBytes, 0 for the same as MaxPlain
  MaxSent,      \* largest compressed and largest decoded size of a request
  MinCompress,  \* cfg.MinCompressBytes
  MaxUnits,     \* units a handler writes at most
  Togglers,     \* concurrent PATCH /feature-flags calls
  LastNano      \* bound on the version clock

VARIABLES
  respKind,     \* which part this behaviour is about
  stage,        \* "request" | "handler" | "finalize" | "recover" | "done"
  req,          \* [encoding, sent, plain, intact]: the request's body
  got,          \* units of body the handler is given, -1 before
  comp,         \* response compression is on and an encoding was negotiated
  skip,         \* shouldSkipCompression: a compressed type or an own encoding
  cw,           \* compressingWriter: [wrote, status, buf, committed, encoder]
  out,          \* gin's writer below it: [status, encoded, sent, wire]; sent is
                \* Written(): status and headers are out and can change no more
  asked,        \* what the handler did: [first, last, units, forced]: the first and
                \* the last status it set before any unit, the units it wrote, and
                \* whether AbortWithStatus sent the header past the compressing writer
  panicked,
  flag,         \* the flag: [enabled, version]
  mutex,        \* the toggle route's lock: a toggler or "free"
  toggler,      \* toggler[p]: [at, before]
  nano,         \* the clock versions are taken from
  flips         \* toggles answered with success (history)

bodyVars == <<stage, req, got, comp, skip, cw, out, asked, panicked>>
flagVars == <<flag, mutex, toggler, nano, flips>>
respVars == <<respKind, bodyVars, flagVars>>

Requests2 == [encoding : {"identity", "gzip", "other"}, sent : 1..MaxSent,
              plain : 0..MaxSent, intact : BOOLEAN]

RespTypeOK ==
  /\ respKind \in {"body", "flags"}
  /\ stage \in {"request", "handler", "finalize", "recover", "done"}
  /\ req \in Requests2 /\ got \in -1..MaxSent
  /\ comp \in BOOLEAN /\ skip \in BOOLEAN /\ panicked \in BOOLEAN
  /\ cw \in [wrote : BOOLEAN, status : Nat, buf : 0..MaxUnits,
             committed : BOOLEAN, encoder : BOOLEAN]
  /\ out \in [status : Nat, encoded : BOOLEAN, sent : BOOLEAN,
              wire : Seq({"raw", "enc", "error"})]
  /\ asked \in [first : Nat, last : Nat, units : 0..MaxUnits, forced : BOOLEAN]
  /\ flag \in [enabled : BOOLEAN, version : 0..LastNano] /\ nano \in 0..LastNano
  /\ mutex \in Togglers \cup {"free"} /\ flips \in 0..Cardinality(Togglers)
  /\ toggler \in [Togglers -> [at : {"idle", "read", "done"}, before : BOOLEAN]]

RespInit ==
  /\ respKind \in {"body", "flags"} /\ stage = "request" /\ got = -1
  /\ IF respKind = "body" THEN req \in Requests2 /\ comp \in BOOLEAN /\ skip \in BOOLEAN
     ELSE /\ req = [encoding |-> "identity", sent |-> 1, plain |-> 1, intact |-> TRUE]
          /\ comp = FALSE /\ skip = FALSE
  /\ cw = [wrote |-> FALSE, status |-> 200, buf |-> 0, committed |-> FALSE, encoder |-> FALSE]
  /\ out = [status |-> 200, encoded |-> FALSE, sent |-> FALSE, wire |-> <<>>]
  /\ asked = [first |-> 0, last |-> 0, units |-> 0, forced |-> FALSE] /\ panicked = FALSE
  /\ flag = [enabled |-> FALSE, version |-> 0] /\ nano = 1 /\ flips = 0
  /\ mutex = "free" /\ toggler = [p \in Togglers |-> [at |-> "idle", before |-> FALSE]]

(***************************************************************************)
(* The request body                                                        *)
(***************************************************************************)

(* The tighter of the absolute and the ratio limit; 0 means no limit. *)
MaxDest(sent) ==
  LET ratioLimit == sent * Ratio
  IN  IF Ratio > 0 /\ (MaxPlain = 0 \/ ratioLimit < MaxPlain) THEN ratioLimit ELSE MaxPlain

(* The cap on the compressed size. *)
MaxBody == IF MaxCompressed = 0 THEN MaxPlain ELSE MaxCompressed

Refuse(status) ==
  stage' = "done" /\ out' = [out EXCEPT !.status = status, !.sent = TRUE] /\ UNCHANGED got

(* What io.Copy leaves in the buffer: everything up to one unit past the
   limit, or a prefix when the stream breaks off; the error is not looked at. *)
Decoded(r) ==
  LET limit == MaxDest(r.sent)
      upTo == IF limit > 0 /\ r.plain > limit + 1 THEN limit + 1 ELSE r.plain
  IN  IF r.intact THEN {upTo} ELSE 0..upTo

GzipPolicy ==
  /\ stage = "request"
  /\ CASE req.encoding = "other" -> Refuse(406)
       [] req.encoding = "gzip" /\ MaxBody > 0 /\ req.sent > MaxBody -> Refuse(413)
       [] req.encoding = "gzip" /\ ~(MaxBody > 0 /\ req.sent > MaxBody) ->
            \/ ~req.intact /\ Refuse(400)    \* it cannot be read, or has no gzip header
            \/ \E n \in Decoded(req) :
                 IF MaxDest(req.sent) > 0 /\ n > MaxDest(req.sent) THEN Refuse(413)
                 ELSE stage' = "handler" /\ got' = n /\ UNCHANGED out
       [] req.encoding = "identity" -> stage' = "handler" /\ got' = req.sent /\ UNCHANGED out
  /\ UNCHANGED <<req, comp, skip, cw, asked, panicked>>

(***************************************************************************)
(* The response body                                                       *)
(***************************************************************************)
Units(n, how) == [i \in 1..n |-> how]

(* gin's writer: the header is fixed when it is sent, by the first byte or by
   WriteHeaderNow; a status or a header set later has no effect. *)
SetHeader(o, status, encoded) ==
  IF o.sent THEN o ELSE [o EXCEPT !.status = status, !.encoded = encoded]
Sends(o, units) ==
  IF units = <<>> THEN o ELSE [o EXCEPT !.sent = TRUE, !.wire = @ \o units]

(* commitUncompressed / commitCompressed: headers first, then the buffer.
   Creating the zstd encoder can fail, which falls back to plain output. *)
commitUncompressed(w) ==
  /\ cw' = [w EXCEPT !.buf = 0, !.committed = TRUE]
  /\ out' = Sends(SetHeader(out, w.status, FALSE), Units(w.buf, "raw"))

commitCompressed(w) ==
  \/ /\ cw' = [w EXCEPT !.buf = 0, !.committed = TRUE, !.encoder = TRUE]
     /\ out' = Sends(SetHeader(out, w.status, TRUE), Units(w.buf, "enc"))
  \/ commitUncompressed(w)

(* compressingWriter.WriteHeader: the first call counts. *)
WriteHeader(w, code) == IF w.wrote THEN w ELSE [w EXCEPT !.wrote = TRUE, !.status = code]

Asks(code) ==
  IF asked.units > 0 THEN asked
  ELSE [asked EXCEPT !.first = IF @ = 0 THEN code ELSE @, !.last = code]

(* c.Status. *)
HandlerStatus(code) ==
  /\ stage = "handler" /\ asked' = Asks(code)
  /\ IF comp THEN cw' = WriteHeader(cw, code) /\ UNCHANGED out
             ELSE out' = SetHeader(out, code, FALSE) /\ UNCHANGED cw
  /\ UNCHANGED <<stage, req, got, comp, skip, panicked>>

(* c.AbortWithStatus, after which the handler returns.  WriteHeaderNow is
   promoted from gin's writer: it sends the status that one has, and the
   compressing writer is not asked. *)
HandlerAborts(code) ==
  /\ stage = "handler" /\ stage' = "finalize"
  /\ asked' = [Asks(code) EXCEPT !.forced = comp /\ ~out.sent]
  /\ IF comp THEN cw' = WriteHeader(cw, code) /\ out' = [out EXCEPT !.sent = TRUE]
             ELSE out' = [SetHeader(out, code, FALSE) EXCEPT !.sent = TRUE] /\ UNCHANGED cw
  /\ UNCHANGED <<req, got, comp, skip, panicked>>

(* compressingWriter.Write: one unit. *)
HandlerWrites ==
  LET w == [WriteHeader(cw, 200) EXCEPT !.buf = @ + 1]
  IN  /\ stage = "handler" /\ asked.units < MaxUnits
      /\ asked' = [asked EXCEPT !.units = @ + 1]
      /\ CASE ~comp -> out' = Sends(out, <<"raw">>) /\ UNCHANGED cw
           [] comp /\ cw.committed ->
                /\ out' = Sends(out, <<IF cw.encoder THEN "enc" ELSE "raw">>)
                /\ UNCHANGED cw
           [] comp /\ ~cw.committed /\ w.buf >= MinCompress /\ ~skip -> commitCompressed(w)
           [] comp /\ ~cw.committed /\ ~(w.buf >= MinCompress /\ ~skip) -> cw' = w /\ UNCHANGED out
      /\ UNCHANGED <<stage, req, got, comp, skip, panicked>>

(* The handler returns or panics; the deferred finalize runs either way. *)
HandlerEnds ==
  /\ stage = "handler" /\ stage' = "finalize" /\ panicked' \in BOOLEAN
  /\ UNCHANGED <<req, got, comp, skip, cw, out, asked>>

finalize_DropsShort ==
  /\ stage = "finalize" /\ stage' = IF panicked THEN "recover" ELSE "done"
  /\ UNCHANGED <<req, got, comp, skip, asked, panicked, cw, out>>

finalize ==
  /\ stage = "finalize" /\ stage' = IF panicked THEN "recover" ELSE "done"
  /\ CASE ~comp \/ cw.committed -> UNCHANGED <<cw, out>>
       [] comp /\ ~cw.committed /\ (skip \/ cw.buf < MinCompress) -> commitUncompressed(cw)
       [] comp /\ ~cw.committed /\ ~skip /\ cw.buf >= MinCompress -> commitCompressed(cw)
  /\ UNCHANGED <<req, got, comp, skip, asked, panicked>>

(* handlePanic: the envelope is written only when no header was sent. It goes
   through c.Writer, still the compressing writer, whose header is spent. *)
handlePanic ==
  /\ stage = "recover" /\ stage' = "done"
  /\ out' = IF out.sent THEN out
            ELSE Sends(SetHeader(out, IF comp THEN out.status ELSE 500, FALSE), <<"error">>)
  /\ UNCHANGED <<req, got, comp, skip, cw, asked, panicked>>

BodyNext ==
  /\ \/ GzipPolicy
     \/ \E code \in {202, 404} : HandlerStatus(code) \/ HandlerAborts(code)
     \/ HandlerWrites \/ HandlerEnds
     \/ finalize \/ handlePanic
  /\ UNCHANGED flagVars

(***************************************************************************)
(* Feature flags                                                           *)
(***************************************************************************)
CanEnter(p) == mutex = "free"

(* ToggleFeatureFlag under the route's lock: read the flag, ... *)
GetFlag(p) ==
  /\ toggler[p].at = "idle" /\ CanEnter(p) /\ mutex' = p
  /\ toggler' = [toggler EXCEPT ![p] = [at |-> "read", before |-> flag.enabled]]
  /\ UNCHANGED <<flag, nano, flips>>

(* ... then store the opposite under a version taken from the clock, which
   is refused unless it is newer than the flag's. *)
SetFlagWithVersion(p) ==
  /\ toggler[p].at = "read" /\ mutex' = "free"
  /\ toggler' = [toggler EXCEPT ![p].at = "done"]
  /\ nano' \in nano..LastNano
  /\ IF nano' <= flag.version THEN UNCHANGED <<flag, flips>>
     ELSE flag' = [enabled |-> ~toggler[p].before, version |-> nano'] /\ flips' = flips + 1

FlagNext ==
  /\ \E p \in Togglers : GetFlag(p) \/ SetFlagWithVersion(p)
  /\ UNCHANGED bodyVars

RespNext ==
  /\ \/ respKind = "body" /\ BodyNext
     \/ respKind = "flags" /\ FlagNext
  /\ UNCHANGED respKind

RespSpec == RespInit /\ [][RespNext]_respVars

(***************************************************************************)
(* Properties                                                              *)
(***************************************************************************)

(* A gzip request body that is intact reaches the handler whole or not at
   all: neither limit cuts it short silently, and none is exceeded. *)
IntactBodyIsWhole ==
  (got >= 0 /\ req.encoding = "gzip" /\ req.intact)
    => got = req.plain /\ (MaxPlain > 0 => got <= MaxPlain) /\ (Ratio > 0 => got <= req.sent * Ratio)

(* What is on the wire is the handler's response, however it was written in
   pieces, buffered below the threshold, encoded or broken off.  It agrees with
   its Content-Encoding header, never a mix of raw and encoded bytes; a handler
   that did not panic has its whole body there, under the status it set before
   its first byte (the first one it set when the response is compressed, the
   last one otherwise), unless AbortWithStatus sent the header before the
   compressing writer had passed the status on; and after a panic the error
   envelope is the only body or absent, never appended to a response the
   handler had begun (compressingWriter, handlePanic). *)
ResponseIsFaithful ==
  /\ stage = "done" => \A i \in DOMAIN out.wire : out.wire[i] = "enc" <=> out.encoded
  /\ (stage = "done" /\ got >= 0 /\ ~panicked) =>
       /\ Len(out.wire) = asked.units
       /\ asked.forced \/ out.status = CASE asked.last = 0 -> 200
                                         [] asked.last # 0 /\ comp -> asked.first
                                         [] asked.last # 0 /\ ~comp -> asked.last
  /\ \A i \in DOMAIN out.wire : out.wire[i] = "error" => Len(out.wire) = 1 /\ panicked

(* Concurrent toggles do not cancel out: the flag's state is the initial one
   flipped once for each toggle that was answered with success. *)
TogglesFlip == flag.enabled = (flips % 2 = 1)
=============================================================================
