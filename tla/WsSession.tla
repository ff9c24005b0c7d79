------------------------------ MODULE WsSession ------------------------------
(***************************************************************************)
(* One WebSocket session of the man-in-the-middle bridge                   *)
(* (src/internal/proxy/wsmitm/session.go on src/internal/wscompact): two   *)
(* pump goroutines, one per direction, that read frames from one peer,     *)
(* show complete text messages to a handler and write frames to the other  *)
(* peer, and the Serve call that waits for the first pump to stop.         *)
(*                                                                         *)
(* A message is abstracted to what decides its path: its kind, whether its *)
(* first frame carries RSV1 (permessage-deflate), how many frames carry    *)
(* it, at which frame the buffered bytes exceed the 16 MiB cap, and how    *)
(* many earlier messages its compressed form refers back to.  A            *)
(* compression dictionary (wscompact: the last 32 KiB of plaintext) is the *)
(* sequence of the last Window texts.  The sending and the receiving peer  *)
(* are the environment; each keeps the dictionary RFC 7692 gives it.       *)
(***************************************************************************)
EXTENDS Integers, Sequences

CONSTANTS
  MaxFrags,        \* bound: frames of one message
  Window,          \* texts a compression dictionary holds
  Shares,          \* how many earlier texts a compressed message refers to
  DeflateMayFail,  \* DeflateContext.Deflate may return an error
  Scenarios        \* the sessions and environments to consider

Dir == {"c2s", "s2c"}
Peer == {"client", "upstream"}
AllKinds == {"envelope", "malformed", "other", "huge"}
AllVerdicts == {"keep", "replace", "consume", "fail"}

(* What Serve is called with: the negotiated extension profile and, per    *)
(* direction, what the handler may answer ({} is a nil handler); and what  *)
(* the environment may do: how many messages a peer sends, of which kinds, *)
(* with RSV1 or not, which peers may leave, whether ctx may be cancelled.  *)
Scenario ==
  [negotiated : BOOLEAN, noTakeover : [Dir -> BOOLEAN],
   verdicts : [Dir -> SUBSET AllVerdicts], maxMsgs : [Dir -> Nat],
   kinds : SUBSET AllKinds, rsv1 : SUBSET BOOLEAN,
   leavers : SUBSET Peer, cancels : BOOLEAN]

ASSUME SessionAssumption ==
  /\ MaxFrags \in Nat \ {0}
  /\ Window \in Nat \ {0}
  /\ Shares \subseteq Nat
  /\ DeflateMayFail \in BOOLEAN
  /\ Scenarios \subseteq Scenario

Source(d) == IF d = "c2s" THEN "client" ELSE "upstream"
Target(d) == IF d = "c2s" THEN "upstream" ELSE "client"

Text == [id : Nat, form : {"sent", "rewritten", "garbled"}]
Dictionary == {s \in Seq(Text) : Len(s) <= Window}

Message == [id : Nat, kind : AllKinds, rsv1 : BOOLEAN, frames : Nat,
            capAt : Nat, share : Nat]
NoMessage == [id |-> 0, kind |-> "other", rsv1 |-> FALSE, frames |-> 0,
              capAt |-> 0, share |-> 0]

(* One direction's compressedMessageState: its flags, its two dictionaries *)
(* and the number of frames it buffers.                                    *)
Codec == [blocked : BOOLEAN, forceReencode : BOOLEAN,
          inflate : Dictionary, deflate : Dictionary, held : Nat]

(* What a peer has received: its dictionary, the frames of the message it  *)
(* is assembling, and the complete messages, each with how it was written  *)
(* and whether the peer could decode it.                                   *)
Delivery == [id : Nat, rsv1 : BOOLEAN, how : {"raw", "reencoded"},
             ok : BOOLEAN]
Taken == [id : Nat, rsv1 : BOOLEAN]
Receiver == [dict : Dictionary, open : Nat, got : Seq(Delivery)]

Outcome == {"eof", "read", "write", "handler", "reencode", "ctx"}
Initiator == {"open", "client_eof", "upstream_eof", "context_cancel",
              "our_error", "client_error", "upstream_error"}

VARIABLES
  scenario,  \* what Serve was called with; never changes
  pc,        \* per direction: "top" of the loop, in ReadFrame, or "done"
  msg,       \* per direction: the message whose frames are being read
  read,      \* per direction: its frames read so far
  sent,      \* per direction: messages the source has started
  sendDict,  \* per direction: the source's own compression dictionary
  codec,     \* per direction: compressedMessageState
  recv,      \* per direction: the target
  consumed,  \* per direction: what the handler took (ErrFrameConsumed)
  degraded,  \* SessionCounters.Degraded, shared by the two pumps
  gone,      \* peers whose connection is closed
  ctx,       \* the caller's context is cancelled
  errs,      \* the errs channel of Serve
  serve,     \* Serve: waiting, recorded the close, returned
  closed     \* SessionLifecycle.CloseInitiator

pumpVars == <<pc, errs>>
inputVars == <<msg, read, sent, sendDict>>
serveVars == <<scenario, gone, ctx, serve, closed>>
vars == <<scenario, pc, msg, read, sent, sendDict, codec, recv, consumed, degraded,
          gone, ctx, errs, serve, closed>>

Init ==
  /\ scenario \in Scenarios
  /\ pc = [d \in Dir |-> "top"]
  /\ msg = [d \in Dir |-> NoMessage]
  /\ read = [d \in Dir |-> 0]
  /\ sent = [d \in Dir |-> 0]
  /\ sendDict = [d \in Dir |-> << >>]
  /\ codec = [d \in Dir |-> [blocked |-> FALSE, forceReencode |-> FALSE,
                             inflate |-> << >>, deflate |-> << >>, held |-> 0]]
  /\ recv = [d \in Dir |-> [dict |-> << >>, open |-> 0, got |-> << >>]]
  /\ consumed = [d \in Dir |-> {}]
  /\ degraded = FALSE
  /\ gone = {}
  /\ ctx = FALSE
  /\ errs = << >>
  /\ serve = "waiting"
  /\ closed = "open"

-----------------------------------------------------------------------------
(* Dictionaries.                                                           *)

(* Mutant: appendDict does not trim.                                       *)
Untrimmed(s, n) == s

LastTexts(s, n) == IF Len(s) <= n THEN s ELSE SubSeq(s, Len(s) - n + 1, Len(s))

(* observe / appendDict: remember a text, or forget all without takeover.  *)
Observed(d, dict, text) ==
  IF scenario.noTakeover[d] THEN << >> ELSE LastTexts(Append(dict, text), Window)

(* A message compressed against dict, referring back to its last share     *)
(* texts, inflates with theirs when those texts are the same in both.      *)
Decodes(theirs, dict, share) ==
  LET back == IF share <= Len(dict) THEN share ELSE Len(dict)
  IN  /\ back <= Len(theirs)
      /\ LastTexts(theirs, back) = LastTexts(dict, back)

TextOf(m, form) == [id |-> m.id, form |-> form]

(* The receiving peer completes a message compressed against dict.         *)
Received(d, r, m, text, dict, how) ==
  LET ok == m.rsv1 => Decodes(r.dict, dict, m.share)
      seen == IF ok THEN text ELSE TextOf(m, "garbled")
  IN  [dict |-> IF m.rsv1 THEN Observed(d, r.dict, seen) ELSE r.dict,
       open |-> 0,
       got  |-> Append(r.got, [id |-> m.id, rsv1 |-> m.rsv1,
                               how |-> how, ok |-> ok])]

(* The receiving peer reads n more frames of m as its source sent them.    *)
ReceivedRaw(d, r, m, n) ==
  IF r.open + n < m.frames
    THEN [r EXCEPT !.open = r.open + n]
    ELSE Received(d, r, m, TextOf(m, "sent"), sendDict[d], "raw")

-----------------------------------------------------------------------------
(* The ends of a pump iteration.                                           *)

Continue(d) == /\ pc' = [pc EXCEPT ![d] = "top"]
               /\ UNCHANGED errs

Stop(d, why) == /\ pc' = [pc EXCEPT ![d] = "done"]
                /\ errs' = Append(errs, [dir |-> d, why |-> why])

(* dst.Write: it may fail once the target's connection is closed.          *)
Write(d, r) ==
  \/ /\ recv' = [recv EXCEPT ![d] = r]
     /\ Continue(d)
  \/ /\ Target(d) \in gone
     /\ Stop(d, "write")
     /\ UNCHANGED recv

(* forwardFrames, and dst.Write(frame.Raw).                                *)
WriteRaw(d, m, n) == Write(d, ReceivedRaw(d, recv[d], m, n))

(* ErrFrameConsumed: the original frame is not forwarded.                  *)
Consume(d, m) ==
  /\ consumed' = [consumed EXCEPT ![d] = @ \cup {[id |-> m.id, rsv1 |-> m.rsv1]}]
  /\ Continue(d)
  /\ UNCHANGED recv

-----------------------------------------------------------------------------
(* Reading a frame.                                                        *)

Messages(d) ==
  {m \in [id : {sent[d] + 1}, kind : scenario.kinds, rsv1 : scenario.rsv1,
          frames : 1 .. MaxFrags, capAt : 0 .. MaxFrags,
          share : Shares \cup {0}] :
     /\ m.capAt <= m.frames
     /\ ~m.rsv1 => m.capAt = 0 /\ m.share = 0 /\ m.kind # "huge"}

Advance(d, m, n) ==
  /\ msg' = [msg EXCEPT ![d] = IF n = m.frames THEN NoMessage ELSE m]
  /\ read' = [read EXCEPT ![d] = IF n = m.frames THEN 0 ELSE n]
  /\ sendDict' = IF n = m.frames /\ m.rsv1
                   THEN [sendDict EXCEPT
                           ![d] = Observed(d, @, TextOf(m, "sent"))]
                   ELSE sendDict

FirstFrame(d, m) ==
  /\ pc[d] = "read"
  /\ Source(d) \notin gone
  /\ read[d] = 0
  /\ sent[d] < scenario.maxMsgs[d]
  /\ m \in Messages(d)
  /\ sent' = [sent EXCEPT ![d] = @ + 1]
  /\ Advance(d, m, 1)

NextFrame(d, m) ==
  /\ pc[d] = "read"
  /\ Source(d) \notin gone
  /\ read[d] > 0
  /\ m = msg[d]
  /\ Advance(d, m, read[d] + 1)
  /\ UNCHANGED sent

(* Mutant: canHandle ignores blocked.                                      *)
CanAlwaysHandle(d, m) == scenario.negotiated /\ m.rsv1

CanHandle(d, m) == scenario.negotiated /\ ~codec[d].blocked /\ m.rsv1

(* A text frame that pump passes to looksLikeJSONObject and Parse.         *)
PlainText(d, m) == ~m.rsv1 /\ ~degraded /\ scenario.verdicts[d] # {}

-----------------------------------------------------------------------------
(* finishCompressedMessage: every frame of m is buffered.                  *)

InSync(d, m) == Decodes(codec[d].inflate, sendDict[d], m.share)

(* Mutant: take() leaves the buffered frames.                              *)
InflatedNotTaken(d, m) ==
  [codec[d] EXCEPT !.inflate = Observed(d, @, TextOf(m, "sent"))]

(* The state finishCompressedMessage leaves after take() and Inflate.      *)
Inflated(d, m) ==
  [codec[d] EXCEPT !.held = 0,
                   !.inflate = Observed(d, @, TextOf(m, "sent"))]

SetCodec(d, c) == codec' = [codec EXCEPT ![d] = c]

(* Mutant: an inflate failure does not block the direction.                *)
InflateFailsUnblocked(d, m) ==
  /\ m.kind = "huge" \/ ~InSync(d, m)
  /\ SetCodec(d, [codec[d] EXCEPT !.held = 0])
  /\ WriteRaw(d, m, m.frames)
  /\ UNCHANGED <<consumed, degraded>>

(* InflateWithLimit fails: a bomb, or dictionaries that differ.            *)
InflateFails(d, m) ==
  /\ m.kind = "huge" \/ ~InSync(d, m)
  /\ SetCodec(d, [codec[d] EXCEPT !.held = 0, !.blocked = TRUE])
  /\ WriteRaw(d, m, m.frames)
  /\ UNCHANGED <<consumed, degraded>>

(* Mutants: Deflate does not remember the text; it remembers it without    *)
(* context takeover, too.                                                  *)
WriteDeflatedForgets(d, m, text) ==
  /\ SetCodec(d, Inflated(d, m))
  /\ Write(d, Received(d, recv[d], m, text, codec[d].deflate, "reencoded"))
WriteDeflatedKeeps(d, m, text) ==
  LET c == Inflated(d, m)
  IN  /\ SetCodec(d, [c EXCEPT !.deflate = LastTexts(Append(@, text), Window)])
      /\ Write(d, Received(d, recv[d], m, text, c.deflate, "reencoded"))

(* Deflate succeeds and writeCompressedDataFrames writes as many frames.   *)
WriteDeflated(d, m, text) ==
  LET c == Inflated(d, m)
  IN  /\ SetCodec(d, [c EXCEPT !.deflate = Observed(d, @, text)])
      /\ Write(d, Received(d, recv[d], m, text, c.deflate, "reencoded"))

(* Not an envelope, no handler, or the handler left it as it was.          *)
ForwardInflated(d, m) ==
  /\ UNCHANGED <<consumed, degraded>>
  /\ \/ /\ codec[d].forceReencode
        /\ WriteDeflated(d, m, TextOf(m, "sent"))
     \/ /\ codec[d].forceReencode
        /\ DeflateMayFail
        /\ SetCodec(d, [Inflated(d, m) EXCEPT !.blocked = TRUE])
        /\ Stop(d, "reencode")
        /\ UNCHANGED recv
     \/ /\ ~codec[d].forceReencode
        /\ SetCodec(d, [Inflated(d, m) EXCEPT
                          !.deflate = Observed(d, @, TextOf(m, "sent"))])
        /\ WriteRaw(d, m, m.frames)

CompressedParseFails(d, m) ==
  /\ degraded' = TRUE
  /\ SetCodec(d, Inflated(d, m))
  /\ WriteRaw(d, m, m.frames)
  /\ UNCHANGED consumed

(* Mutant: a consumed message does not force re-encoding.                  *)
ConsumeOnly(d, m) ==
  /\ SetCodec(d, Inflated(d, m))
  /\ Consume(d, m)
  /\ UNCHANGED degraded

ConsumeInflated(d, m) ==
  /\ SetCodec(d, [Inflated(d, m) EXCEPT !.forceReencode = TRUE])
  /\ Consume(d, m)
  /\ UNCHANGED degraded

HandlerFails(d, m) ==
  /\ SetCodec(d, Inflated(d, m))
  /\ Stop(d, "handler")
  /\ UNCHANGED <<recv, consumed, degraded>>

ReplaceInflated(d, m) ==
  /\ UNCHANGED <<consumed, degraded>>
  /\ \/ WriteDeflated(d, m, TextOf(m, "rewritten"))
     \/ /\ DeflateMayFail
        /\ SetCodec(d, [Inflated(d, m) EXCEPT !.blocked = TRUE])
        /\ WriteRaw(d, m, m.frames)

FinishCompressed(d, m) ==
  \/ InflateFails(d, m)
  \/ /\ m.kind # "huge" /\ InSync(d, m)
     /\ \/ /\ \/ m.kind = "other"
              \/ scenario.verdicts[d] = {}
              \/ m.kind = "envelope" /\ "keep" \in scenario.verdicts[d]
           /\ ForwardInflated(d, m)
        \/ /\ m.kind = "malformed" /\ scenario.verdicts[d] # {}
           /\ CompressedParseFails(d, m)
        \/ /\ m.kind = "envelope"
           /\ \/ "consume" \in scenario.verdicts[d] /\ ConsumeInflated(d, m)
              \/ "fail" \in scenario.verdicts[d] /\ HandlerFails(d, m)
              \/ "replace" \in scenario.verdicts[d] /\ ReplaceInflated(d, m)

(* start / add, the size cap, and the wait for the final frame.            *)
Buffer(d, m) ==
  LET held == codec[d].held + 1
  IN  \/ /\ held = m.capAt
         /\ SetCodec(d, [codec[d] EXCEPT !.held = 0, !.blocked = TRUE])
         /\ WriteRaw(d, m, held)
         /\ UNCHANGED <<consumed, degraded>>
      \/ /\ held # m.capAt /\ held < m.frames
         /\ SetCodec(d, [codec[d] EXCEPT !.held = held])
         /\ Continue(d)
         /\ UNCHANGED <<recv, consumed, degraded>>
      \/ /\ held # m.capAt /\ held = m.frames
         /\ FinishCompressed(d, m)

-----------------------------------------------------------------------------
(* pump, one action per path of an iteration.                              *)

Cancelled == ctx \/ serve = "returned"

CheckContext(d) ==
  /\ pc[d] = "top"
  /\ IF Cancelled THEN Stop(d, "ctx")
                  ELSE pc' = [pc EXCEPT ![d] = "read"] /\ UNCHANGED errs
  /\ UNCHANGED <<inputVars, codec, recv, consumed, degraded, serveVars>>

ReadFails(d) ==
  /\ pc[d] = "read"
  /\ Source(d) \in gone
  /\ \E why \in {"eof", "read"} : Stop(d, why)
  /\ UNCHANGED <<inputVars, codec, recv, consumed, degraded, serveVars>>

(* handleCompressedFrame, and handleContinuationFrame while pending.       *)
HandleCompressed(d) ==
  /\ \E m \in Messages(d) \cup {msg[d]} :
       /\ \/ FirstFrame(d, m) /\ CanHandle(d, m)
          \/ NextFrame(d, m) /\ codec[d].held > 0
       /\ Buffer(d, m)
  /\ UNCHANGED serveVars

(* handleContinuationFrame of a message that is not buffered.              *)
ForwardContinuation(d) ==
  /\ NextFrame(d, msg[d])
  /\ codec[d].held = 0
  /\ WriteRaw(d, msg[d], 1)
  /\ UNCHANGED <<codec, consumed, degraded, serveVars>>

(* Control frames and binary frames, between or within messages.           *)
ForwardControl(d) ==
  /\ pc[d] = "read"
  /\ Source(d) \notin gone
  /\ Write(d, recv[d])
  /\ UNCHANGED <<inputVars, codec, consumed, degraded, serveVars>>

(* RSV frames that cannot be handled, a degraded session, a nil handler,   *)
(* an empty payload, and texts that are no JSON object.                    *)
PassThrough(d) ==
  /\ \E m \in Messages(d) :
       /\ FirstFrame(d, m)
       /\ ~CanHandle(d, m)
       /\ ~PlainText(d, m) \/ m.kind = "other"
       /\ WriteRaw(d, m, 1)
  /\ UNCHANGED <<codec, consumed, degraded, serveVars>>

(* Parse fails, as it does on the first frame of a fragmented envelope:    *)
(* peers cut a text where it is no JSON value yet. (A first frame with all *)
(* of the object and blanks to follow would parse; no peer sends one.)     *)
PlainParseFails(d) ==
  /\ \E m \in Messages(d) :
       /\ FirstFrame(d, m)
       /\ PlainText(d, m)
       /\ m.kind = "malformed" \/ (m.kind = "envelope" /\ m.frames > 1)
       /\ WriteRaw(d, m, 1)
  /\ degraded' = TRUE
  /\ UNCHANGED <<codec, consumed, serveVars>>

HandlePlain(d) ==
  /\ \E m \in Messages(d) :
       /\ FirstFrame(d, m)
       /\ PlainText(d, m)
       /\ m.kind = "envelope" /\ m.frames = 1
       /\ \/ /\ "keep" \in scenario.verdicts[d]
             /\ WriteRaw(d, m, 1) /\ UNCHANGED consumed
          \/ /\ "replace" \in scenario.verdicts[d]
             /\ Write(d, Received(d, recv[d], m, TextOf(m, "rewritten"),
                                  << >>, "reencoded"))
             /\ UNCHANGED consumed
          \/ /\ "consume" \in scenario.verdicts[d]
             /\ Consume(d, m)
          \/ /\ "fail" \in scenario.verdicts[d]
             /\ Stop(d, "handler") /\ UNCHANGED <<recv, consumed>>
  /\ UNCHANGED <<codec, degraded, serveVars>>

-----------------------------------------------------------------------------
(* Serve, its caller, and the environment.                                 *)

(* Mutant: source and target swapped.                                      *)
ClassifySwapped(result) ==
  LET other == IF result.dir = "c2s" THEN "upstream" ELSE "client"
      err == [client |-> "client_error", upstream |-> "upstream_error"]
      eof == [client |-> "client_eof", upstream |-> "upstream_eof"]
  IN  CASE result.why = "eof" -> eof[other]
        [] result.why = "ctx" -> "context_cancel"
        [] result.why \in {"handler", "reencode"} -> "our_error"
        [] OTHER -> err[other]

(* classifySessionClose.                                                   *)
Classify(result) ==
  LET source == IF result.dir = "c2s" THEN "client" ELSE "upstream"
      target == IF result.dir = "c2s" THEN "upstream" ELSE "client"
      err == [client |-> "client_error", upstream |-> "upstream_error"]
      eof == [client |-> "client_eof", upstream |-> "upstream_eof"]
  IN  CASE result.why = "eof" -> eof[source]
        [] result.why = "ctx" -> "context_cancel"
        [] result.why \in {"handler", "reencode"} -> "our_error"
        [] result.why = "read" -> err[source]
        [] result.why = "write" -> err[target]

ServeRecordsClose ==
  /\ serve = "waiting"
  /\ errs # << >>
  /\ closed' = Classify(Head(errs))
  /\ serve' = "recorded"
  /\ UNCHANGED <<scenario, pumpVars, inputVars, codec, recv, consumed, degraded,
                 gone, ctx>>

(* The deferred cancel() runs as Serve returns.                            *)
ServeReturns ==
  /\ serve = "recorded"
  /\ serve' = "returned"
  /\ UNCHANGED <<scenario, pumpVars, inputVars, codec, recv, consumed, degraded,
                 gone, ctx, closed>>

(* Mutant: only the client connection is closed.                           *)
CallerClosesClient ==
  /\ serve = "returned"
  /\ "client" \notin gone
  /\ gone' = gone \cup {"client"}
  /\ UNCHANGED <<scenario, pumpVars, inputVars, codec, recv, consumed, degraded,
                 ctx, serve, closed>>

(* The caller closes both connections once Serve has returned.             *)
CallerCloses ==
  /\ serve = "returned"
  /\ gone # Peer
  /\ gone' = Peer
  /\ UNCHANGED <<scenario, pumpVars, inputVars, codec, recv, consumed, degraded,
                 ctx, serve, closed>>

ContextCancelled ==
  /\ scenario.cancels
  /\ ~ctx
  /\ ctx' = TRUE
  /\ UNCHANGED <<scenario, pumpVars, inputVars, codec, recv, consumed, degraded,
                 gone, serve, closed>>

PeerLeaves(p) ==
  /\ p \in scenario.leavers \ gone
  /\ gone' = gone \cup {p}
  /\ UNCHANGED <<scenario, pumpVars, inputVars, codec, recv, consumed, degraded,
                 ctx, serve, closed>>

Finished == /\ \A d \in Dir : pc[d] = "done"
            /\ serve = "returned"
            /\ gone = Peer
            /\ UNCHANGED vars

Pump(d) == \/ CheckContext(d)
           \/ ReadFails(d)
           \/ HandleCompressed(d)
           \/ ForwardContinuation(d)
           \/ ForwardControl(d)
           \/ PassThrough(d)
           \/ PlainParseFails(d)
           \/ HandlePlain(d)

Next == \/ \E d \in Dir : Pump(d)
        \/ ServeRecordsClose
        \/ ServeReturns
        \/ CallerCloses
        \/ ContextCancelled
        \/ \E p \in Peer : PeerLeaves(p)
        \/ Finished

Spec == Init /\ [][Next]_vars

(* A pump at the top of its loop runs on, a read of a closed connection    *)
(* returns, Serve runs on, and the caller keeps its contract.  Nothing     *)
(* makes a peer send, leave, or the context end.                           *)
Fairness == /\ \A d \in Dir : WF_vars(CheckContext(d)) /\ WF_vars(ReadFails(d))
            /\ WF_vars(ServeRecordsClose)
            /\ WF_vars(ServeReturns)
            /\ WF_vars(CallerCloses)

FairSpec == Spec /\ Fairness
-----------------------------------------------------------------------------
(* Properties.                                                             *)

(* Every variable holds a value of the type the code gives it.             *)
TypeOK ==
  /\ scenario \in Scenarios
  /\ pc \in [Dir -> {"top", "read", "done"}]
  /\ msg \in [Dir -> Message]
  /\ read \in [Dir -> Nat]
  /\ sent \in [Dir -> Nat]
  /\ sendDict \in [Dir -> Dictionary]
  /\ codec \in [Dir -> Codec]
  /\ recv \in [Dir -> Receiver]
  /\ consumed \in [Dir -> SUBSET Taken]
  /\ degraded \in BOOLEAN
  /\ gone \subseteq Peer
  /\ ctx \in BOOLEAN
  /\ errs \in Seq([dir : Dir, why : Outcome])
  /\ serve \in {"waiting", "recorded", "returned"}
  /\ closed \in Initiator

GotIds(d) == {recv[d].got[i].id : i \in DOMAIN recv[d].got}
TakenIds(d) == {t.id : t \in consumed[d]}
Complete(d) == IF read[d] > 0 THEN sent[d] - 1 ELSE sent[d]

(* While a pump runs, every complete message of its source has reached the *)
(* target exactly once and in order, or was consumed by the handler; the   *)
(* frames of an incomplete one are all buffered or all forwarded.  It is   *)
(* about take() on every path out of the compressed branch, the size cap   *)
(* in the middle of a fragmented message included.                         *)
ExactlyOnceInOrder ==
  \A d \in Dir : pc[d] # "done" =>
    /\ \A i, j \in DOMAIN recv[d].got :
         i < j => recv[d].got[i].id < recv[d].got[j].id
    /\ GotIds(d) \cup TakenIds(d) = 1 .. Complete(d)
    /\ GotIds(d) \cap TakenIds(d) = {}
    /\ codec[d].held + recv[d].open = read[d]

(* As long as a direction is inspected, the inflate dictionary is the      *)
(* source's own: the plaintext the handler judges is what the source       *)
(* wrote, whatever was buffered, consumed, rewritten or passed through.    *)
InspectorInSync ==
  \A d \in Dir :
    scenario.negotiated /\ ~codec[d].blocked => codec[d].inflate = sendDict[d]

(* The frames of a compressed message are buffered all or none: a          *)
(* direction that is inspected holds every frame it has read of the        *)
(* message, and one that is not holds none, so no message is inflated with *)
(* a frame missing or left behind in the buffer.                           *)
HoldsAllOrNone ==
  \A d \in Dir :
    LET inspected == scenario.negotiated /\ ~codec[d].blocked
    IN  /\ read[d] > 0 => read[d] < msg[d].frames
        /\ codec[d].held \in {0, read[d]}
        /\ codec[d].held > 0 => inspected /\ msg[d].rsv1
        /\ inspected /\ msg[d].rsv1 => codec[d].held = read[d]

(* What a direction that is inspected shows the handler is whole, and is   *)
(* what the source wrote.                                                  *)
InspectorTrusted == InspectorInSync /\ HoldsAllOrNone

AllDecodable(d) == \A i \in DOMAIN recv[d].got : recv[d].got[i].ok

(* A compressed message went out byte-equal after an earlier compressed    *)
(* one was rewritten or consumed.                                          *)
RawAfterRewrite(d) ==
  \E i \in DOMAIN recv[d].got :
    /\ recv[d].got[i].rsv1 /\ recv[d].got[i].how = "raw"
    /\ \/ \E j \in 1 .. i - 1 : /\ recv[d].got[j].rsv1
                                /\ recv[d].got[j].how = "reencoded"
       \/ \E t \in consumed[d] : t.rsv1 /\ t.id < recv[d].got[i].id

(* Until the session degrades, a direction in which nothing compressed     *)
(* went out byte-equal after a rewritten or consumed message is decodable  *)
(* at its target: Observe, Deflate and forceReencode keep the deflate      *)
(* dictionary equal to the target's.                                       *)
DecodableUnlessRawAfterRewrite ==
  \A d \in Dir : ~degraded /\ ~RawAfterRewrite(d) => AllDecodable(d)

(* With no_context_takeover every message decodes, after any sequence of   *)
(* rewriting, consuming, capping, failing and degrading.                   *)
NoTakeoverDecodable == \A d \in Dir : scenario.noTakeover[d] => AllDecodable(d)

(* forceReencode: once the handler consumed a compressed message, no later *)
(* compressed message of that direction goes out byte-equal, unless        *)
(* compression handling was blocked or the session degraded.               *)
ConsumedForcesReencode ==
  \A d \in Dir : ~degraded /\ ~codec[d].blocked =>
    \A t \in consumed[d], i \in DOMAIN recv[d].got :
      /\ t.rsv1 /\ recv[d].got[i].rsv1 /\ t.id < recv[d].got[i].id
      => recv[d].got[i].how = "reencoded"

Delivers(d) == recv'[d].got # recv[d].got
LastDelivered(d) == recv'[d].got[Len(recv'[d].got)]

(* A cap or a codec error disables compressed mutation for that direction  *)
(* for good: what is delivered afterwards is what the source sent.         *)
BlockedEndsMutation ==
  [][\A d \in Dir : codec[d].blocked /\ Delivers(d) /\ LastDelivered(d).rsv1
       => LastDelivered(d).how = "raw"]_vars

(* The recorded close initiator names a peer that really left, or an error *)
(* of the bridge itself; never the peer at the other end.                  *)
BlameIsReal ==
  /\ closed \in {"client_eof", "client_error"} => "client" \in gone
  /\ closed \in {"upstream_eof", "upstream_error"} => "upstream" \in gone
  /\ closed = "our_error" => \E i \in DOMAIN errs :
                               errs[i].why \in {"handler", "reencode"}

(* Once one pump stops, for whatever reason, Serve returns and, both       *)
(* connections being closed by its caller, the other pump stops as well.   *)
Unwinds == (\E d \in Dir : pc[d] = "done")
             ~> (serve = "returned" /\ \A d \in Dir : pc[d] = "done")

(* What docs/documentation.md says of forwarding unmodified messages       *)
(* byte-equal beside mutated ones: every message still decodes.            *)
AllTextsDecode == \A d \in Dir : AllDecodable(d)

(* What the comment on Session says of Degraded: byte-copy mode for the    *)
(* rest of the session, so nothing is rewritten or consumed any more.      *)
DegradedIsByteCopy ==
  [][degraded => /\ consumed' = consumed
                 /\ \A d \in Dir : Delivers(d)
                                     => LastDelivered(d).how = "raw"]_vars

(* What the comment on Serve says: it runs until either side closes or ctx *)
(* is cancelled.                                                           *)
CancelEndsServe == ctx ~> (serve = "returned")
=============================================================================
