--------------------------- MODULE WsSession_proofs ---------------------------
(***************************************************************************)
(* Theorems about WsSession: its type invariant, that the inspector's      *)
(* dictionary is the source's own as long as a direction is inspected,     *)
(* that every message decodes without context takeover, that the recorded  *)
(* close initiator is real, that a blocked direction mutates nothing, that *)
(* every message is delivered or consumed exactly once and in order, that  *)
(* consuming forces re-encoding, and that what is delivered decodes until  *)
(* the session degrades or a message goes out byte-equal after a rewritten *)
(* one, for every set of scenarios and every value of the bounds.          *)
(***************************************************************************)
EXTENDS WsSession, SequenceTheorems, TLAPS

-----------------------------------------------------------------------------
(* Dictionaries and receivers.                                             *)

LEMMA LastTextsType ==
  ASSUME NEW S, NEW s \in Seq(S), NEW n \in Nat
  PROVE  LastTexts(s, n) \in Seq(S) /\ Len(LastTexts(s, n)) <= n
<1>1. CASE Len(s) <= n
  BY <1>1 DEF LastTexts
<1>2. CASE Len(s) > n
  <2>1. /\ Len(s) - n + 1 \in Int
        /\ Len(s) \in Int
        /\ \A i \in Len(s) - n + 1 .. Len(s) : s[i] \in S
    BY <1>2
  <2>2. /\ SubSeq(s, Len(s) - n + 1, Len(s)) \in Seq(S)
        /\ Len(SubSeq(s, Len(s) - n + 1, Len(s)))
             = IF Len(s) - n + 1 <= Len(s) THEN Len(s) - (Len(s) - n + 1) + 1 ELSE 0
    BY <2>1, SubSeqProperties
  <2>3. QED BY <1>2, <2>1, <2>2 DEF LastTexts
<1>3. QED BY <1>1, <1>2

LEMMA ObservedType ==
  ASSUME NEW d, NEW dict \in Dictionary, NEW text \in Text
  PROVE  Observed(d, dict, text) \in Dictionary
<1>1. Append(dict, text) \in Seq(Text)
  BY DEF Dictionary
<1>2. /\ LastTexts(Append(dict, text), Window) \in Seq(Text)
      /\ Len(LastTexts(Append(dict, text), Window)) <= Window
  BY <1>1, LastTextsType, SessionAssumption
<1>3. << >> \in Dictionary
  BY SessionAssumption DEF Dictionary
<1>4. QED BY <1>2, <1>3 DEF Observed, Dictionary

LEMMA TextOfType ==
  ASSUME NEW m \in Message, NEW form \in {"sent", "rewritten", "garbled"}
  PROVE  TextOf(m, form) \in Text
BY DEF TextOf, Text, Message

LEMMA ReceivedType ==
  ASSUME NEW d, NEW r \in Receiver, NEW m \in Message, NEW text \in Text,
         NEW dict, NEW how \in {"raw", "reencoded"}
  PROVE  Received(d, r, m, text, dict, how) \in Receiver
<1> DEFINE ok == m.rsv1 => Decodes(r.dict, dict, m.share)
           seen == IF ok THEN text ELSE TextOf(m, "garbled")
           delivery == [id |-> m.id, rsv1 |-> m.rsv1, how |-> how, ok |-> ok]
<1>1. seen \in Text
  BY TextOfType
<1>2. r.dict \in Dictionary /\ r.got \in Seq(Delivery)
  BY DEF Receiver
<1>3. Observed(d, r.dict, seen) \in Dictionary
  BY <1>1, <1>2, ObservedType
<1>4. ok \in BOOLEAN
  BY DEF Message, Decodes
<1>5. delivery \in Delivery
  BY <1>4 DEF Delivery, Message
<1>6. Append(r.got, delivery) \in Seq(Delivery)
  BY <1>2, <1>5
<1>7. QED BY <1>2, <1>3, <1>6 DEF Received, Receiver

LEMMA ReceivedRawType ==
  ASSUME NEW d, NEW r \in Receiver, NEW m \in Message, NEW n \in Nat
  PROVE  ReceivedRaw(d, r, m, n) \in Receiver
<1>1. TextOf(m, "sent") \in Text
  BY TextOfType
<1>2. Received(d, r, m, TextOf(m, "sent"), sendDict[d], "raw") \in Receiver
  BY <1>1, ReceivedType
<1>3. [r EXCEPT !.open = r.open + n] \in Receiver
  BY DEF Receiver
<1>4. QED BY <1>2, <1>3 DEF ReceivedRaw

-----------------------------------------------------------------------------
(* Parts of a pump iteration.                                              *)

LEMMA StopType ==
  ASSUME TypeOK, NEW d \in Dir, NEW why \in Outcome, Stop(d, why)
  PROVE  /\ pc' \in [Dir -> {"top", "read", "done"}]
         /\ errs' \in Seq([dir : Dir, why : Outcome])
BY DEF TypeOK, Stop

LEMMA WriteType ==
  ASSUME TypeOK, NEW d \in Dir, NEW r \in Receiver, Write(d, r)
  PROVE  /\ pc' \in [Dir -> {"top", "read", "done"}]
         /\ errs' \in Seq([dir : Dir, why : Outcome])
         /\ recv' \in [Dir -> Receiver]
<1>1. CASE recv' = [recv EXCEPT ![d] = r] /\ Continue(d)
  BY <1>1 DEF TypeOK, Continue
<1>2. CASE Stop(d, "write") /\ UNCHANGED recv
  BY <1>2, StopType DEF TypeOK, Outcome
<1>3. QED BY <1>1, <1>2 DEF Write

LEMMA WriteRawType ==
  ASSUME TypeOK, NEW d \in Dir, NEW m \in Message, NEW n \in Nat,
         WriteRaw(d, m, n)
  PROVE  /\ pc' \in [Dir -> {"top", "read", "done"}]
         /\ errs' \in Seq([dir : Dir, why : Outcome])
         /\ recv' \in [Dir -> Receiver]
<1>1. recv[d] \in Receiver
  BY DEF TypeOK
<1>2. ReceivedRaw(d, recv[d], m, n) \in Receiver
  BY <1>1, ReceivedRawType
<1>3. QED BY <1>2, WriteType DEF WriteRaw

(* What Advance makes of the message being read and the source's           *)
(* dictionary.                                                             *)
LEMMA AdvanceType ==
  ASSUME TypeOK, NEW d \in Dir, NEW m \in Message, NEW n \in Nat, Advance(d, m, n)
  PROVE  /\ msg' \in [Dir -> Message]
         /\ read' \in [Dir -> Nat]
         /\ sendDict' \in [Dir -> Dictionary]
<1>1. NoMessage \in Message
  BY DEF NoMessage, Message, AllKinds
<1>2. Observed(d, sendDict[d], TextOf(m, "sent")) \in Dictionary
  BY ObservedType, TextOfType DEF TypeOK
<1>3. QED BY <1>1, <1>2 DEF TypeOK, Advance

LEMMA FirstFrameType ==
  ASSUME TypeOK, NEW d \in Dir, NEW m, FirstFrame(d, m)
  PROVE  /\ m \in Message
         /\ msg' \in [Dir -> Message]
         /\ read' \in [Dir -> Nat]
         /\ sent' \in [Dir -> Nat]
         /\ sendDict' \in [Dir -> Dictionary]
<1>1. m \in Message
  <2>1. sent[d] + 1 \in Nat
    BY DEF TypeOK
  <2>2. scenario.kinds \subseteq AllKinds /\ scenario.rsv1 \subseteq BOOLEAN
    BY SessionAssumption DEF TypeOK, Scenario
  <2>3. Shares \cup {0} \subseteq Nat /\ 1 .. MaxFrags \subseteq Nat
        /\ 0 .. MaxFrags \subseteq Nat
    BY SessionAssumption
  <2>4. QED BY <2>1, <2>2, <2>3 DEF FirstFrame, Messages, Message
<1>2. Advance(d, m, 1) /\ sent' = [sent EXCEPT ![d] = @ + 1]
  BY DEF FirstFrame
<1>3. QED BY <1>1, <1>2, AdvanceType DEF TypeOK

LEMMA NextFrameType ==
  ASSUME TypeOK, NEW d \in Dir, NEW m, NextFrame(d, m)
  PROVE  /\ m \in Message
         /\ msg' \in [Dir -> Message]
         /\ read' \in [Dir -> Nat]
         /\ sent' \in [Dir -> Nat]
         /\ sendDict' \in [Dir -> Dictionary]
<1>1. m \in Message /\ read[d] + 1 \in Nat
  BY DEF TypeOK, NextFrame
<1>2. Advance(d, m, read[d] + 1) /\ sent' = sent
  BY DEF NextFrame
<1>3. QED BY <1>1, <1>2, AdvanceType DEF TypeOK

LEMMA InflatedType ==
  ASSUME TypeOK, NEW d \in Dir, NEW m \in Message
  PROVE  Inflated(d, m) \in Codec
<1>1. codec[d] \in Codec
  BY DEF TypeOK
<1>2. Observed(d, codec[d].inflate, TextOf(m, "sent")) \in Dictionary
  BY <1>1, ObservedType, TextOfType DEF Codec
<1>3. QED BY <1>1, <1>2 DEF Inflated, Codec

(* What a step of the compressed branch leaves typed.                      *)
Typed ==
  /\ pc \in [Dir -> {"top", "read", "done"}]
  /\ codec \in [Dir -> Codec]
  /\ recv \in [Dir -> Receiver]
  /\ consumed \in [Dir -> SUBSET Taken]
  /\ degraded \in BOOLEAN
  /\ errs \in Seq([dir : Dir, why : Outcome])

LEMMA SetCodecType ==
  ASSUME TypeOK, NEW d \in Dir, NEW c \in Codec, SetCodec(d, c)
  PROVE  codec' \in [Dir -> Codec]
BY DEF TypeOK, SetCodec

LEMMA ConsumeType ==
  ASSUME TypeOK, NEW d \in Dir, NEW m \in Message, Consume(d, m)
  PROVE  /\ pc' \in [Dir -> {"top", "read", "done"}]
         /\ errs' \in Seq([dir : Dir, why : Outcome])
         /\ recv' \in [Dir -> Receiver]
         /\ consumed' \in [Dir -> SUBSET Taken]
<1>1. [id |-> m.id, rsv1 |-> m.rsv1] \in Taken
  BY DEF Message, Taken
<1>2. QED BY <1>1 DEF TypeOK, Consume, Continue

LEMMA WriteDeflatedType ==
  ASSUME TypeOK, NEW d \in Dir, NEW m \in Message, NEW text \in Text,
         WriteDeflated(d, m, text), UNCHANGED <<consumed, degraded>>
  PROVE  Typed'
<1> DEFINE c == Inflated(d, m)
<1>1. c \in Codec /\ c.deflate \in Dictionary
  BY InflatedType DEF Codec
<1>2. Observed(d, c.deflate, text) \in Dictionary
  BY <1>1, ObservedType
<1>3. [c EXCEPT !.deflate = Observed(d, c.deflate, text)] \in Codec
  BY <1>1, <1>2 DEF Codec
<1>4. codec' \in [Dir -> Codec]
  BY <1>3, SetCodecType DEF WriteDeflated
<1>5. recv[d] \in Receiver
  BY DEF TypeOK
<1>6. Received(d, recv[d], m, text, c.deflate, "reencoded") \in Receiver
  BY <1>5, ReceivedType
<1>7. Write(d, Received(d, recv[d], m, text, c.deflate, "reencoded"))
  BY DEF WriteDeflated
<1>8. QED BY <1>4, <1>6, <1>7, WriteType DEF Typed, TypeOK

LEMMA InflateFailsType ==
  ASSUME TypeOK, NEW d \in Dir, NEW m \in Message, InflateFails(d, m)
  PROVE  Typed'
<1>1. [codec[d] EXCEPT !.held = 0, !.blocked = TRUE] \in Codec
  BY DEF TypeOK, Codec
<1>2. codec' \in [Dir -> Codec]
  BY <1>1, SetCodecType DEF InflateFails
<1>3. m.frames \in Nat /\ WriteRaw(d, m, m.frames)
  BY DEF Message, InflateFails
<1>4. QED BY <1>2, <1>3, WriteRawType DEF Typed, TypeOK, InflateFails

LEMMA ForwardInflatedType ==
  ASSUME TypeOK, NEW d \in Dir, NEW m \in Message, ForwardInflated(d, m)
  PROVE  Typed'
<1> DEFINE c == Inflated(d, m)
<1>1. c \in Codec /\ c.deflate \in Dictionary /\ TextOf(m, "sent") \in Text
  BY InflatedType, TextOfType DEF Codec
<1>2. UNCHANGED <<consumed, degraded>>
  BY DEF ForwardInflated
<1>3. CASE WriteDeflated(d, m, TextOf(m, "sent"))
  BY <1>1, <1>2, <1>3, WriteDeflatedType
<1>4. CASE /\ SetCodec(d, [c EXCEPT !.blocked = TRUE])
           /\ Stop(d, "reencode")
           /\ UNCHANGED recv
  <2>1. [c EXCEPT !.blocked = TRUE] \in Codec
    BY <1>1 DEF Codec
  <2>2. QED BY <1>2, <1>4, <2>1, SetCodecType, StopType
              DEF Typed, TypeOK, Outcome
<1>5. CASE /\ SetCodec(d, [c EXCEPT !.deflate = Observed(d, c.deflate, TextOf(m, "sent"))])
           /\ WriteRaw(d, m, m.frames)
  <2>1. Observed(d, c.deflate, TextOf(m, "sent")) \in Dictionary
    BY <1>1, ObservedType
  <2>2. [c EXCEPT !.deflate = Observed(d, c.deflate, TextOf(m, "sent"))] \in Codec
    BY <1>1, <2>1 DEF Codec
  <2>3. m.frames \in Nat
    BY DEF Message
  <2>4. QED BY <1>2, <1>5, <2>2, <2>3, SetCodecType, WriteRawType
              DEF Typed, TypeOK
<1>6. QED BY <1>3, <1>4, <1>5 DEF ForwardInflated

LEMMA ReplaceInflatedType ==
  ASSUME TypeOK, NEW d \in Dir, NEW m \in Message, ReplaceInflated(d, m)
  PROVE  Typed'
<1>1. UNCHANGED <<consumed, degraded>> /\ TextOf(m, "rewritten") \in Text
  BY TextOfType DEF ReplaceInflated
<1>2. CASE WriteDeflated(d, m, TextOf(m, "rewritten"))
  BY <1>1, <1>2, WriteDeflatedType
<1>3. CASE /\ SetCodec(d, [Inflated(d, m) EXCEPT !.blocked = TRUE])
           /\ WriteRaw(d, m, m.frames)
  <2>1. [Inflated(d, m) EXCEPT !.blocked = TRUE] \in Codec
    BY InflatedType DEF Codec
  <2>2. m.frames \in Nat
    BY DEF Message
  <2>3. QED BY <1>1, <1>3, <2>1, <2>2, SetCodecType, WriteRawType
              DEF Typed, TypeOK
<1>4. QED BY <1>2, <1>3 DEF ReplaceInflated

LEMMA FinishCompressedType ==
  ASSUME TypeOK, NEW d \in Dir, NEW m \in Message, FinishCompressed(d, m)
  PROVE  Typed'
<1>1. Inflated(d, m) \in Codec /\ m.frames \in Nat
  BY InflatedType DEF Message
<1>2. CASE InflateFails(d, m)
  BY <1>2, InflateFailsType
<1>3. CASE ForwardInflated(d, m)
  BY <1>3, ForwardInflatedType
<1>4. CASE CompressedParseFails(d, m)
  BY <1>1, <1>4, SetCodecType, WriteRawType
     DEF Typed, TypeOK, CompressedParseFails
<1>5. CASE ConsumeInflated(d, m)
  <2>1. [Inflated(d, m) EXCEPT !.forceReencode = TRUE] \in Codec
    BY <1>1 DEF Codec
  <2>2. QED BY <1>5, <2>1, SetCodecType, ConsumeType
              DEF Typed, TypeOK, ConsumeInflated
<1>6. CASE HandlerFails(d, m)
  BY <1>1, <1>6, SetCodecType, StopType
     DEF Typed, TypeOK, HandlerFails, Outcome
<1>7. CASE ReplaceInflated(d, m)
  BY <1>7, ReplaceInflatedType
<1>8. QED BY <1>2, <1>3, <1>4, <1>5, <1>6, <1>7 DEF FinishCompressed

LEMMA BufferType ==
  ASSUME TypeOK, NEW d \in Dir, NEW m \in Message, Buffer(d, m)
  PROVE  Typed'
<1> DEFINE held == codec[d].held + 1
<1>1. codec[d] \in Codec /\ held \in Nat
  BY DEF TypeOK, Codec
<1>2. CASE /\ SetCodec(d, [codec[d] EXCEPT !.held = 0, !.blocked = TRUE])
           /\ WriteRaw(d, m, held)
           /\ UNCHANGED <<consumed, degraded>>
  <2>1. [codec[d] EXCEPT !.held = 0, !.blocked = TRUE] \in Codec
    BY <1>1 DEF Codec
  <2>2. QED BY <1>1, <1>2, <2>1, SetCodecType, WriteRawType DEF Typed, TypeOK
<1>3. CASE /\ SetCodec(d, [codec[d] EXCEPT !.held = held])
           /\ Continue(d)
           /\ UNCHANGED <<recv, consumed, degraded>>
  <2>1. [codec[d] EXCEPT !.held = held] \in Codec
    BY <1>1 DEF Codec
  <2>2. QED BY <1>3, <2>1, SetCodecType DEF Typed, TypeOK, Continue
<1>4. CASE FinishCompressed(d, m)
  BY <1>4, FinishCompressedType
<1>5. QED BY <1>2, <1>3, <1>4 DEF Buffer

-----------------------------------------------------------------------------
(* Type correctness.                                                       *)

LEMMA ServeVarsType ==
  ASSUME TypeOK, UNCHANGED serveVars, Typed',
         msg' \in [Dir -> Message], read' \in [Dir -> Nat],
         sent' \in [Dir -> Nat], sendDict' \in [Dir -> Dictionary]
  PROVE  TypeOK'
BY DEF TypeOK, Typed, serveVars

LEMMA CheckContextType ==
  ASSUME TypeOK, NEW d \in Dir, CheckContext(d)
  PROVE  TypeOK'
<1>1. /\ pc' \in [Dir -> {"top", "read", "done"}]
      /\ errs' \in Seq([dir : Dir, why : Outcome])
  <2>1. CASE Stop(d, "ctx")
    BY <2>1, StopType DEF Outcome
  <2>2. CASE pc' = [pc EXCEPT ![d] = "read"] /\ UNCHANGED errs
    BY <2>2 DEF TypeOK
  <2>3. QED BY <2>1, <2>2 DEF CheckContext
<1>2. QED BY <1>1, ServeVarsType DEF CheckContext, TypeOK, Typed, inputVars

LEMMA ReadFailsType ==
  ASSUME TypeOK, NEW d \in Dir, ReadFails(d)
  PROVE  TypeOK'
<1>1. PICK why \in {"eof", "read"} : Stop(d, why)
  BY DEF ReadFails
<1>2. /\ pc' \in [Dir -> {"top", "read", "done"}]
      /\ errs' \in Seq([dir : Dir, why : Outcome])
  BY <1>1, StopType DEF Outcome
<1>3. QED BY <1>2, ServeVarsType DEF ReadFails, TypeOK, Typed, inputVars

LEMMA HandleCompressedType ==
  ASSUME TypeOK, NEW d \in Dir, HandleCompressed(d)
  PROVE  TypeOK'
<1>1. PICK m : /\ FirstFrame(d, m) \/ NextFrame(d, m)
               /\ Buffer(d, m)
  BY DEF HandleCompressed
<1>2. /\ m \in Message
      /\ msg' \in [Dir -> Message] /\ read' \in [Dir -> Nat]
      /\ sent' \in [Dir -> Nat] /\ sendDict' \in [Dir -> Dictionary]
  BY <1>1, FirstFrameType, NextFrameType
<1>3. Typed'
  BY <1>1, <1>2, BufferType
<1>4. QED BY <1>2, <1>3, ServeVarsType DEF HandleCompressed

LEMMA ForwardContinuationType ==
  ASSUME TypeOK, NEW d \in Dir, ForwardContinuation(d)
  PROVE  TypeOK'
<1>1. NextFrame(d, msg[d]) /\ WriteRaw(d, msg[d], 1)
  BY DEF ForwardContinuation
<1>2. /\ msg[d] \in Message
      /\ msg' \in [Dir -> Message] /\ read' \in [Dir -> Nat]
      /\ sent' \in [Dir -> Nat] /\ sendDict' \in [Dir -> Dictionary]
  BY <1>1, NextFrameType
<1>3. Typed'
  BY <1>1, <1>2, WriteRawType DEF ForwardContinuation, TypeOK, Typed
<1>4. QED BY <1>2, <1>3, ServeVarsType DEF ForwardContinuation

LEMMA ForwardControlType ==
  ASSUME TypeOK, NEW d \in Dir, ForwardControl(d)
  PROVE  TypeOK'
<1>1. recv[d] \in Receiver /\ Write(d, recv[d])
  BY DEF TypeOK, ForwardControl
<1>2. Typed'
  BY <1>1, WriteType DEF ForwardControl, TypeOK, Typed
<1>3. QED BY <1>2, ServeVarsType DEF ForwardControl, TypeOK, inputVars

LEMMA PassThroughType ==
  ASSUME TypeOK, NEW d \in Dir, PassThrough(d)
  PROVE  TypeOK'
<1>1. PICK m : FirstFrame(d, m) /\ WriteRaw(d, m, 1)
  BY DEF PassThrough
<1>2. /\ m \in Message
      /\ msg' \in [Dir -> Message] /\ read' \in [Dir -> Nat]
      /\ sent' \in [Dir -> Nat] /\ sendDict' \in [Dir -> Dictionary]
  BY <1>1, FirstFrameType
<1>3. Typed'
  BY <1>1, <1>2, WriteRawType DEF PassThrough, TypeOK, Typed
<1>4. QED BY <1>2, <1>3, ServeVarsType DEF PassThrough

LEMMA PlainParseFailsType ==
  ASSUME TypeOK, NEW d \in Dir, PlainParseFails(d)
  PROVE  TypeOK'
<1>1. PICK m : FirstFrame(d, m) /\ WriteRaw(d, m, 1)
  BY DEF PlainParseFails
<1>2. /\ m \in Message
      /\ msg' \in [Dir -> Message] /\ read' \in [Dir -> Nat]
      /\ sent' \in [Dir -> Nat] /\ sendDict' \in [Dir -> Dictionary]
  BY <1>1, FirstFrameType
<1>3. UNCHANGED <<codec, consumed, serveVars>> /\ degraded' = TRUE
  BY DEF PlainParseFails
<1>4. Typed'
  BY <1>1, <1>2, <1>3, WriteRawType DEF TypeOK, Typed
<1>5. QED BY <1>2, <1>3, <1>4, ServeVarsType

LEMMA HandlePlainType ==
  ASSUME TypeOK, NEW d \in Dir, HandlePlain(d)
  PROVE  TypeOK'
<1>1. PICK m :
        /\ FirstFrame(d, m)
        /\ \/ WriteRaw(d, m, 1) /\ UNCHANGED consumed
           \/ /\ Write(d, Received(d, recv[d], m, TextOf(m, "rewritten"),
                                   << >>, "reencoded"))
              /\ UNCHANGED consumed
           \/ Consume(d, m)
           \/ Stop(d, "handler") /\ UNCHANGED <<recv, consumed>>
  BY DEF HandlePlain
<1>2. /\ m \in Message
      /\ msg' \in [Dir -> Message] /\ read' \in [Dir -> Nat]
      /\ sent' \in [Dir -> Nat] /\ sendDict' \in [Dir -> Dictionary]
  BY <1>1, FirstFrameType
<1>3. UNCHANGED <<codec, degraded, serveVars>>
  BY DEF HandlePlain
<1>4. Typed'
  <2>1. CASE WriteRaw(d, m, 1) /\ UNCHANGED consumed
    BY <1>2, <1>3, <2>1, WriteRawType DEF TypeOK, Typed
  <2>2. CASE /\ Write(d, Received(d, recv[d], m, TextOf(m, "rewritten"),
                                  << >>, "reencoded"))
             /\ UNCHANGED consumed
    <3>1. recv[d] \in Receiver /\ TextOf(m, "rewritten") \in Text
      BY <1>2, TextOfType DEF TypeOK
    <3>2. Received(d, recv[d], m, TextOf(m, "rewritten"), << >>, "reencoded")
            \in Receiver
      BY <1>2, <3>1, ReceivedType
    <3>3. QED BY <1>3, <2>2, <3>2, WriteType DEF TypeOK, Typed
  <2>3. CASE Consume(d, m)
    BY <1>2, <1>3, <2>3, ConsumeType DEF TypeOK, Typed
  <2>4. CASE Stop(d, "handler") /\ UNCHANGED <<recv, consumed>>
    BY <1>3, <2>4, StopType DEF TypeOK, Typed, Outcome
  <2>5. QED BY <1>1, <2>1, <2>2, <2>3, <2>4
<1>5. QED BY <1>2, <1>3, <1>4, ServeVarsType

LEMMA ClassifyType ==
  ASSUME NEW result \in [dir : Dir, why : Outcome]
  PROVE  Classify(result) \in Initiator
BY DEF Classify, Initiator, Outcome, Dir

LEMMA ServeType ==
  ASSUME TypeOK,
         \/ ServeRecordsClose \/ ServeReturns \/ CallerCloses
         \/ ContextCancelled \/ (\E p \in Peer : PeerLeaves(p))
  PROVE  TypeOK'
<1>1. CASE ServeRecordsClose
  <2>1. Head(errs) \in [dir : Dir, why : Outcome]
    <3>1. errs # << >> /\ errs \in Seq([dir : Dir, why : Outcome])
      BY <1>1 DEF ServeRecordsClose, TypeOK
    <3>2. QED BY <3>1, HeadTailProperties
  <2>2. Classify(Head(errs)) \in Initiator
    BY <2>1, ClassifyType
  <2>3. QED BY <1>1, <2>2 DEF ServeRecordsClose, TypeOK, pumpVars, inputVars
<1>2. CASE ServeReturns
  BY <1>2 DEF ServeReturns, TypeOK, pumpVars, inputVars
<1>3. CASE CallerCloses
  BY <1>3 DEF CallerCloses, TypeOK, pumpVars, inputVars
<1>4. CASE ContextCancelled
  BY <1>4 DEF ContextCancelled, TypeOK, pumpVars, inputVars
<1>5. CASE \E p \in Peer : PeerLeaves(p)
  BY <1>5 DEF PeerLeaves, TypeOK, pumpVars, inputVars
<1>6. QED BY <1>1, <1>2, <1>3, <1>4, <1>5

LEMMA InitType == Init => TypeOK
<1> SUFFICES ASSUME Init PROVE TypeOK
  OBVIOUS
<1>1. << >> \in Dictionary
  BY SessionAssumption DEF Dictionary
<1>2. NoMessage \in Message
  BY DEF NoMessage, Message, AllKinds
<1>3. [blocked |-> FALSE, forceReencode |-> FALSE, inflate |-> << >>,
       deflate |-> << >>, held |-> 0] \in Codec
  BY <1>1 DEF Codec
<1>4. [dict |-> << >>, open |-> 0, got |-> << >>] \in Receiver
  BY <1>1 DEF Receiver
<1>5. /\ msg \in [Dir -> Message]
      /\ sendDict \in [Dir -> Dictionary]
      /\ codec \in [Dir -> Codec]
      /\ recv \in [Dir -> Receiver]
  BY <1>1, <1>2, <1>3, <1>4 DEF Init
<1>6. errs \in Seq([dir : Dir, why : Outcome])
  BY DEF Init
<1>7. QED BY <1>5, <1>6 DEF Init, TypeOK, Initiator

LEMMA NextType == TypeOK /\ [Next]_vars => TypeOK'
<1> SUFFICES ASSUME TypeOK, [Next]_vars PROVE TypeOK'
  OBVIOUS
<1>1. CASE \E d \in Dir : Pump(d)
  BY <1>1, CheckContextType, ReadFailsType, HandleCompressedType,
     ForwardContinuationType, ForwardControlType, PassThroughType,
     PlainParseFailsType, HandlePlainType DEF Pump
<1>2. CASE \/ ServeRecordsClose \/ ServeReturns \/ CallerCloses
           \/ ContextCancelled \/ (\E p \in Peer : PeerLeaves(p))
  BY <1>2, ServeType
<1>3. CASE UNCHANGED vars
  BY <1>3 DEF TypeOK, vars
<1>4. QED BY <1>1, <1>2, <1>3 DEF Next, Finished

(* Every variable keeps its type; in particular no dictionary ever holds   *)
(* more than its window, however many messages are observed.               *)
THEOREM TypeCorrect == Spec => []TypeOK
BY InitType, NextType, PTL DEF Spec

-----------------------------------------------------------------------------
(* The inspector keeps in step with the source.  HoldsAllOrNone is what    *)
(* makes it inductive: a compressed message of an inspected direction has  *)
(* all its frames in the buffer when its last one arrives, so the source's *)
(* dictionary and the inspector's advance in the same step.                *)

InSyncAt(d) ==
  /\ read[d] > 0 => read[d] < msg[d].frames
  /\ codec[d].held \in {0, read[d]}
  /\ codec[d].held > 0 =>
       scenario.negotiated /\ ~codec[d].blocked /\ msg[d].rsv1
  /\ scenario.negotiated /\ ~codec[d].blocked =>
       /\ codec[d].inflate = sendDict[d]
       /\ msg[d].rsv1 => codec[d].held = read[d]

InspectorInv == \A d \in Dir : InSyncAt(d)

LEMMA InspectorInvEquiv ==
  InspectorInv <=> HoldsAllOrNone /\ InspectorInSync
BY DEF InspectorInv, InSyncAt, HoldsAllOrNone, InspectorInSync

(* What finishCompressedMessage leaves of the state of its direction.      *)
Finishing(d, m, c) ==
  /\ codec' = [codec EXCEPT ![d] = c]
  /\ c.held = 0
  /\ c.blocked \/ c.inflate = Observed(d, codec[d].inflate, TextOf(m, "sent"))

LEMMA FinishCodec ==
  ASSUME TypeOK, NEW d \in Dir, NEW m \in Message, FinishCompressed(d, m)
  PROVE  \E c \in Codec : Finishing(d, m, c)
<1> DEFINE c == Inflated(d, m)
<1>1. /\ c \in Codec
      /\ c.held = 0
      /\ c.inflate = Observed(d, codec[d].inflate, TextOf(m, "sent"))
      /\ c.deflate \in Dictionary
  <2>1. codec[d] \in Codec
    BY DEF TypeOK
  <2>2. c \in Codec
    BY InflatedType
  <2>3. QED BY <2>1, <2>2 DEF Inflated, Codec
<1>2. CASE SetCodec(d, [codec[d] EXCEPT !.held = 0, !.blocked = TRUE])
  <2>1. codec[d] \in Codec
    BY DEF TypeOK
  <2>2. /\ [codec[d] EXCEPT !.held = 0, !.blocked = TRUE] \in Codec
        /\ [codec[d] EXCEPT !.held = 0, !.blocked = TRUE].held = 0
        /\ [codec[d] EXCEPT !.held = 0, !.blocked = TRUE].blocked
    BY <2>1 DEF Codec
  <2>3. QED BY <1>2, <2>2 DEF Finishing, SetCodec
<1>3. CASE SetCodec(d, c)
  BY <1>1, <1>3 DEF Finishing, SetCodec
<1>4. ASSUME NEW text \in Text,
             SetCodec(d, [c EXCEPT !.deflate = Observed(d, c.deflate, text)])
      PROVE  \E a \in Codec : Finishing(d, m, a)
  <2> DEFINE a == [c EXCEPT !.deflate = Observed(d, c.deflate, text)]
  <2>1. Observed(d, c.deflate, text) \in Dictionary
    BY <1>1, ObservedType
  <2> HIDE DEF c
  <2>2. a \in Codec /\ a.held = c.held /\ a.inflate = c.inflate
    BY <1>1, <2>1 DEF Codec
  <2>3. QED BY <1>1, <1>4, <2>2 DEF Finishing, SetCodec
<1>5. CASE SetCodec(d, [c EXCEPT !.blocked = TRUE])
  <2> HIDE DEF c
  <2>1. /\ [c EXCEPT !.blocked = TRUE] \in Codec
        /\ [c EXCEPT !.blocked = TRUE].held = 0
        /\ [c EXCEPT !.blocked = TRUE].blocked
    BY <1>1 DEF Codec
  <2>2. QED BY <1>5, <2>1 DEF Finishing, SetCodec
<1>6. CASE SetCodec(d, [c EXCEPT !.forceReencode = TRUE])
  <2> HIDE DEF c
  <2>1. /\ [c EXCEPT !.forceReencode = TRUE] \in Codec
        /\ [c EXCEPT !.forceReencode = TRUE].held = 0
        /\ [c EXCEPT !.forceReencode = TRUE].inflate = c.inflate
    BY <1>1 DEF Codec
  <2>2. QED BY <1>1, <1>6, <2>1 DEF Finishing, SetCodec
<1>7. TextOf(m, "sent") \in Text /\ TextOf(m, "rewritten") \in Text
  BY TextOfType
<1>8. CASE InflateFails(d, m)
  BY <1>2, <1>8 DEF InflateFails
<1>9. CASE ForwardInflated(d, m)
  BY <1>4, <1>5, <1>7, <1>9 DEF ForwardInflated, WriteDeflated
<1>10. CASE ReplaceInflated(d, m)
  BY <1>4, <1>5, <1>7, <1>10 DEF ReplaceInflated, WriteDeflated
<1>11. CASE CompressedParseFails(d, m) \/ HandlerFails(d, m)
  BY <1>3, <1>11 DEF CompressedParseFails, HandlerFails
<1>12. CASE ConsumeInflated(d, m)
  BY <1>6, <1>12 DEF ConsumeInflated
<1>13. QED BY <1>8, <1>9, <1>10, <1>11, <1>12 DEF FinishCompressed

LEMMA AdvanceAt ==
  ASSUME TypeOK, NEW d \in Dir, NEW m \in Message, NEW n \in Nat, Advance(d, m, n)
  PROVE  /\ \A e \in Dir \ {d} : /\ read'[e] = read[e]
                                 /\ msg'[e] = msg[e]
                                 /\ sendDict'[e] = sendDict[e]
         /\ n # m.frames => /\ read'[d] = n
                            /\ msg'[d] = m
                            /\ sendDict'[d] = sendDict[d]
         /\ n = m.frames => /\ read'[d] = 0
                            /\ msg'[d] = NoMessage
                            /\ sendDict'[d] = IF m.rsv1
                                 THEN Observed(d, sendDict[d], TextOf(m, "sent"))
                                 ELSE sendDict[d]
BY DEF TypeOK, Advance

LEMMA ElsewhereInSync ==
  ASSUME NEW e \in Dir, InSyncAt(e), scenario' = scenario, codec'[e] = codec[e],
         read'[e] = read[e], msg'[e] = msg[e], sendDict'[e] = sendDict[e]
  PROVE  InSyncAt(e)'
BY DEF InSyncAt

LEMMA FirstFrameCount ==
  ASSUME TypeOK, NEW d \in Dir, NEW m, FirstFrame(d, m)
  PROVE  /\ m \in Message
         /\ 1 <= m.frames
         /\ read[d] = 0
         /\ Advance(d, m, 1)
<1>1. m \in Message
  BY FirstFrameType
<1>2. m.frames \in 1 .. MaxFrags
  BY DEF FirstFrame, Messages
<1>3. QED BY <1>1, <1>2, SessionAssumption DEF FirstFrame

LEMMA NextFrameCount ==
  ASSUME TypeOK, InspectorInv, NEW d \in Dir, NEW m, NextFrame(d, m)
  PROVE  /\ m \in Message
         /\ m = msg[d]
         /\ read[d] \in Nat \ {0}
         /\ read[d] + 1 <= m.frames
         /\ Advance(d, m, read[d] + 1)
<1>1. /\ m = msg[d]
      /\ msg[d] \in Message
      /\ read[d] \in Nat \ {0}
      /\ Advance(d, m, read[d] + 1)
  BY DEF NextFrame, TypeOK
<1>2. read[d] < msg[d].frames
  BY <1>1 DEF InspectorInv, InSyncAt
<1>3. QED BY <1>1, <1>2 DEF Message

(* A frame that is forwarded, of a message nobody buffers.                 *)
LEMMA ForwardKeepsSync ==
  ASSUME TypeOK, InspectorInv, NEW d \in Dir, NEW m \in Message,
         NEW n \in Nat \ {0}, n <= m.frames, Advance(d, m, n),
         UNCHANGED <<scenario, codec>>,
         codec[d].held = 0,
         m.rsv1 => ~scenario.negotiated \/ codec[d].blocked
  PROVE  InspectorInv'
<1> SUFFICES ASSUME NEW e \in Dir PROVE InSyncAt(e)'
  BY DEF InspectorInv
<1>1. InSyncAt(e)
  BY DEF InspectorInv
<1>2. CASE e # d
  BY <1>1, <1>2, AdvanceAt, ElsewhereInSync
<1>3. CASE e = d /\ n # m.frames
  <2>1. read'[d] = n /\ msg'[d] = m /\ sendDict'[d] = sendDict[d]
    BY <1>3, AdvanceAt
  <2>2. n < m.frames
    BY <1>3 DEF Message
  <2>3. m.rsv1 \in BOOLEAN
    BY DEF Message
  <2>4. QED BY <1>1, <1>3, <2>1, <2>2, <2>3 DEF InSyncAt
<1>4. CASE e = d /\ n = m.frames
  <2>1. /\ read'[d] = 0
        /\ msg'[d] = NoMessage
        /\ sendDict'[d] = IF m.rsv1
             THEN Observed(d, sendDict[d], TextOf(m, "sent")) ELSE sendDict[d]
    BY <1>4, AdvanceAt
  <2>2. ~NoMessage.rsv1
    BY DEF NoMessage
  <2>3. QED BY <1>1, <1>4, <2>1, <2>2 DEF InSyncAt
<1>5. QED BY <1>2, <1>3, <1>4

(* A frame of a compressed message of an inspected direction.              *)
LEMMA BufferKeepsSync ==
  ASSUME TypeOK, InspectorInv, NEW d \in Dir, NEW m \in Message,
         NEW n \in Nat \ {0}, n <= m.frames, Advance(d, m, n),
         scenario' = scenario, Buffer(d, m),
         codec[d].held + 1 = n,
         scenario.negotiated, ~codec[d].blocked, m.rsv1
  PROVE  InspectorInv'
<1> SUFFICES ASSUME NEW e \in Dir PROVE InSyncAt(e)'
  BY DEF InspectorInv
<1>1. InSyncAt(e) /\ InSyncAt(d)
  BY DEF InspectorInv
<1>2. codec \in [Dir -> Codec] /\ codec[d] \in Codec
  BY DEF TypeOK
<1>3. CASE SetCodec(d, [codec[d] EXCEPT !.held = 0, !.blocked = TRUE])
  <2> DEFINE c == [codec[d] EXCEPT !.held = 0, !.blocked = TRUE]
  <2>1. c.held = 0 /\ c.blocked
    BY <1>2 DEF Codec
  <2> HIDE DEF c
  <2>2. codec'[d] = c /\ \A x \in Dir \ {d} : codec'[x] = codec[x]
    BY <1>2, <1>3 DEF SetCodec, c
  <2>3. CASE e # d
    BY <1>1, <2>2, <2>3, AdvanceAt, ElsewhereInSync
  <2>4. CASE e = d
    <3>1. read'[d] > 0 => read'[d] < msg'[d].frames
      BY AdvanceAt DEF Message
    <3>2. QED BY <2>1, <2>2, <2>4, <3>1 DEF InSyncAt
  <2>5. QED BY <2>3, <2>4
<1>4. CASE n < m.frames /\ SetCodec(d, [codec[d] EXCEPT !.held = n])
  <2> DEFINE c == [codec[d] EXCEPT !.held = n]
  <2>1. /\ c.held = n
        /\ c.blocked = codec[d].blocked
        /\ c.inflate = codec[d].inflate
    BY <1>2 DEF Codec
  <2> HIDE DEF c
  <2>2. codec'[d] = c /\ \A x \in Dir \ {d} : codec'[x] = codec[x]
    BY <1>2, <1>4 DEF SetCodec, c
  <2>3. CASE e # d
    BY <1>1, <2>2, <2>3, AdvanceAt, ElsewhereInSync
  <2>4. CASE e = d
    <3>1. n # m.frames
      BY <1>4 DEF Message
    <3>2. read'[d] = n /\ msg'[d] = m /\ sendDict'[d] = sendDict[d]
      BY <3>1, AdvanceAt
    <3>3. QED BY <1>1, <1>4, <2>1, <2>2, <2>4, <3>2 DEF InSyncAt
  <2>5. QED BY <2>3, <2>4
<1>5. CASE n = m.frames /\ FinishCompressed(d, m)
  <2>1. PICK c \in Codec : Finishing(d, m, c)
    BY <1>5, FinishCodec
  <2>2. /\ codec'[d] = c
        /\ \A x \in Dir \ {d} : codec'[x] = codec[x]
        /\ c.held = 0
        /\ c.blocked \/ c.inflate = Observed(d, codec[d].inflate, TextOf(m, "sent"))
    BY <1>2, <2>1 DEF Finishing
  <2>3. CASE e # d
    BY <1>1, <2>2, <2>3, AdvanceAt, ElsewhereInSync
  <2>4. CASE e = d
    <3>1. /\ read'[d] = 0
          /\ msg'[d] = NoMessage
          /\ sendDict'[d] = Observed(d, sendDict[d], TextOf(m, "sent"))
      BY <1>5, AdvanceAt
    <3>2. codec[d].inflate = sendDict[d]
      BY <1>1 DEF InSyncAt
    <3>3. ~NoMessage.rsv1
      BY DEF NoMessage
    <3>4. QED BY <2>2, <2>4, <3>1, <3>2, <3>3 DEF InSyncAt
  <2>5. QED BY <2>3, <2>4
<1>6. QED
  <2>1. codec[d].held \in Nat /\ m.frames \in Nat
    BY <1>2 DEF Codec, Message
  <2>2. QED BY <1>3, <1>4, <1>5, <2>1 DEF Buffer

LEMMA HandleCompressedSync ==
  ASSUME TypeOK, InspectorInv, NEW d \in Dir, HandleCompressed(d)
  PROVE  InspectorInv'
<1>1. scenario' = scenario
  BY DEF HandleCompressed, serveVars
<1>2. PICK m : /\ \/ FirstFrame(d, m) /\ CanHandle(d, m)
                  \/ NextFrame(d, m) /\ codec[d].held > 0
               /\ Buffer(d, m)
  BY DEF HandleCompressed
<1>3. InSyncAt(d) /\ codec[d].held \in Nat
  BY DEF InspectorInv, TypeOK, Codec
<1>4. CASE FirstFrame(d, m) /\ CanHandle(d, m)
  <2>1. m \in Message /\ 1 <= m.frames /\ read[d] = 0 /\ Advance(d, m, 1)
    BY <1>4, FirstFrameCount
  <2>2. codec[d].held + 1 = 1
    BY <1>3, <2>1 DEF InSyncAt
  <2>3. QED BY <1>1, <1>2, <1>4, <2>1, <2>2, BufferKeepsSync DEF CanHandle
<1>5. CASE NextFrame(d, m) /\ codec[d].held > 0
  <2>1. /\ m \in Message /\ m = msg[d] /\ read[d] \in Nat \ {0}
        /\ read[d] + 1 <= m.frames
        /\ Advance(d, m, read[d] + 1)
    BY <1>5, NextFrameCount
  <2>2. /\ codec[d].held + 1 = read[d] + 1
        /\ scenario.negotiated /\ ~codec[d].blocked /\ m.rsv1
    BY <1>3, <1>5, <2>1 DEF InSyncAt
  <2>3. read[d] + 1 \in Nat \ {0}
    BY <2>1
  <2>4. QED BY <1>1, <1>2, <2>1, <2>2, <2>3, BufferKeepsSync
<1>6. QED BY <1>2, <1>4, <1>5

LEMMA ForwardSync ==
  ASSUME TypeOK, InspectorInv, NEW d \in Dir,
         \/ ForwardContinuation(d) \/ PassThrough(d)
         \/ PlainParseFails(d) \/ HandlePlain(d)
  PROVE  InspectorInv'
<1>1. UNCHANGED <<scenario, codec>>
  BY DEF ForwardContinuation, PassThrough, PlainParseFails, HandlePlain, serveVars
<1>2. InSyncAt(d) /\ codec[d].held \in Nat
  BY DEF InspectorInv, TypeOK, Codec
<1>3. CASE ForwardContinuation(d)
  <2>1. NextFrame(d, msg[d]) /\ codec[d].held = 0
    BY <1>3 DEF ForwardContinuation
  <2>2. /\ msg[d] \in Message /\ read[d] \in Nat \ {0}
        /\ read[d] + 1 <= msg[d].frames
        /\ Advance(d, msg[d], read[d] + 1)
    BY <2>1, NextFrameCount
  <2>3. msg[d].rsv1 => ~scenario.negotiated \/ codec[d].blocked
    BY <1>2, <2>1, <2>2 DEF InSyncAt
  <2>4. read[d] + 1 \in Nat \ {0}
    BY <2>2
  <2>5. QED BY <1>1, <2>1, <2>2, <2>3, <2>4, ForwardKeepsSync
<1>4. CASE PassThrough(d) \/ PlainParseFails(d) \/ HandlePlain(d)
  <2>1. PICK m : FirstFrame(d, m) /\ (~CanHandle(d, m) \/ PlainText(d, m))
    BY <1>4 DEF PassThrough, PlainParseFails, HandlePlain
  <2>2. m \in Message /\ 1 <= m.frames /\ read[d] = 0 /\ Advance(d, m, 1)
    BY <2>1, FirstFrameCount
  <2>3. codec[d].held = 0
    BY <1>2, <2>2 DEF InSyncAt
  <2>4. m.rsv1 => ~scenario.negotiated \/ codec[d].blocked
    BY <2>1 DEF CanHandle, PlainText
  <2>5. QED BY <1>1, <2>2, <2>3, <2>4, ForwardKeepsSync
<1>5. QED BY <1>3, <1>4

LEMMA StillInSync ==
  ASSUME InspectorInv, UNCHANGED <<scenario, codec, inputVars>>
  PROVE  InspectorInv'
BY DEF InspectorInv, InSyncAt, inputVars

LEMMA InspectorNext == TypeOK /\ InspectorInv /\ [Next]_vars => InspectorInv'
<1> SUFFICES ASSUME TypeOK, InspectorInv, [Next]_vars PROVE InspectorInv'
  OBVIOUS
<1>1. ASSUME NEW d \in Dir, Pump(d) PROVE InspectorInv'
  <2>1. CASE HandleCompressed(d)
    BY <2>1, HandleCompressedSync
  <2>2. CASE \/ ForwardContinuation(d) \/ PassThrough(d)
             \/ PlainParseFails(d) \/ HandlePlain(d)
    BY <2>2, ForwardSync
  <2>3. CASE CheckContext(d) \/ ReadFails(d) \/ ForwardControl(d)
    <3>1. UNCHANGED <<scenario, codec, inputVars>>
      BY <2>3 DEF CheckContext, ReadFails, ForwardControl, serveVars
    <3>2. QED BY <3>1, StillInSync
  <2>4. QED BY <1>1, <2>1, <2>2, <2>3 DEF Pump
<1>2. CASE ~\E d \in Dir : Pump(d)
  <2>1. UNCHANGED <<scenario, codec, inputVars>>
    BY <1>2 DEF Next, ServeRecordsClose, ServeReturns, CallerCloses,
                ContextCancelled, PeerLeaves, Finished, vars, inputVars
  <2>2. QED BY <2>1, StillInSync
<1>3. QED BY <1>1, <1>2

LEMMA InspectorInit == Init => InspectorInv
BY DEF Init, InspectorInv, InSyncAt, NoMessage

LEMMA InspectorCorrect == Spec => []InspectorInv
BY InspectorInit, InspectorNext, TypeCorrect, PTL DEF Spec

(* The plaintext the handler judges is what the source wrote: as long as   *)
(* a direction is inspected, whatever was buffered, consumed, rewritten,   *)
(* capped or passed through, the inflate dictionary is the source's own.   *)
LEMMA InspectorStaysInSync == Spec => []InspectorInSync
BY InspectorCorrect, InspectorInvEquiv, PTL

(* A message is inflated with all its frames and leaves none behind.       *)
LEMMA BuffersHoldAllOrNone == Spec => []HoldsAllOrNone
BY InspectorCorrect, InspectorInvEquiv, PTL

(* What the handler is shown is whole and is what the source wrote.        *)
THEOREM InspectorAlwaysTrusted == Spec => []InspectorTrusted
<1>1. InspectorInSync /\ HoldsAllOrNone => InspectorTrusted
  BY DEF InspectorTrusted
<1> QED BY <1>1, InspectorStaysInSync, BuffersHoldAllOrNone, PTL

-----------------------------------------------------------------------------
(* Without context takeover every dictionary stays empty, so there is      *)
(* nothing a message could refer back to.                                  *)

Clean(r) == r.dict = << >> /\ \A i \in DOMAIN r.got : r.got[i].ok

NoTakeoverAt(d) ==
  scenario.noTakeover[d] => /\ Clean(recv[d])
                            /\ sendDict[d] = << >>
                            /\ codec[d].deflate = << >>

NoTakeoverInv == \A d \in Dir : NoTakeoverAt(d)

LEMMA EmptyDecodes ==
  ASSUME NEW share \in Nat
  PROVE  Decodes(<< >>, << >>, share)
<1>1. LastTexts(<< >>, 0) = << >>
  BY DEF LastTexts
<1>2. CASE share = 0
  BY <1>1, <1>2 DEF Decodes
<1>3. CASE share > 0
  BY <1>1, <1>3 DEF Decodes
<1>4. QED BY <1>2, <1>3

LEMMA ReceivedClean ==
  ASSUME NEW d, scenario.noTakeover[d], NEW r \in Receiver, Clean(r),
         NEW m \in Message, NEW text, NEW how
  PROVE  Clean(Received(d, r, m, text, << >>, how))
<1> DEFINE ok == m.rsv1 => Decodes(r.dict, << >>, m.share)
           seen == IF ok THEN text ELSE TextOf(m, "garbled")
           delivery == [id |-> m.id, rsv1 |-> m.rsv1, how |-> how, ok |-> ok]
           result == Received(d, r, m, text, << >>, how)
<1>1. ok
  BY EmptyDecodes DEF Clean, Message
<1>2. Observed(d, r.dict, seen) = << >>
  BY DEF Observed
<1>3. result.dict = << >> /\ result.got = Append(r.got, delivery)
  BY <1>2 DEF Received, Clean
<1>4. r.got \in Seq(Delivery)
  BY DEF Receiver
<1> HIDE DEF ok, result
<1>5. \A i \in DOMAIN Append(r.got, delivery) : Append(r.got, delivery)[i].ok
  BY <1>1, <1>4 DEF Clean
<1>6. QED BY <1>3, <1>5 DEF Clean, result

LEMMA ReceivedRawClean ==
  ASSUME NEW d, scenario.noTakeover[d], sendDict[d] = << >>,
         NEW r \in Receiver, Clean(r), NEW m \in Message, NEW n \in Nat
  PROVE  Clean(ReceivedRaw(d, r, m, n))
<1>1. Clean(Received(d, r, m, TextOf(m, "sent"), sendDict[d], "raw"))
  BY ReceivedClean
<1>2. Clean([r EXCEPT !.open = r.open + n])
  BY DEF Clean, Receiver
<1>3. QED BY <1>1, <1>2 DEF ReceivedRaw

LEMMA WriteClean ==
  ASSUME TypeOK, NEW d \in Dir, Clean(recv[d]), NEW r, Clean(r), Write(d, r)
  PROVE  Clean(recv'[d])
BY DEF TypeOK, Write

LEMMA WriteRawClean ==
  ASSUME TypeOK, NEW d \in Dir, scenario.noTakeover[d], NoTakeoverAt(d),
         NEW m \in Message, NEW n \in Nat, WriteRaw(d, m, n)
  PROVE  Clean(recv'[d])
<1>1. recv[d] \in Receiver /\ Clean(recv[d]) /\ sendDict[d] = << >>
  BY DEF TypeOK, NoTakeoverAt
<1>2. Clean(ReceivedRaw(d, recv[d], m, n))
  BY <1>1, ReceivedRawClean
<1>3. QED BY <1>1, <1>2, WriteClean DEF WriteRaw

LEMMA AdvanceClean ==
  ASSUME TypeOK, NEW d \in Dir, scenario.noTakeover[d], sendDict[d] = << >>,
         NEW m, NEW n, Advance(d, m, n)
  PROVE  sendDict'[d] = << >>
BY DEF TypeOK, Advance, Observed

(* Every path of the compressed branch leaves the receiver clean and the   *)
(* deflate dictionary empty.                                               *)
CleanStep(d) == Clean(recv'[d]) /\ codec'[d].deflate = << >>

LEMMA SetCodecClean ==
  ASSUME TypeOK, NEW d \in Dir, NEW c, c.deflate = << >>, SetCodec(d, c)
  PROVE  codec'[d].deflate = << >>
BY DEF TypeOK, SetCodec

LEMMA InflatedClean ==
  ASSUME TypeOK, NEW d \in Dir, scenario.noTakeover[d], NoTakeoverAt(d),
         NEW m \in Message
  PROVE  /\ Inflated(d, m) \in Codec
         /\ Inflated(d, m).deflate = << >>
<1>1. codec[d] \in Codec /\ codec[d].deflate = << >>
  BY DEF TypeOK, NoTakeoverAt
<1>2. QED BY <1>1, InflatedType DEF Inflated, Codec

LEMMA WriteDeflatedClean ==
  ASSUME TypeOK, NEW d \in Dir, scenario.noTakeover[d], NoTakeoverAt(d),
         NEW m \in Message, NEW text, WriteDeflated(d, m, text)
  PROVE  CleanStep(d)
<1> DEFINE c == Inflated(d, m)
<1>1. c \in Codec /\ c.deflate = << >>
  BY InflatedClean
<1>2. recv[d] \in Receiver /\ Clean(recv[d])
  BY DEF TypeOK, NoTakeoverAt
<1>3. Clean(Received(d, recv[d], m, text, c.deflate, "reencoded"))
  BY <1>1, <1>2, ReceivedClean
<1>4. Clean(recv'[d])
  BY <1>2, <1>3, WriteClean DEF WriteDeflated
<1>5. SetCodec(d, [c EXCEPT !.deflate = Observed(d, c.deflate, text)])
  BY DEF WriteDeflated
<1> HIDE DEF c
<1>6. [c EXCEPT !.deflate = Observed(d, c.deflate, text)].deflate = << >>
  BY <1>1 DEF Observed, Codec
<1>7. QED BY <1>4, <1>5, <1>6, SetCodecClean DEF CleanStep

LEMMA FinishCompressedClean ==
  ASSUME TypeOK, NEW d \in Dir, scenario.noTakeover[d], NoTakeoverAt(d),
         NEW m \in Message, FinishCompressed(d, m)
  PROVE  CleanStep(d)
<1> DEFINE c == Inflated(d, m)
<1>1. /\ c \in Codec /\ c.deflate = << >>
      /\ codec[d] \in Codec /\ codec[d].deflate = << >>
      /\ Clean(recv[d])
      /\ m.frames \in Nat
  BY InflatedClean DEF TypeOK, NoTakeoverAt, Message
<1>2. CASE InflateFails(d, m)
  <2>1. [codec[d] EXCEPT !.held = 0, !.blocked = TRUE].deflate = << >>
    BY <1>1 DEF Codec
  <2>2. QED BY <1>1, <1>2, <2>1, SetCodecClean, WriteRawClean
              DEF InflateFails, CleanStep
<1> HIDE DEF c
<1>3. [c EXCEPT !.blocked = TRUE].deflate = << >>
  BY <1>1 DEF Codec
<1>4. CASE ForwardInflated(d, m)
  <2>1. CASE WriteDeflated(d, m, TextOf(m, "sent"))
    BY <2>1, WriteDeflatedClean
  <2>2. CASE SetCodec(d, [c EXCEPT !.blocked = TRUE]) /\ UNCHANGED recv
    BY <1>1, <1>3, <2>2, SetCodecClean DEF CleanStep
  <2>3. CASE /\ SetCodec(d, [c EXCEPT !.deflate = Observed(d, c.deflate, TextOf(m, "sent"))])
             /\ WriteRaw(d, m, m.frames)
    <3>1. [c EXCEPT !.deflate = Observed(d, c.deflate, TextOf(m, "sent"))].deflate = << >>
      BY <1>1 DEF Observed, Codec
    <3>2. QED BY <1>1, <2>3, <3>1, SetCodecClean, WriteRawClean DEF CleanStep
  <2>4. QED BY <1>4, <2>1, <2>2, <2>3 DEF ForwardInflated, c
<1>5. CASE ReplaceInflated(d, m)
  <2>1. CASE WriteDeflated(d, m, TextOf(m, "rewritten"))
    BY <2>1, WriteDeflatedClean
  <2>2. CASE SetCodec(d, [c EXCEPT !.blocked = TRUE]) /\ WriteRaw(d, m, m.frames)
    BY <1>1, <1>3, <2>2, SetCodecClean, WriteRawClean DEF CleanStep
  <2>3. QED BY <1>5, <2>1, <2>2 DEF ReplaceInflated, c
<1>6. CASE CompressedParseFails(d, m)
  BY <1>1, <1>6, SetCodecClean, WriteRawClean DEF CompressedParseFails, CleanStep, c
<1>7. CASE HandlerFails(d, m)
  BY <1>1, <1>7, SetCodecClean DEF HandlerFails, CleanStep, c
<1>8. CASE ConsumeInflated(d, m)
  <2>1. [c EXCEPT !.forceReencode = TRUE].deflate = << >>
    BY <1>1 DEF Codec
  <2>2. QED BY <1>1, <1>8, <2>1, SetCodecClean
              DEF ConsumeInflated, Consume, CleanStep, c
<1>9. QED BY <1>2, <1>4, <1>5, <1>6, <1>7, <1>8 DEF FinishCompressed

LEMMA BufferClean ==
  ASSUME TypeOK, NEW d \in Dir, scenario.noTakeover[d], NoTakeoverAt(d),
         NEW m \in Message, Buffer(d, m)
  PROVE  CleanStep(d)
<1> DEFINE held == codec[d].held + 1
<1>1. /\ codec[d] \in Codec /\ codec[d].deflate = << >>
      /\ held \in Nat
      /\ Clean(recv[d])
  BY DEF TypeOK, NoTakeoverAt, Codec
<1> HIDE DEF held
<1>2. /\ [codec[d] EXCEPT !.held = 0, !.blocked = TRUE].deflate = << >>
      /\ [codec[d] EXCEPT !.held = held].deflate = << >>
  BY <1>1 DEF Codec
<1>3. CASE /\ SetCodec(d, [codec[d] EXCEPT !.held = 0, !.blocked = TRUE])
           /\ WriteRaw(d, m, held)
  BY <1>1, <1>2, <1>3, SetCodecClean, WriteRawClean DEF CleanStep
<1>4. CASE SetCodec(d, [codec[d] EXCEPT !.held = held]) /\ UNCHANGED recv
  BY <1>1, <1>2, <1>4, SetCodecClean DEF CleanStep
<1>5. CASE FinishCompressed(d, m)
  BY <1>5, FinishCompressedClean
<1>6. QED BY <1>3, <1>4, <1>5 DEF Buffer, held

(* A pump writes its own direction's state only.                           *)
OwnOnly(d) ==
  /\ scenario' = scenario
  /\ \A e \in Dir \ {d} : /\ recv'[e] = recv[e]
                          /\ sendDict'[e] = sendDict[e]
                          /\ codec'[e] = codec[e]

LEMMA WriteElsewhere ==
  ASSUME TypeOK, NEW d \in Dir, NEW r, Write(d, r)
  PROVE  \A e \in Dir \ {d} : recv'[e] = recv[e]
BY DEF TypeOK, Write

LEMMA FrameElsewhere ==
  ASSUME TypeOK, NEW d \in Dir, NEW m, FirstFrame(d, m) \/ NextFrame(d, m)
  PROVE  \A e \in Dir \ {d} : sendDict'[e] = sendDict[e]
BY DEF TypeOK, FirstFrame, NextFrame, Advance

LEMMA BufferElsewhere ==
  ASSUME TypeOK, NEW d \in Dir, NEW m \in Message, Buffer(d, m)
  PROVE  \A e \in Dir \ {d} : recv'[e] = recv[e] /\ codec'[e] = codec[e]
<1>1. ASSUME NEW c, SetCodec(d, c)
      PROVE  \A e \in Dir \ {d} : codec'[e] = codec[e]
  BY <1>1 DEF TypeOK, SetCodec
<1>2. ASSUME NEW r, Write(d, r) PROVE \A e \in Dir \ {d} : recv'[e] = recv[e]
  BY <1>2, WriteElsewhere
<1>3. CASE FinishCompressed(d, m)
  <2>1. PICK c : codec' = [codec EXCEPT ![d] = c]
    BY <1>3, FinishCodec DEF Finishing
  <2>2. (\E r : Write(d, r)) \/ UNCHANGED recv
    BY <1>3 DEF FinishCompressed, InflateFails, ForwardInflated, WriteDeflated,
                CompressedParseFails, ConsumeInflated, Consume, HandlerFails,
                ReplaceInflated, WriteRaw
  <2>3. QED BY <1>1, <1>2, <2>1, <2>2 DEF SetCodec
<1>4. CASE ~FinishCompressed(d, m)
  <2>1. \E c : SetCodec(d, c)
    BY <1>4 DEF Buffer
  <2>2. (\E r : Write(d, r)) \/ UNCHANGED recv
    BY <1>4 DEF Buffer, WriteRaw
  <2>3. QED BY <1>1, <1>2, <2>1, <2>2
<1>5. QED BY <1>3, <1>4

LEMMA HandleCompressedClean ==
  ASSUME TypeOK, NEW d \in Dir, NoTakeoverAt(d), HandleCompressed(d)
  PROVE  OwnOnly(d) /\ NoTakeoverAt(d)'
<1>1. PICK m : (FirstFrame(d, m) \/ NextFrame(d, m)) /\ Buffer(d, m)
  BY DEF HandleCompressed
<1>2. m \in Message /\ scenario' = scenario
  BY <1>1, FirstFrameType, NextFrameType DEF HandleCompressed, serveVars
<1>3. OwnOnly(d)
  BY <1>1, <1>2, FrameElsewhere, BufferElsewhere DEF OwnOnly
<1>4. ASSUME scenario.noTakeover[d]
      PROVE  Clean(recv'[d]) /\ sendDict'[d] = << >> /\ codec'[d].deflate = << >>
  <2>1. CleanStep(d)
    BY <1>1, <1>2, <1>4, BufferClean
  <2>2. sendDict[d] = << >>
    BY <1>4 DEF NoTakeoverAt
  <2>3. sendDict'[d] = << >>
    BY <1>1, <1>4, <2>2, AdvanceClean DEF FirstFrame, NextFrame
  <2>4. QED BY <2>1, <2>3 DEF CleanStep
<1>5. QED BY <1>2, <1>3, <1>4 DEF NoTakeoverAt, Clean

(* A frame or message that is not compressed, or goes out byte-equal.      *)
LEMMA PlainStepClean ==
  ASSUME TypeOK, NEW d \in Dir, NoTakeoverAt(d), UNCHANGED <<scenario, codec>>,
         NEW m \in Message, FirstFrame(d, m) \/ NextFrame(d, m),
         \/ WriteRaw(d, m, 1)
         \/ Write(d, Received(d, recv[d], m, TextOf(m, "rewritten"),
                              << >>, "reencoded"))
         \/ UNCHANGED recv
  PROVE  OwnOnly(d) /\ NoTakeoverAt(d)'
<1>1. OwnOnly(d)
  BY FrameElsewhere, WriteElsewhere DEF OwnOnly, WriteRaw
<1>2. ASSUME scenario.noTakeover[d] PROVE Clean(recv'[d]) /\ sendDict'[d] = << >>
  <2>1. recv[d] \in Receiver /\ Clean(recv[d]) /\ sendDict[d] = << >>
    BY <1>2 DEF TypeOK, NoTakeoverAt
  <2>2. sendDict'[d] = << >>
    BY <1>2, <2>1, AdvanceClean DEF FirstFrame, NextFrame
  <2>3. CASE WriteRaw(d, m, 1)
    BY <1>2, <2>2, <2>3, WriteRawClean
  <2>4. CASE Write(d, Received(d, recv[d], m, TextOf(m, "rewritten"),
                               << >>, "reencoded"))
    <3>1. Clean(Received(d, recv[d], m, TextOf(m, "rewritten"), << >>, "reencoded"))
      BY <1>2, <2>1, ReceivedClean
    <3>2. QED BY <2>1, <2>2, <2>4, <3>1, WriteClean
  <2>5. CASE UNCHANGED recv
    BY <2>1, <2>2, <2>5
  <2>6. QED BY <2>3, <2>4, <2>5
<1>3. QED BY <1>1, <1>2 DEF NoTakeoverAt, Clean

LEMMA ForwardClean ==
  ASSUME TypeOK, NEW d \in Dir, NoTakeoverAt(d),
         \/ ForwardContinuation(d) \/ PassThrough(d)
         \/ PlainParseFails(d) \/ HandlePlain(d)
  PROVE  OwnOnly(d) /\ NoTakeoverAt(d)'
<1>1. UNCHANGED <<scenario, codec>>
  BY DEF ForwardContinuation, PassThrough, PlainParseFails, HandlePlain, serveVars
<1>2. PICK m : /\ FirstFrame(d, m) \/ NextFrame(d, m)
               /\ \/ WriteRaw(d, m, 1)
                  \/ Write(d, Received(d, recv[d], m, TextOf(m, "rewritten"),
                                       << >>, "reencoded"))
                  \/ UNCHANGED recv
  BY DEF ForwardContinuation, PassThrough, PlainParseFails, HandlePlain, Consume
<1>3. m \in Message
  BY <1>2, FirstFrameType, NextFrameType
<1>4. QED BY <1>1, <1>2, <1>3, PlainStepClean

LEMMA QuietStepClean ==
  ASSUME TypeOK, NEW d \in Dir, NoTakeoverAt(d),
         CheckContext(d) \/ ReadFails(d) \/ ForwardControl(d)
  PROVE  OwnOnly(d) /\ NoTakeoverAt(d)'
<1>1. UNCHANGED <<scenario, codec, sendDict>>
  BY DEF CheckContext, ReadFails, ForwardControl, inputVars, serveVars
<1>2. UNCHANGED recv \/ Write(d, recv[d])
  BY DEF CheckContext, ReadFails, ForwardControl
<1>3. recv'[d] = recv[d] /\ \A e \in Dir \ {d} : recv'[e] = recv[e]
  BY <1>2 DEF TypeOK, Write
<1>4. QED BY <1>1, <1>3 DEF OwnOnly, NoTakeoverAt, Clean

LEMMA NoTakeoverNext == TypeOK /\ NoTakeoverInv /\ [Next]_vars => NoTakeoverInv'
<1> SUFFICES ASSUME TypeOK, NoTakeoverInv, [Next]_vars,
                    NEW e \in Dir
             PROVE  NoTakeoverAt(e)'
  BY DEF NoTakeoverInv
<1>1. NoTakeoverAt(e)
  BY DEF NoTakeoverInv
<1>2. ASSUME NEW d \in Dir, Pump(d) PROVE NoTakeoverAt(e)'
  <2>1. NoTakeoverAt(d)
    BY DEF NoTakeoverInv
  <2>2. OwnOnly(d) /\ NoTakeoverAt(d)'
    BY <1>2, <2>1, HandleCompressedClean, ForwardClean, QuietStepClean DEF Pump
  <2>3. CASE e = d
    BY <2>2, <2>3
  <2>4. CASE e # d
    BY <1>1, <2>2, <2>4 DEF OwnOnly, NoTakeoverAt, Clean
  <2>5. QED BY <2>3, <2>4
<1>3. CASE ~\E d \in Dir : Pump(d)
  <2>1. UNCHANGED <<scenario, codec, recv, sendDict>>
    BY <1>3 DEF Next, ServeRecordsClose, ServeReturns, CallerCloses,
                ContextCancelled, PeerLeaves, Finished, vars, inputVars
  <2>2. QED BY <1>1, <2>1 DEF NoTakeoverAt, Clean
<1>4. QED BY <1>2, <1>3

LEMMA NoTakeoverInit == Init => NoTakeoverInv
BY DEF Init, NoTakeoverInv, NoTakeoverAt, Clean

LEMMA NoTakeoverImplies == NoTakeoverInv => NoTakeoverDecodable
BY DEF NoTakeoverInv, NoTakeoverAt, Clean, NoTakeoverDecodable, AllDecodable

(* With no_context_takeover every message decodes at its target, after any *)
(* sequence of rewriting, consuming, capping, failing and degrading.       *)
THEOREM NoTakeoverAlwaysDecodes == Spec => []NoTakeoverDecodable
BY NoTakeoverInit, NoTakeoverNext, NoTakeoverImplies, TypeCorrect, PTL DEF Spec

-----------------------------------------------------------------------------
(* The close initiator.                                                    *)

(* The peer a pump's result speaks of has left.                            *)
Excused(e) == /\ e.why \in {"eof", "read"} => Source(e.dir) \in gone
              /\ e.why = "write" => Target(e.dir) \in gone

BlameInv == BlameIsReal /\ \A i \in DOMAIN errs : Excused(errs[i])

(* What a step of a pump does to errs, and that it closes nothing.         *)
Reports(d) == \/ UNCHANGED errs
              \/ \E why \in Outcome : /\ Excused([dir |-> d, why |-> why])
                                      /\ Stop(d, why)

LEMMA WriteReports ==
  ASSUME NEW d \in Dir, NEW r, Write(d, r)
  PROVE  Reports(d)
BY DEF Write, Continue, Reports, Excused, Outcome

LEMMA FinishReports ==
  ASSUME NEW d \in Dir, NEW m, FinishCompressed(d, m)
  PROVE  Reports(d)
<1>1. \/ \E r : Write(d, r)
      \/ UNCHANGED errs
      \/ Stop(d, "handler") \/ Stop(d, "reencode")
  BY DEF FinishCompressed, InflateFails, ForwardInflated, WriteDeflated, WriteRaw,
         CompressedParseFails, ConsumeInflated, Consume, Continue, HandlerFails,
         ReplaceInflated
<1>2. QED BY <1>1, WriteReports DEF Reports, Excused, Outcome

LEMMA PumpReports ==
  ASSUME NEW d \in Dir, Pump(d)
  PROVE  Reports(d) /\ UNCHANGED <<gone, closed>>
<1>1. UNCHANGED <<gone, closed>>
  BY DEF Pump, CheckContext, ReadFails, HandleCompressed, ForwardContinuation,
         ForwardControl, PassThrough, PlainParseFails, HandlePlain, serveVars
<1>2. CASE CheckContext(d)
  BY <1>1, <1>2 DEF CheckContext, Reports, Excused, Outcome
<1>3. CASE ReadFails(d)
  BY <1>1, <1>3 DEF ReadFails, Reports, Excused, Outcome
<1>4. CASE HandleCompressed(d)
  <2>1. PICK m : Buffer(d, m)
    BY <1>4 DEF HandleCompressed
  <2>2. \/ \E r : Write(d, r)
        \/ UNCHANGED errs
        \/ FinishCompressed(d, m)
    BY <2>1 DEF Buffer, WriteRaw, Continue
  <2>3. QED BY <1>1, <2>2, WriteReports, FinishReports DEF Reports
<1>5. CASE \/ ForwardContinuation(d) \/ ForwardControl(d)
           \/ PassThrough(d) \/ PlainParseFails(d)
  BY <1>1, <1>5, WriteReports DEF ForwardContinuation, ForwardControl, PassThrough,
                            PlainParseFails, WriteRaw
<1>6. CASE HandlePlain(d)
  <2>1. (\E r : Write(d, r)) \/ UNCHANGED errs \/ Stop(d, "handler")
    BY <1>6 DEF HandlePlain, WriteRaw, Consume, Continue
  <2>2. QED BY <1>1, <2>1, WriteReports DEF Reports, Excused, Outcome
<1>7. QED BY <1>1, <1>2, <1>3, <1>4, <1>5, <1>6 DEF Pump

LEMMA PumpBlame ==
  ASSUME TypeOK, BlameInv, NEW d \in Dir, Pump(d)
  PROVE  BlameInv'
<1>1. Reports(d) /\ UNCHANGED <<gone, closed>>
  BY PumpReports
<1>2. CASE UNCHANGED errs
  BY <1>1, <1>2 DEF BlameInv, BlameIsReal, Excused
<1>3. ASSUME NEW why \in Outcome, Excused([dir |-> d, why |-> why]), Stop(d, why)
      PROVE  BlameInv'
  <2>1. errs \in Seq([dir : Dir, why : Outcome])
    BY DEF TypeOK
  <2>2. /\ DOMAIN errs' = DOMAIN errs \cup {Len(errs) + 1}
        /\ \A i \in DOMAIN errs : errs'[i] = errs[i]
        /\ errs'[Len(errs) + 1] = [dir |-> d, why |-> why]
    BY <1>3, <2>1 DEF Stop
  <2>3. \A i \in DOMAIN errs' : Excused(errs'[i])
    BY <1>3, <2>2 DEF BlameInv
  <2>4. QED BY <1>1, <2>2, <2>3 DEF BlameInv, BlameIsReal, Excused
<1>4. QED BY <1>1, <1>2, <1>3 DEF Reports

LEMMA BlameNext == TypeOK /\ BlameInv /\ [Next]_vars => BlameInv'
<1> SUFFICES ASSUME TypeOK, BlameInv, [Next]_vars PROVE BlameInv'
  OBVIOUS
<1>1. ASSUME NEW d \in Dir, Pump(d) PROVE BlameInv'
  BY <1>1, PumpBlame
<1>2. CASE ServeRecordsClose
  <2>1. PICK e : e = errs[1] /\ 1 \in DOMAIN errs /\ closed' = Classify(e)
    BY <1>2 DEF ServeRecordsClose, TypeOK
  <2>2. e \in [dir : Dir, why : Outcome] /\ Excused(e)
    <3>1. errs \in Seq([dir : Dir, why : Outcome]) /\ Excused(errs[1])
      BY <2>1 DEF TypeOK, BlameInv
    <3>2. errs[1] \in [dir : Dir, why : Outcome]
      <4>1. 1 \in 1 .. Len(errs)
        BY <2>1, <3>1
      <4>2. QED BY <3>1, <4>1, ElementOfSeq
    <3>3. errs[1] = e
      BY <2>1
    <3>4. Excused(e)
      BY <3>1, <3>3 DEF Excused
    <3>5. QED BY <3>2, <3>3, <3>4
  <2>3. e.dir \in {"c2s", "s2c"} /\ e.why \in Outcome
    BY <2>2 DEF Dir
  <2>4. UNCHANGED <<gone, errs>>
    BY <1>2 DEF ServeRecordsClose, pumpVars
  <2>5. BlameIsReal'
    BY <2>1, <2>2, <2>3, <2>4
       DEF BlameIsReal, Classify, Excused, Source, Target, Outcome
  <2>6. QED BY <2>4, <2>5 DEF BlameInv, Excused
<1>3. CASE ~ServeRecordsClose /\ ~\E d \in Dir : Pump(d)
  <2>1. UNCHANGED <<errs, closed>> /\ gone \subseteq gone'
    BY <1>3 DEF Next, ServeReturns, CallerCloses, ContextCancelled, PeerLeaves,
                Finished, vars, pumpVars, TypeOK
  <2>2. QED BY <2>1 DEF BlameInv, BlameIsReal, Excused
<1>4. QED BY <1>1, <1>2, <1>3

(* The close initiator that classifySessionClose records names a peer that *)
(* did leave, or an error of the bridge itself, whichever pump's result    *)
(* comes first when both stop.                                             *)
THEOREM BlameAlwaysReal == Spec => []BlameIsReal
<1>1. Init => BlameInv
  BY DEF Init, BlameInv, BlameIsReal
<1>2. BlameInv => BlameIsReal
  BY DEF BlameInv
<1>3. QED BY <1>1, <1>2, BlameNext, TypeCorrect, PTL DEF Spec

-----------------------------------------------------------------------------
(* A blocked direction.                                                    *)

LEMMA ReceivedLast ==
  ASSUME NEW d, NEW r \in Receiver, NEW m \in Message, NEW text, NEW dict, NEW how
  PROVE  LET got == Received(d, r, m, text, dict, how).got
         IN  got[Len(got)].how = how /\ got[Len(got)].rsv1 = m.rsv1
<1> DEFINE ok == m.rsv1 => Decodes(r.dict, dict, m.share)
           last == [id |-> m.id, rsv1 |-> m.rsv1, how |-> how, ok |-> ok]
<1>1. r.got \in Seq(Delivery)
  BY DEF Receiver
<1>2. Received(d, r, m, text, dict, how).got = Append(r.got, last)
  BY DEF Received
<1>3. Append(r.got, last)[Len(Append(r.got, last))] = last
  <2> HIDE DEF last
  <2> QED BY <1>1
<1>4. last.how = how /\ last.rsv1 = m.rsv1
  OBVIOUS
<1> HIDE DEF last
<1>5. QED BY <1>2, <1>3, <1>4

LEMMA RawDelivery ==
  ASSUME TypeOK, NEW d \in Dir, NEW m \in Message, NEW n \in Nat,
         WriteRaw(d, m, n), Delivers(d)
  PROVE  LastDelivered(d).how = "raw"
<1>1. recv[d] \in Receiver
  BY DEF TypeOK
<1>2. recv'[d] = ReceivedRaw(d, recv[d], m, n)
  BY DEF WriteRaw, Write, TypeOK, Delivers
<1>3. recv'[d] = Received(d, recv[d], m, TextOf(m, "sent"), sendDict[d], "raw")
  <2>1. recv[d].open + n >= m.frames
    BY <1>1, <1>2 DEF ReceivedRaw, Delivers, Receiver, Message
  <2>2. QED BY <1>1, <1>2, <2>1 DEF ReceivedRaw, Receiver, Message
<1>4. QED BY <1>1, <1>3, ReceivedLast DEF LastDelivered

(* A pump delivers to its own target only.                                 *)
LEMMA PumpElsewhere ==
  ASSUME TypeOK, NEW d \in Dir, Pump(d)
  PROVE  \A e \in Dir \ {d} : recv'[e] = recv[e]
<1>1. CASE HandleCompressed(d)
  <2>1. PICK m : (FirstFrame(d, m) \/ NextFrame(d, m)) /\ Buffer(d, m)
    BY <1>1 DEF HandleCompressed
  <2>2. m \in Message
    BY <2>1, FirstFrameType, NextFrameType
  <2>3. QED BY <2>1, <2>2, BufferElsewhere
<1>2. CASE ~HandleCompressed(d)
  <2>1. UNCHANGED recv \/ \E r : Write(d, r)
    BY <1>2 DEF Pump, CheckContext, ReadFails, ForwardContinuation, ForwardControl,
                PassThrough, PlainParseFails, HandlePlain, Consume, WriteRaw
  <2>2. QED BY <2>1, WriteElsewhere
<1>3. QED BY <1>1, <1>2

LEMMA BlockedPump ==
  ASSUME TypeOK, HoldsAllOrNone, NEW d \in Dir, Pump(d),
         codec[d].blocked, Delivers(d), LastDelivered(d).rsv1
  PROVE  LastDelivered(d).how = "raw"
<1>1. ~HandleCompressed(d)
  BY DEF HandleCompressed, CanHandle, HoldsAllOrNone
<1>2. ~(CheckContext(d) \/ ReadFails(d) \/ ForwardControl(d))
  BY DEF CheckContext, ReadFails, ForwardControl, Write, Delivers, TypeOK
<1>3. CASE ForwardContinuation(d)
  <2>1. msg[d] \in Message
    BY DEF TypeOK
  <2>2. QED BY <1>3, <2>1, RawDelivery DEF ForwardContinuation
<1>4. CASE PassThrough(d) \/ PlainParseFails(d)
  <2>1. PICK m : FirstFrame(d, m) /\ WriteRaw(d, m, 1)
    BY <1>4 DEF PassThrough, PlainParseFails
  <2>2. QED BY <2>1, FirstFrameType, RawDelivery
<1>5. CASE HandlePlain(d)
  <2>1. PICK m : /\ FirstFrame(d, m) /\ ~m.rsv1
                 /\ \/ WriteRaw(d, m, 1)
                    \/ Write(d, Received(d, recv[d], m, TextOf(m, "rewritten"),
                                         << >>, "reencoded"))
                    \/ UNCHANGED recv
    BY <1>5 DEF HandlePlain, PlainText, Consume
  <2>2. m \in Message /\ recv[d] \in Receiver
    BY <2>1, FirstFrameType DEF TypeOK
  <2>3. CASE WriteRaw(d, m, 1)
    BY <2>2, <2>3, RawDelivery
  <2>4. CASE Write(d, Received(d, recv[d], m, TextOf(m, "rewritten"),
                               << >>, "reencoded"))
    <3>1. recv'[d] = Received(d, recv[d], m, TextOf(m, "rewritten"), << >>,
                              "reencoded")
      BY <2>4 DEF Write, Delivers, TypeOK
    <3> DEFINE new == Received(d, recv[d], m, TextOf(m, "rewritten"), << >>,
                               "reencoded")
    <3>2. new.got[Len(new.got)].rsv1 = m.rsv1
      <4> HIDE DEF new
      <4> QED BY <2>2, ReceivedLast DEF new
    <3>3. LastDelivered(d) = new.got[Len(new.got)]
      <4> HIDE DEF new
      <4>1. recv'[d] = new
        BY <3>1 DEF new
      <4>2. QED BY <4>1 DEF LastDelivered
    <3> HIDE DEF new
    <3>4. QED BY <2>1, <3>2, <3>3
  <2>5. QED BY <2>1, <2>3, <2>4 DEF Delivers
<1>6. QED BY <1>1, <1>2, <1>3, <1>4, <1>5 DEF Pump

(* Once a cap or a codec error has blocked a direction, no step delivers a *)
(* compressed message there that is not what the source sent.              *)
THEOREM BlockedAlwaysEndsMutation == Spec => BlockedEndsMutation
<1>1. ASSUME TypeOK, HoldsAllOrNone, Next, NEW d \in Dir,
             codec[d].blocked, Delivers(d), LastDelivered(d).rsv1
      PROVE  LastDelivered(d).how = "raw"
  <2>1. ASSUME NEW e \in Dir, Pump(e) PROVE LastDelivered(d).how = "raw"
    <3>1. e = d
      BY <1>1, <2>1, PumpElsewhere DEF Delivers
    <3>2. QED BY <1>1, <2>1, <3>1, BlockedPump
  <2>2. \E e \in Dir : Pump(e)
    BY <1>1 DEF Next, ServeRecordsClose, ServeReturns, CallerCloses,
                ContextCancelled, PeerLeaves, Finished, vars, Delivers
  <2>3. QED BY <2>1, <2>2
<1>2. TypeOK /\ HoldsAllOrNone /\ [Next]_vars
        => [\A d \in Dir : codec[d].blocked /\ Delivers(d) /\ LastDelivered(d).rsv1
              => LastDelivered(d).how = "raw"]_vars
  BY <1>1
<1>3. QED BY <1>2, TypeCorrect, BuffersHoldAllOrNone, PTL
          DEF Spec, BlockedEndsMutation

-----------------------------------------------------------------------------
(* What becomes of a message.  Each frame a pump reads, number n of its    *)
(* message m, has one of five effects on its direction; the theorems on    *)
(* delivery below use no more than this.                                   *)

Inspected(d) == scenario.negotiated /\ ~codec[d].blocked

(* The flags only rise.                                                    *)
FlagsRise(d) ==
  /\ codec[d].blocked => codec'[d].blocked
  /\ codec[d].forceReencode => codec'[d].forceReencode
  /\ degraded => degraded'

(* The pump stops, having delivered and consumed nothing.                  *)
Stopped(d) == /\ pc'[d] = "done" /\ recv'[d] = recv[d] /\ consumed'[d] = consumed[d]

(* The message goes on: its frames are in the buffer or at the target.     *)
GoesOn(d, m, n) ==
  /\ n # m.frames
  /\ recv'[d].got = recv[d].got /\ recv'[d].dict = recv[d].dict
  /\ codec'[d].held + recv'[d].open = n
  /\ consumed'[d] = consumed[d] /\ codec'[d].deflate = codec[d].deflate

Ended(d, m, n) == n = m.frames /\ codec'[d].held = 0 /\ recv'[d].open = 0

(* It is complete and goes out byte-equal.                                 *)
SentRaw(d, m) ==
  /\ recv'[d] = Received(d, recv[d], m, TextOf(m, "sent"), sendDict[d], "raw")
  /\ consumed'[d] = consumed[d]
  /\ m.rsv1 /\ Inspected(d) =>
       \/ codec'[d].blocked \/ degraded'
       \/ /\ ~codec[d].forceReencode
          /\ codec'[d].deflate = Observed(d, codec[d].deflate, TextOf(m, "sent"))
  /\ ~m.rsv1 => codec'[d] = codec[d]

(* It is encoded anew, against the bridge's own dictionary.                *)
SentAnew(d, m) ==
  \E text \in Text, dict \in Dictionary :
    /\ recv'[d] = Received(d, recv[d], m, text, dict, "reencoded")
    /\ consumed'[d] = consumed[d]
    /\ m.rsv1 => /\ Inspected(d) /\ dict = codec[d].deflate
                 /\ codec'[d].deflate = Observed(d, codec[d].deflate, text)
    /\ ~m.rsv1 => codec'[d] = codec[d]

(* The handler takes it.                                                   *)
TakenOut(d, m) ==
  /\ consumed'[d] = consumed[d] \cup {[id |-> m.id, rsv1 |-> m.rsv1]}
  /\ recv'[d] = recv[d] /\ codec'[d].deflate = codec[d].deflate
  /\ m.rsv1 => codec'[d].forceReencode /\ scenario.negotiated

Effect(d, m, n) ==
  /\ FlagsRise(d)
  /\ \/ Stopped(d) \/ GoesOn(d, m, n)
     \/ Ended(d, m, n) /\ (SentRaw(d, m) \/ SentAnew(d, m) \/ TakenOut(d, m))

LEMMA WriteLands ==
  ASSUME TypeOK, NEW d \in Dir, NEW r, Write(d, r)
  PROVE  \/ pc'[d] = "done" /\ recv'[d] = recv[d]
         \/ recv'[d] = r
BY DEF TypeOK, Write, Continue, Stop

LEMMA RawLands ==
  ASSUME TypeOK, NEW d \in Dir, NEW m \in Message, NEW k \in Nat, NEW n \in Nat,
         WriteRaw(d, m, k), recv[d].open + k = n, n <= m.frames
  PROVE  \/ pc'[d] = "done" /\ recv'[d] = recv[d]
         \/ /\ n # m.frames
            /\ recv'[d].got = recv[d].got /\ recv'[d].dict = recv[d].dict
            /\ recv'[d].open = n
         \/ /\ n = m.frames
            /\ recv'[d] = Received(d, recv[d], m, TextOf(m, "sent"), sendDict[d], "raw")
            /\ recv'[d].open = 0
<1>1. recv[d] \in Receiver /\ m.frames \in Nat
  BY DEF TypeOK, Message
<1>2. CASE n # m.frames
  <2>1. ReceivedRaw(d, recv[d], m, k) = [recv[d] EXCEPT !.open = n]
    BY <1>1, <1>2 DEF ReceivedRaw
  <2>2. /\ [recv[d] EXCEPT !.open = n].got = recv[d].got
        /\ [recv[d] EXCEPT !.open = n].dict = recv[d].dict
        /\ [recv[d] EXCEPT !.open = n].open = n
    BY <1>1 DEF Receiver
  <2> QED BY <1>2, <2>1, <2>2, WriteLands DEF WriteRaw
<1>3. CASE n = m.frames
  <2>1. ReceivedRaw(d, recv[d], m, k)
          = Received(d, recv[d], m, TextOf(m, "sent"), sendDict[d], "raw")
    BY <1>1, <1>3 DEF ReceivedRaw
  <2>2. Received(d, recv[d], m, TextOf(m, "sent"), sendDict[d], "raw").open = 0
    BY DEF Received
  <2> QED BY <1>3, <2>1, <2>2, WriteLands DEF WriteRaw
<1> QED BY <1>2, <1>3

LEMMA CodecBecomes ==
  ASSUME TypeOK, NEW d \in Dir, NEW c, SetCodec(d, c)
  PROVE  codec'[d] = c
BY DEF TypeOK, SetCodec

LEMMA CodecInflated ==
  ASSUME TypeOK, NEW d \in Dir, NEW m \in Message
  PROVE  LET c == Inflated(d, m)
         IN  /\ c \in Codec /\ c.held = 0 /\ c.blocked = codec[d].blocked
             /\ c.forceReencode = codec[d].forceReencode /\ c.deflate = codec[d].deflate
<1>1. codec[d] \in Codec /\ Inflated(d, m) \in Codec
  BY InflatedType DEF TypeOK
<1> QED BY <1>1 DEF Inflated, Codec

LEMMA RewriteEffect ==
  ASSUME TypeOK, NEW d \in Dir, NEW m \in Message, NEW text \in Text,
         Inspected(d), m.rsv1, UNCHANGED <<consumed, degraded>>, WriteDeflated(d, m, text)
  PROVE  Effect(d, m, m.frames)
<1> DEFINE c == Inflated(d, m)
           a == [c EXCEPT !.deflate = Observed(d, c.deflate, text)]
           r == Received(d, recv[d], m, text, c.deflate, "reencoded")
<1>1. /\ c \in Codec /\ c.held = 0 /\ c.blocked = codec[d].blocked
      /\ c.forceReencode = codec[d].forceReencode /\ c.deflate = codec[d].deflate
  BY CodecInflated
<1>2. codec'[d] = a /\ Write(d, r)
  BY CodecBecomes DEF WriteDeflated
<1>3. r.open = 0
  BY DEF Received
<1>4. /\ codec'[d].held = 0 /\ codec'[d].blocked = codec[d].blocked
      /\ codec'[d].forceReencode = codec[d].forceReencode
      /\ codec'[d].deflate = Observed(d, codec[d].deflate, text)
  <2> HIDE DEF c
  <2> QED BY <1>1, <1>2 DEF Codec
<1>5. FlagsRise(d)
  BY <1>4 DEF FlagsRise
<1> HIDE DEF c
<1>6. codec[d].deflate \in Dictionary
  BY DEF TypeOK, Codec
<1>7. CASE recv'[d] = r
  <2>1. recv'[d].open = 0 /\ recv'[d] = Received(d, recv[d], m, text, codec[d].deflate, "reencoded")
    BY <1>1, <1>3, <1>7
  <2>2. SentAnew(d, m)
    BY <1>4, <1>6, <2>1 DEF SentAnew
  <2> QED BY <1>4, <1>5, <2>1, <2>2 DEF Effect, Ended
<1>8. CASE pc'[d] = "done" /\ recv'[d] = recv[d]
  BY <1>5, <1>8 DEF Effect, Stopped
<1> HIDE DEF r
<1> QED BY <1>2, <1>7, <1>8, WriteLands

(* A whole message goes out byte-equal, from an empty buffer.              *)
LEMMA ForwardEffect ==
  ASSUME TypeOK, NEW d \in Dir, NEW m \in Message, NEW n \in Nat, NEW k \in Nat,
         recv[d].open + k = n, n <= m.frames,
         WriteRaw(d, m, k), UNCHANGED consumed, FlagsRise(d), codec'[d].held = 0,
         \/ codec'[d] = codec[d] /\ (m.rsv1 => ~Inspected(d))
         \/ m.rsv1 /\ codec'[d].deflate = codec[d].deflate
            /\ (n = m.frames => codec'[d].blocked \/ degraded')
         \/ m.rsv1 /\ n = m.frames /\ ~codec[d].forceReencode
            /\ codec'[d].deflate = Observed(d, codec[d].deflate, TextOf(m, "sent"))
  PROVE  Effect(d, m, n)
<1>1. CASE pc'[d] = "done" /\ recv'[d] = recv[d]
  BY <1>1 DEF Effect, Stopped
<1>2. CASE /\ n # m.frames
           /\ recv'[d].got = recv[d].got /\ recv'[d].dict = recv[d].dict
           /\ recv'[d].open = n
  BY <1>2 DEF Effect, GoesOn
<1>3. CASE /\ n = m.frames
           /\ recv'[d] = Received(d, recv[d], m, TextOf(m, "sent"), sendDict[d], "raw")
           /\ recv'[d].open = 0
  <2>1. m.rsv1 \in BOOLEAN
    BY DEF Message
  <2>2. SentRaw(d, m)
    BY <1>3, <2>1 DEF SentRaw, Inspected
  <2> QED BY <1>3, <2>2 DEF Effect, Ended
<1> QED BY <1>1, <1>2, <1>3, RawLands

LEMMA FinishEffect ==
  ASSUME TypeOK, NEW d \in Dir, NEW m \in Message, recv[d].open = 0,
         Inspected(d), m.rsv1, FinishCompressed(d, m)
  PROVE  Effect(d, m, m.frames)
<1> DEFINE c == Inflated(d, m)
<1>1. /\ c \in Codec /\ c.held = 0 /\ c.blocked = codec[d].blocked
      /\ c.forceReencode = codec[d].forceReencode /\ c.deflate = codec[d].deflate
  BY CodecInflated
<1>2. m.frames \in Nat /\ recv[d].open + m.frames = m.frames /\ m.frames <= m.frames
  BY DEF Message
<1>3. codec[d] \in Codec
  BY DEF TypeOK
<1>4. TextOf(m, "sent") \in Text /\ TextOf(m, "rewritten") \in Text
  BY TextOfType
<1>5. ASSUME codec'[d] = [c EXCEPT !.blocked = TRUE]
      PROVE  codec'[d].held = 0 /\ codec'[d].deflate = codec[d].deflate
             /\ codec'[d].blocked /\ (codec[d].forceReencode => codec'[d].forceReencode)
  <2> HIDE DEF c
  <2> QED BY <1>1, <1>5 DEF Codec
<1>6. CASE InflateFails(d, m)
  <2>1. /\ codec'[d] = [codec[d] EXCEPT !.held = 0, !.blocked = TRUE]
        /\ WriteRaw(d, m, m.frames) /\ UNCHANGED <<consumed, degraded>>
    BY <1>6, CodecBecomes DEF InflateFails
  <2>2. /\ codec'[d].held = 0 /\ codec'[d].deflate = codec[d].deflate
        /\ codec'[d].blocked /\ (codec[d].forceReencode => codec'[d].forceReencode)
    BY <1>3, <2>1 DEF Codec
  <2>3. FlagsRise(d)
    BY <2>1, <2>2 DEF FlagsRise
  <2> QED BY <1>2, <2>1, <2>2, <2>3, ForwardEffect
<1>7. CASE ForwardInflated(d, m)
  <2>1. CASE WriteDeflated(d, m, TextOf(m, "sent"))
    BY <1>4, <1>7, <2>1, RewriteEffect DEF ForwardInflated
  <2>2. CASE /\ SetCodec(d, [Inflated(d, m) EXCEPT !.blocked = TRUE])
             /\ Stop(d, "reencode") /\ UNCHANGED recv
    <3>1. codec'[d] = [c EXCEPT !.blocked = TRUE]
      BY <2>2, CodecBecomes
    <3>2. Stopped(d)
      BY <1>7, <2>2 DEF ForwardInflated, Stopped, Stop, TypeOK
    <3>3. FlagsRise(d)
      BY <1>5, <1>7, <3>1 DEF FlagsRise, ForwardInflated
    <3> QED BY <3>2, <3>3 DEF Effect
  <2>3. CASE /\ ~codec[d].forceReencode
             /\ SetCodec(d, [Inflated(d, m) EXCEPT
                               !.deflate = Observed(d, c.deflate, TextOf(m, "sent"))])
             /\ WriteRaw(d, m, m.frames)
    <3>1. codec'[d] = [c EXCEPT !.deflate = Observed(d, c.deflate, TextOf(m, "sent"))]
      BY <2>3, CodecBecomes
    <3>2. /\ codec'[d].held = 0 /\ codec'[d].blocked = codec[d].blocked
          /\ codec'[d].forceReencode = codec[d].forceReencode
          /\ codec'[d].deflate = Observed(d, codec[d].deflate, TextOf(m, "sent"))
      <4> HIDE DEF c
      <4> QED BY <1>1, <3>1 DEF Codec
    <3>3. FlagsRise(d) /\ UNCHANGED consumed
      BY <1>7, <3>2 DEF FlagsRise, ForwardInflated
    <3> QED BY <1>2, <2>3, <3>2, <3>3, ForwardEffect
  <2> QED BY <1>7, <2>1, <2>2, <2>3 DEF ForwardInflated
<1>8. CASE CompressedParseFails(d, m)
  <2>1. codec'[d] = c /\ degraded' /\ WriteRaw(d, m, m.frames) /\ UNCHANGED consumed
    BY <1>8, CodecBecomes DEF CompressedParseFails
  <2>2. FlagsRise(d)
    BY <1>1, <2>1 DEF FlagsRise
  <2> HIDE DEF c
  <2> QED BY <1>1, <1>2, <2>1, <2>2, ForwardEffect
<1>9. CASE ConsumeInflated(d, m)
  <2>1. codec'[d] = [c EXCEPT !.forceReencode = TRUE]
    BY <1>9, CodecBecomes DEF ConsumeInflated
  <2>2. /\ codec'[d].held = 0 /\ codec'[d].blocked = codec[d].blocked
        /\ codec'[d].forceReencode /\ codec'[d].deflate = codec[d].deflate
    <3> HIDE DEF c
    <3> QED BY <1>1, <2>1 DEF Codec
  <2>3. /\ consumed'[d] = consumed[d] \cup {[id |-> m.id, rsv1 |-> m.rsv1]}
        /\ recv' = recv /\ degraded' = degraded
    BY <1>9 DEF ConsumeInflated, Consume, TypeOK
  <2>4. FlagsRise(d) /\ Ended(d, m, m.frames) /\ TakenOut(d, m)
    BY <2>2, <2>3 DEF FlagsRise, Ended, TakenOut, Inspected
  <2> QED BY <2>4 DEF Effect
<1>10. CASE HandlerFails(d, m)
  <2>1. codec'[d] = c /\ Stopped(d) /\ degraded' = degraded
    BY <1>10, CodecBecomes DEF HandlerFails, Stopped, Stop, TypeOK
  <2>2. FlagsRise(d)
    BY <1>1, <2>1 DEF FlagsRise
  <2> QED BY <2>1, <2>2 DEF Effect
<1>11. CASE ReplaceInflated(d, m)
  <2>1. CASE WriteDeflated(d, m, TextOf(m, "rewritten"))
    BY <1>4, <1>11, <2>1, RewriteEffect DEF ReplaceInflated
  <2>2. CASE /\ SetCodec(d, [Inflated(d, m) EXCEPT !.blocked = TRUE])
             /\ WriteRaw(d, m, m.frames)
    <3>1. codec'[d] = [c EXCEPT !.blocked = TRUE]
      BY <2>2, CodecBecomes
    <3>2. FlagsRise(d) /\ UNCHANGED consumed
      BY <1>5, <1>11, <3>1 DEF FlagsRise, ReplaceInflated
    <3> QED BY <1>2, <1>5, <2>2, <3>1, <3>2, ForwardEffect
  <2> QED BY <1>11, <2>1, <2>2 DEF ReplaceInflated
<1> QED BY <1>6, <1>7, <1>8, <1>9, <1>10, <1>11 DEF FinishCompressed

LEMMA BufferEffect ==
  ASSUME TypeOK, NEW d \in Dir, NEW m \in Message, NEW n \in Nat, n <= m.frames,
         codec[d].held + 1 = n, recv[d].open = 0, Inspected(d), m.rsv1, Buffer(d, m)
  PROVE  Effect(d, m, n)
<1>1. codec[d] \in Codec /\ recv[d].open + n = n /\ m.frames \in Nat
  BY DEF TypeOK, Message
<1>2. CASE /\ SetCodec(d, [codec[d] EXCEPT !.held = 0, !.blocked = TRUE])
           /\ WriteRaw(d, m, n) /\ UNCHANGED <<consumed, degraded>>
  <2>1. codec'[d] = [codec[d] EXCEPT !.held = 0, !.blocked = TRUE]
    BY <1>2, CodecBecomes
  <2>2. /\ codec'[d].held = 0 /\ codec'[d].deflate = codec[d].deflate
        /\ codec'[d].blocked /\ (codec[d].forceReencode => codec'[d].forceReencode)
    BY <1>1, <2>1 DEF Codec
  <2>3. FlagsRise(d)
    BY <1>2, <2>2 DEF FlagsRise
  <2> QED BY <1>1, <1>2, <2>2, <2>3, ForwardEffect
<1>3. CASE /\ n < m.frames /\ SetCodec(d, [codec[d] EXCEPT !.held = n])
           /\ Continue(d) /\ UNCHANGED <<recv, consumed, degraded>>
  <2>1. codec'[d] = [codec[d] EXCEPT !.held = n]
    BY <1>3, CodecBecomes
  <2>2. /\ codec'[d].held = n /\ codec'[d].deflate = codec[d].deflate
        /\ codec'[d].blocked = codec[d].blocked
        /\ codec'[d].forceReencode = codec[d].forceReencode
    BY <1>1, <2>1 DEF Codec
  <2>3. FlagsRise(d) /\ GoesOn(d, m, n)
    BY <1>1, <1>3, <2>2 DEF FlagsRise, GoesOn
  <2> QED BY <2>3 DEF Effect
<1>4. CASE n = m.frames /\ FinishCompressed(d, m)
  BY <1>4, FinishEffect
<1> QED BY <1>2, <1>3, <1>4 DEF Buffer

(* A frame that is not buffered, of a message no one inspects.             *)
LEMMA PlainEffect ==
  ASSUME TypeOK, NEW d \in Dir, NEW m \in Message, NEW n \in Nat, n <= m.frames,
         recv[d].open + 1 = n, codec[d].held = 0, UNCHANGED codec, degraded => degraded',
         m.rsv1 => ~Inspected(d),
         \/ WriteRaw(d, m, 1) /\ UNCHANGED consumed
         \/ /\ ~m.rsv1 /\ m.frames = 1
            /\ \/ /\ Write(d, Received(d, recv[d], m, TextOf(m, "rewritten"),
                                       << >>, "reencoded"))
                  /\ UNCHANGED consumed
               \/ Consume(d, m)
               \/ Stop(d, "handler") /\ UNCHANGED <<recv, consumed>>
  PROVE  Effect(d, m, n)
<1>1. FlagsRise(d) /\ codec'[d] = codec[d]
  BY DEF FlagsRise
<1>2. recv[d].open \in Nat /\ m.rsv1 \in BOOLEAN
  BY DEF TypeOK, Receiver, Message
<1>3. CASE WriteRaw(d, m, 1) /\ UNCHANGED consumed
  BY <1>1, <1>3, ForwardEffect
<1>4. CASE /\ ~m.rsv1 /\ m.frames = 1 /\ UNCHANGED consumed
           /\ Write(d, Received(d, recv[d], m, TextOf(m, "rewritten"), << >>, "reencoded"))
  <2> DEFINE r == Received(d, recv[d], m, TextOf(m, "rewritten"), << >>, "reencoded")
  <2>1. r.open = 0
    BY DEF Received
  <2>2. CASE recv'[d] = r
    <3>1. TextOf(m, "rewritten") \in Text /\ << >> \in Dictionary
      BY TextOfType, SessionAssumption DEF Dictionary
    <3>2. SentAnew(d, m)
      BY <1>1, <1>4, <2>2, <3>1 DEF SentAnew
    <3>3. Ended(d, m, n)
      BY <1>1, <1>2, <1>4, <2>1, <2>2 DEF Ended
    <3> QED BY <1>1, <3>2, <3>3 DEF Effect
  <2>3. CASE pc'[d] = "done" /\ recv'[d] = recv[d]
    BY <1>1, <1>4, <2>3 DEF Effect, Stopped
  <2> HIDE DEF r
  <2>4. Write(d, r)
    BY <1>4 DEF r
  <2> QED BY <2>2, <2>3, <2>4, WriteLands
<1>5. CASE ~m.rsv1 /\ m.frames = 1 /\ Consume(d, m)
  <2>1. /\ consumed'[d] = consumed[d] \cup {[id |-> m.id, rsv1 |-> m.rsv1]}
        /\ recv' = recv
    BY <1>5 DEF Consume, TypeOK
  <2>2. n = 1 /\ recv[d].open = 0
    BY <1>2, <1>5
  <2> QED BY <1>1, <1>5, <2>1, <2>2 DEF Effect, Ended, TakenOut
<1>6. CASE Stop(d, "handler") /\ UNCHANGED <<recv, consumed>>
  BY <1>1, <1>6 DEF Effect, Stopped, Stop, TypeOK
<1> QED BY <1>3, <1>4, <1>5, <1>6

-----------------------------------------------------------------------------
(* Exactly once and in order.  Inductive with the inspector's invariant,   *)
(* which tells where the frames of the message being read are, and with    *)
(* the number of that message.                                             *)

Numbered(d) == read[d] > 0 => msg[d].id = sent[d] /\ sent[d] > 0

OnceAt(d) ==
  pc[d] # "done" =>
    /\ \A i, j \in DOMAIN recv[d].got :
         i < j => recv[d].got[i].id < recv[d].got[j].id
    /\ GotIds(d) \cup TakenIds(d) = 1 .. Complete(d)
    /\ GotIds(d) \cap TakenIds(d) = {}
    /\ codec[d].held + recv[d].open = read[d]

OnceInv == \A d \in Dir : Numbered(d) /\ OnceAt(d)

(* The n-th frame of m is read and dealt with.                             *)
FrameRead(d, m, n) ==
  /\ m \in Message /\ n \in Nat \ {0} /\ n <= m.frames
  /\ pc[d] # "done" /\ m.id > 0
  /\ Complete(d) = m.id - 1
  /\ Complete(d)' = IF n = m.frames THEN m.id ELSE m.id - 1
  /\ read'[d] = IF n = m.frames THEN 0 ELSE n
  /\ sendDict'[d] = IF n = m.frames /\ m.rsv1
                      THEN Observed(d, sendDict[d], TextOf(m, "sent")) ELSE sendDict[d]
  /\ Numbered(d)'
  /\ Effect(d, m, n)

LEMMA FirstFrameRead ==
  ASSUME TypeOK, NEW d \in Dir, NEW m, FirstFrame(d, m), Effect(d, m, 1)
  PROVE  FrameRead(d, m, 1)
<1>1. m \in Message /\ 1 <= m.frames /\ read[d] = 0 /\ Advance(d, m, 1)
  BY FirstFrameCount
<1>2. /\ pc[d] # "done" /\ sent \in [Dir -> Nat] /\ sent' = [sent EXCEPT ![d] = @ + 1]
      /\ m.id = sent[d] + 1
  BY DEF FirstFrame, Messages, TypeOK
<1>3. sent'[d] = m.id /\ sent[d] \in Nat
  BY <1>2
<1>4. m.frames \in Nat
  BY <1>1 DEF Message
<1>5. /\ 1 # m.frames => /\ read'[d] = 1 /\ msg'[d] = m /\ sendDict'[d] = sendDict[d]
      /\ 1 = m.frames => /\ read'[d] = 0
                         /\ sendDict'[d] = IF m.rsv1
                              THEN Observed(d, sendDict[d], TextOf(m, "sent")) ELSE sendDict[d]
  BY <1>1, AdvanceAt
<1>6. Complete(d) = m.id - 1
  BY <1>1, <1>2, <1>3 DEF Complete
<1>7. Complete(d)' = IF 1 = m.frames THEN m.id ELSE m.id - 1
  BY <1>3, <1>5 DEF Complete
<1>8. Numbered(d)'
  BY <1>2, <1>3, <1>5 DEF Numbered
<1> QED BY <1>1, <1>2, <1>3, <1>5, <1>6, <1>7, <1>8 DEF FrameRead

LEMMA NextFrameRead ==
  ASSUME TypeOK, InspectorInv, NEW d \in Dir, Numbered(d), NextFrame(d, msg[d]),
         Effect(d, msg[d], read[d] + 1)
  PROVE  FrameRead(d, msg[d], read[d] + 1)
<1> DEFINE m == msg[d]
           n == read[d] + 1
<1>1. /\ m \in Message /\ read[d] \in Nat \ {0} /\ n <= m.frames /\ Advance(d, m, n)
  BY NextFrameCount
<1>2. /\ pc[d] # "done" /\ sent' = sent /\ sent[d] \in Nat
      /\ m.id = sent[d] /\ sent[d] > 0
  BY <1>1 DEF NextFrame, TypeOK, Numbered
<1>3. m.frames \in Nat /\ n \in Nat \ {0}
  BY <1>1 DEF Message
<1>4. /\ n # m.frames => /\ read'[d] = n /\ msg'[d] = m /\ sendDict'[d] = sendDict[d]
      /\ n = m.frames => /\ read'[d] = 0
                         /\ sendDict'[d] = IF m.rsv1
                              THEN Observed(d, sendDict[d], TextOf(m, "sent")) ELSE sendDict[d]
  BY <1>1, <1>3, AdvanceAt
<1>5. Complete(d) = m.id - 1
  BY <1>1, <1>2 DEF Complete
<1>6. Complete(d)' = IF n = m.frames THEN m.id ELSE m.id - 1
  BY <1>2, <1>3, <1>4 DEF Complete
<1>7. Numbered(d)'
  BY <1>2, <1>4 DEF Numbered
<1> QED BY <1>1, <1>2, <1>3, <1>4, <1>5, <1>6, <1>7 DEF FrameRead

FrameStep(d) == \/ HandleCompressed(d) \/ ForwardContinuation(d) \/ PassThrough(d)
                \/ PlainParseFails(d) \/ HandlePlain(d)

LEMMA FrameIsRead ==
  ASSUME TypeOK, InspectorInv, NEW d \in Dir, Numbered(d), OnceAt(d), FrameStep(d)
  PROVE  \E m, n : FrameRead(d, m, n)
<1>1. /\ InSyncAt(d) /\ codec[d].held \in Nat /\ recv[d].open \in Nat /\ read[d] \in Nat
      /\ pc[d] # "done" => codec[d].held + recv[d].open = read[d]
  BY DEF InspectorInv, TypeOK, Codec, Receiver, OnceAt
<1>2. CASE HandleCompressed(d)
  <2>1. PICK m : /\ \/ FirstFrame(d, m) /\ CanHandle(d, m)
                    \/ NextFrame(d, m) /\ codec[d].held > 0
                 /\ Buffer(d, m)
    BY <1>2 DEF HandleCompressed
  <2>2. CASE FirstFrame(d, m) /\ CanHandle(d, m)
    <3>1. m \in Message /\ 1 <= m.frames /\ read[d] = 0 /\ pc[d] # "done"
      BY <2>2, FirstFrameCount DEF FirstFrame
    <3>2. codec[d].held + 1 = 1 /\ recv[d].open = 0
      BY <1>1, <3>1
    <3>3. Inspected(d) /\ m.rsv1
      BY <2>2 DEF CanHandle, Inspected
    <3> QED BY <2>1, <2>2, <3>1, <3>2, <3>3, BufferEffect, FirstFrameRead
  <2>3. CASE NextFrame(d, m) /\ codec[d].held > 0
    <3>1. /\ m \in Message /\ m = msg[d] /\ read[d] \in Nat \ {0} /\ read[d] + 1 <= m.frames
          /\ pc[d] # "done"
      BY <2>3, NextFrameCount DEF NextFrame
    <3>2. /\ codec[d].held + 1 = read[d] + 1 /\ recv[d].open = 0 /\ read[d] + 1 \in Nat
      BY <1>1, <2>3, <3>1 DEF InSyncAt
    <3>3. Inspected(d) /\ m.rsv1
      BY <1>1, <2>3, <3>1 DEF InSyncAt, Inspected
    <3> QED BY <2>1, <2>3, <3>1, <3>2, <3>3, BufferEffect, NextFrameRead
  <2> QED BY <2>1, <2>2, <2>3
<1>3. CASE ForwardContinuation(d)
  <2>1. /\ NextFrame(d, msg[d]) /\ codec[d].held = 0 /\ WriteRaw(d, msg[d], 1)
        /\ UNCHANGED <<codec, consumed, degraded>> /\ pc[d] # "done"
    BY <1>3 DEF ForwardContinuation, NextFrame
  <2>2. msg[d] \in Message /\ read[d] \in Nat \ {0} /\ read[d] + 1 <= msg[d].frames
    BY <2>1, NextFrameCount
  <2>3. recv[d].open + 1 = read[d] + 1 /\ read[d] + 1 \in Nat
    BY <1>1, <2>1
  <2>4. msg[d].rsv1 => ~Inspected(d)
    BY <1>1, <2>1, <2>2 DEF InSyncAt, Inspected
  <2> QED BY <2>1, <2>2, <2>3, <2>4, PlainEffect, NextFrameRead
<1>4. CASE PassThrough(d) \/ PlainParseFails(d) \/ HandlePlain(d)
  <2>1. PICK m : /\ FirstFrame(d, m) /\ (~CanHandle(d, m) \/ PlainText(d, m))
                 /\ \/ WriteRaw(d, m, 1) /\ UNCHANGED consumed
                    \/ /\ PlainText(d, m) /\ m.frames = 1
                       /\ \/ /\ Write(d, Received(d, recv[d], m, TextOf(m, "rewritten"),
                                                  << >>, "reencoded"))
                             /\ UNCHANGED consumed
                          \/ Consume(d, m)
                          \/ Stop(d, "handler") /\ UNCHANGED <<recv, consumed>>
    BY <1>4 DEF PassThrough, PlainParseFails, HandlePlain
  <2>2. UNCHANGED codec /\ (degraded => degraded')
    BY <1>4 DEF PassThrough, PlainParseFails, HandlePlain
  <2>3. m \in Message /\ 1 <= m.frames /\ read[d] = 0 /\ pc[d] # "done"
    BY <2>1, FirstFrameCount DEF FirstFrame
  <2>4. codec[d].held = 0 /\ recv[d].open + 1 = 1
    BY <1>1, <2>3
  <2>5. m.rsv1 => ~Inspected(d)
    BY <2>1 DEF CanHandle, PlainText, Inspected
  <2>6. PlainText(d, m) => ~m.rsv1
    BY DEF PlainText
  <2>7. Effect(d, m, 1)
    BY <2>1, <2>2, <2>3, <2>4, <2>5, <2>6, PlainEffect
  <2> QED BY <2>1, <2>3, <2>7, FirstFrameRead
<1> QED BY <1>2, <1>3, <1>4 DEF FrameStep

(* Nothing happens to the messages of a direction.                         *)
Still(e) ==
  /\ codec'[e] = codec[e] /\ recv'[e] = recv[e] /\ consumed'[e] = consumed[e]
  /\ msg'[e] = msg[e] /\ read'[e] = read[e] /\ sent'[e] = sent[e]
  /\ sendDict'[e] = sendDict[e]
  /\ pc[e] = "done" => pc'[e] = "done"

LEMMA FrameStill ==
  ASSUME TypeOK, NEW d \in Dir, FrameStep(d)
  PROVE  \A e \in Dir \ {d} : Still(e)
<1>1. PICK m : FirstFrame(d, m) \/ NextFrame(d, m)
  BY DEF FrameStep, HandleCompressed, ForwardContinuation, PassThrough, PlainParseFails,
         HandlePlain
<1>2. \A e \in Dir \ {d} : /\ msg'[e] = msg[e] /\ read'[e] = read[e] /\ sent'[e] = sent[e]
                           /\ sendDict'[e] = sendDict[e]
  BY <1>1 DEF FirstFrame, NextFrame, Advance, TypeOK
<1>3. \A e \in Dir \ {d} : /\ recv'[e] = recv[e] /\ codec'[e] = codec[e]
                           /\ consumed'[e] = consumed[e] /\ pc'[e] = pc[e]
  <2>1. CASE HandleCompressed(d)
    <3>1. PICK k : (FirstFrame(d, k) \/ NextFrame(d, k)) /\ Buffer(d, k)
      BY <2>1 DEF HandleCompressed
    <3>2. k \in Message
      BY <3>1, FirstFrameType, NextFrameType
    <3>3. \/ UNCHANGED consumed
          \/ Consume(d, k)
      BY <3>1 DEF Buffer, FinishCompressed, InflateFails, ForwardInflated,
                  CompressedParseFails, ConsumeInflated, HandlerFails, ReplaceInflated
    <3>4. Continue(d) \/ \E why : Stop(d, why)
      BY <3>1 DEF Buffer, FinishCompressed, InflateFails, ForwardInflated, WriteDeflated,
                  CompressedParseFails, ConsumeInflated, HandlerFails, ReplaceInflated,
                  WriteRaw, Write, Consume
    <3>5. \A e \in Dir \ {d} : consumed'[e] = consumed[e]
      BY <3>3 DEF Consume, TypeOK
    <3>6. \A e \in Dir \ {d} : pc'[e] = pc[e]
      BY <3>4 DEF Continue, Stop, TypeOK
    <3> QED BY <3>1, <3>2, <3>5, <3>6, BufferElsewhere
  <2>2. CASE ~HandleCompressed(d)
    <3>1. UNCHANGED codec /\ (UNCHANGED consumed \/ \E k : Consume(d, k))
      BY <2>2 DEF FrameStep, ForwardContinuation, PassThrough, PlainParseFails, HandlePlain
    <3>2. (\E r : Write(d, r)) \/ (UNCHANGED recv /\ (Continue(d) \/ \E why : Stop(d, why)))
      BY <2>2 DEF FrameStep, ForwardContinuation, PassThrough, PlainParseFails, HandlePlain,
                  WriteRaw, Consume
    <3>3. \A e \in Dir \ {d} : consumed'[e] = consumed[e]
      BY <3>1 DEF Consume, TypeOK
    <3>4. \A e \in Dir \ {d} : pc'[e] = pc[e] /\ recv'[e] = recv[e]
      BY <3>2 DEF Write, Continue, Stop, TypeOK
    <3> QED BY <3>1, <3>3, <3>4
  <2> QED BY <2>1, <2>2
<1> QED BY <1>2, <1>3 DEF Still

LEMMA QuietStill ==
  ASSUME TypeOK, NEW d \in Dir, CheckContext(d) \/ ReadFails(d) \/ ForwardControl(d)
  PROVE  \A e \in Dir : Still(e)
<1>1. UNCHANGED <<inputVars, codec, consumed>>
  BY DEF CheckContext, ReadFails, ForwardControl
<1>2. (UNCHANGED recv \/ Write(d, recv[d])) /\ pc[d] # "done"
  BY DEF CheckContext, ReadFails, ForwardControl
<1>3. \A e \in Dir : recv'[e] = recv[e]
  BY <1>2 DEF Write, TypeOK
<1>4. \A e \in Dir \ {d} : pc'[e] = pc[e]
  BY <1>2 DEF CheckContext, ReadFails, ForwardControl, Write, Continue, Stop, TypeOK
<1> QED BY <1>1, <1>2, <1>3, <1>4 DEF Still, inputVars

(* Every step of the system, as a direction sees it.                       *)
LEMMA StepSeen ==
  ASSUME TypeOK, InspectorInv, OnceInv, [Next]_vars, NEW e \in Dir
  PROVE  /\ scenario' = scenario /\ (degraded => degraded')
         /\ Still(e) \/ \E m, n : FrameRead(e, m, n)
<1>1. ASSUME NEW d \in Dir, Pump(d)
      PROVE  /\ scenario' = scenario /\ (degraded => degraded')
             /\ Still(e) \/ \E m, n : FrameRead(e, m, n)
  <2>1. scenario' = scenario
    BY <1>1 DEF Pump, CheckContext, ReadFails, HandleCompressed, ForwardContinuation,
                ForwardControl, PassThrough, PlainParseFails, HandlePlain, serveVars
  <2>2. CASE FrameStep(d)
    <3>1. \E m, n : FrameRead(d, m, n)
      BY <2>2, FrameIsRead DEF OnceInv
    <3>2. degraded => degraded'
      BY <3>1 DEF FrameRead, Effect, FlagsRise
    <3> QED BY <2>1, <2>2, <3>1, <3>2, FrameStill
  <2>3. CASE CheckContext(d) \/ ReadFails(d) \/ ForwardControl(d)
    <3>1. degraded' = degraded
      BY <2>3 DEF CheckContext, ReadFails, ForwardControl
    <3> QED BY <2>1, <2>3, <3>1, QuietStill
  <2> QED BY <1>1, <2>2, <2>3 DEF Pump, FrameStep
<1>2. CASE ~\E d \in Dir : Pump(d)
  <2>1. UNCHANGED <<scenario, pumpVars[1], inputVars, codec, recv, consumed, degraded>>
    BY <1>2 DEF Next, ServeRecordsClose, ServeReturns, CallerCloses, ContextCancelled,
                PeerLeaves, Finished, vars, inputVars, pumpVars
  <2> QED BY <2>1 DEF Still, inputVars, pumpVars
<1> QED BY <1>1, <1>2

(* m is the one more message that new has got than r.                      *)
OneMore(r, new, m, how) ==
  LET n == Len(r.got) + 1
  IN  /\ DOMAIN new.got = 1 .. n
      /\ \A i \in 1 .. n - 1 : new.got[i] = r.got[i]
      /\ new.got[n].id = m.id /\ new.got[n].rsv1 = m.rsv1 /\ new.got[n].how = how

LEMMA ReceivedOneMore ==
  ASSUME NEW d, NEW r \in Receiver, NEW m \in Message, NEW text, NEW dict, NEW how
  PROVE  OneMore(r, Received(d, r, m, text, dict, how), m, how)
<1> DEFINE ok == m.rsv1 => Decodes(r.dict, dict, m.share)
           last == [id |-> m.id, rsv1 |-> m.rsv1, how |-> how, ok |-> ok]
           new == Received(d, r, m, text, dict, how)
<1>1. r.got \in Seq(Delivery)
  BY DEF Receiver
<1>2. new.got = Append(r.got, last)
  BY DEF Received
<1>3. last.id = m.id /\ last.rsv1 = m.rsv1 /\ last.how = how
  OBVIOUS
<1> HIDE DEF last, new
<1>4. /\ DOMAIN new.got = 1 .. Len(r.got) + 1
      /\ \A i \in 1 .. Len(r.got) : new.got[i] = r.got[i]
      /\ new.got[Len(r.got) + 1] = last
  BY <1>1, <1>2
<1>5. Len(r.got) \in Nat
  BY <1>1
<1> QED BY <1>3, <1>4, <1>5 DEF OneMore, new

LEMMA OnceStill ==
  ASSUME NEW e \in Dir, Numbered(e), OnceAt(e), Still(e),
         pc'[e] # "done" => pc[e] # "done"
  PROVE  Numbered(e)' /\ OnceAt(e)'
BY DEF Numbered, OnceAt, Still, GotIds, TakenIds, Complete

(* The ids delivered and taken grow by m's own, the next in order.         *)
LEMMA DeliveredInOrder ==
  ASSUME TypeOK, NEW d \in Dir, NEW m \in Message, NEW how, OnceAt(d), pc[d] # "done",
         Complete(d) = m.id - 1, m.id > 0, OneMore(recv[d], recv'[d], m, how)
  PROVE  /\ \A i, j \in DOMAIN recv'[d].got :
              i < j => recv'[d].got[i].id < recv'[d].got[j].id
         /\ GotIds(d)' = GotIds(d) \cup {m.id}
<1> DEFINE n == Len(recv[d].got) + 1
<1>1. recv[d].got \in Seq(Delivery) /\ m.id \in Nat
  BY DEF TypeOK, Receiver, Message
<1>2. n \in Nat \ {0} /\ DOMAIN recv[d].got = 1 .. n - 1
  BY <1>1
<1>3. /\ DOMAIN recv'[d].got = 1 .. n
      /\ \A i \in 1 .. n - 1 : recv'[d].got[i] = recv[d].got[i]
      /\ recv'[d].got[n].id = m.id
  BY DEF OneMore
<1> HIDE DEF n
<1>4. \A i \in 1 .. n - 1 : recv[d].got[i].id \in 1 .. m.id - 1
  BY <1>2 DEF OnceAt, GotIds
<1>5. \A i, j \in 1 .. n : i < j => recv'[d].got[i].id < recv'[d].got[j].id
  <2> SUFFICES ASSUME NEW i \in 1 .. n, NEW j \in 1 .. n, i < j
               PROVE  recv'[d].got[i].id < recv'[d].got[j].id
    OBVIOUS
  <2>1. CASE j = n
    <3>1. i \in 1 .. n - 1
      BY <1>2, <2>1
    <3>2. recv'[d].got[i].id \in 1 .. m.id - 1 /\ recv'[d].got[j].id = m.id
      BY <1>3, <1>4, <2>1, <3>1
    <3> QED BY <1>1, <3>2
  <2>2. CASE j # n
    <3>1. i \in 1 .. n - 1 /\ j \in 1 .. n - 1
      BY <1>2, <2>2
    <3> QED BY <1>2, <1>3, <3>1 DEF OnceAt
  <2> QED BY <2>1, <2>2
<1>6. {recv'[d].got[i].id : i \in 1 .. n} = {recv[d].got[i].id : i \in 1 .. n - 1} \cup {m.id}
  <2>1. 1 .. n = (1 .. n - 1) \cup {n}
    BY <1>2
  <2> QED BY <1>3, <2>1
<1> QED BY <1>2, <1>3, <1>5, <1>6 DEF GotIds

LEMMA OnceFrame ==
  ASSUME TypeOK, NEW d \in Dir, OnceAt(d), NEW m, NEW n, FrameRead(d, m, n),
         pc'[d] # "done"
  PROVE  OnceAt(d)'
<1>1. /\ m \in Message /\ n \in Nat \ {0} /\ pc[d] # "done" /\ m.id > 0 /\ m.id \in Nat
      /\ Complete(d) = m.id - 1
      /\ Complete(d)' = IF n = m.frames THEN m.id ELSE m.id - 1
      /\ read'[d] = IF n = m.frames THEN 0 ELSE n
      /\ Effect(d, m, n) /\ recv[d] \in Receiver
  BY DEF FrameRead, Message, TypeOK
<1>2. /\ GotIds(d) \cup TakenIds(d) = 1 .. m.id - 1
      /\ GotIds(d) \cap TakenIds(d) = {}
      /\ \A i, j \in DOMAIN recv[d].got : i < j => recv[d].got[i].id < recv[d].got[j].id
  BY <1>1 DEF OnceAt
<1>3. (1 .. m.id - 1) \cup {m.id} = 1 .. m.id /\ m.id \notin 1 .. m.id - 1
  BY <1>1
<1>4. CASE GoesOn(d, m, n)
  <2>1. GotIds(d)' = GotIds(d) /\ TakenIds(d)' = TakenIds(d)
    BY <1>4 DEF GoesOn, GotIds, TakenIds
  <2>2. codec'[d].held + recv'[d].open = read'[d] /\ Complete(d)' = m.id - 1
        /\ recv'[d].got = recv[d].got
    BY <1>1, <1>4 DEF GoesOn
  <2> QED BY <1>2, <2>1, <2>2 DEF OnceAt
<1>5. CASE Ended(d, m, n) /\ (SentRaw(d, m) \/ SentAnew(d, m))
  <2>1. PICK how : OneMore(recv[d], recv'[d], m, how)
    BY <1>1, <1>5, ReceivedOneMore DEF SentRaw, SentAnew
  <2>2. TakenIds(d)' = TakenIds(d)
    BY <1>5 DEF SentRaw, SentAnew, TakenIds
  <2>3. /\ \A i, j \in DOMAIN recv'[d].got :
              i < j => recv'[d].got[i].id < recv'[d].got[j].id
        /\ GotIds(d)' = GotIds(d) \cup {m.id}
    BY <1>1, <2>1, DeliveredInOrder
  <2>4. codec'[d].held + recv'[d].open = read'[d] /\ Complete(d)' = m.id
    BY <1>1, <1>5 DEF Ended
  <2> QED BY <1>2, <1>3, <2>2, <2>3, <2>4 DEF OnceAt
<1>6. CASE Ended(d, m, n) /\ TakenOut(d, m)
  <2>1. GotIds(d)' = GotIds(d) /\ recv'[d] = recv[d]
    BY <1>6 DEF TakenOut, GotIds
  <2>2. TakenIds(d)' = TakenIds(d) \cup {m.id}
    <3> DEFINE t == [id |-> m.id, rsv1 |-> m.rsv1]
    <3>1. consumed'[d] = consumed[d] \cup {t} /\ t.id = m.id
      BY <1>6 DEF TakenOut
    <3> HIDE DEF t
    <3> QED BY <3>1 DEF TakenIds
  <2>3. codec'[d].held + recv'[d].open = read'[d] /\ Complete(d)' = m.id
    BY <1>1, <1>6 DEF Ended
  <2> QED BY <1>2, <1>3, <2>1, <2>2, <2>3 DEF OnceAt
<1> QED BY <1>1, <1>4, <1>5, <1>6 DEF Effect, Stopped

LEMMA OnceNext == TypeOK /\ InspectorInv /\ OnceInv /\ [Next]_vars => OnceInv'
<1> SUFFICES ASSUME TypeOK, InspectorInv, OnceInv, [Next]_vars, NEW e \in Dir
             PROVE  Numbered(e)' /\ OnceAt(e)'
  BY DEF OnceInv
<1>1. Numbered(e) /\ OnceAt(e)
  BY DEF OnceInv
<1>2. CASE Still(e)
  BY <1>1, <1>2, OnceStill DEF Still
<1>3. CASE \E m, n : FrameRead(e, m, n)
  <2>1. CASE pc'[e] = "done"
    BY <1>3, <2>1 DEF FrameRead, OnceAt
  <2>2. CASE pc'[e] # "done"
    BY <1>1, <1>3, <2>2, OnceFrame DEF FrameRead
  <2> QED BY <2>1, <2>2
<1> QED BY <1>2, <1>3, StepSeen

LEMMA OnceInit == Init => OnceInv
<1> SUFFICES ASSUME Init, NEW d \in Dir PROVE Numbered(d) /\ OnceAt(d)
  BY DEF OnceInv
<1>1. /\ recv[d].got = << >> /\ recv[d].open = 0 /\ codec[d].held = 0
      /\ read[d] = 0 /\ sent[d] = 0 /\ consumed[d] = {}
  BY DEF Init
<1>2. GotIds(d) = {} /\ TakenIds(d) = {} /\ Complete(d) = 0
  BY <1>1 DEF GotIds, TakenIds, Complete
<1> QED BY <1>1, <1>2 DEF Numbered, OnceAt

LEMMA OnceCorrect == Spec => []OnceInv
<1>1. QED BY OnceInit, OnceNext, TypeCorrect, InspectorCorrect, PTL DEF Spec

(* While a pump runs, every complete message of its source has reached the *)
(* target exactly once and in order or was consumed, and the frames of an  *)
(* incomplete one are in the buffer or at the target, whatever the handler *)
(* answers, wherever the size cap strikes and whatever fails.              *)
THEOREM DeliveredExactlyOnce == Spec => []ExactlyOnceInOrder
<1>1. OnceInv => ExactlyOnceInOrder
  BY DEF OnceInv, OnceAt, ExactlyOnceInOrder
<1> QED BY <1>1, OnceCorrect, PTL

-----------------------------------------------------------------------------
(* Consuming forces re-encoding.                                           *)

ReencodedAt(d) ==
  ~degraded /\ ~codec[d].blocked =>
    \A t \in consumed[d], i \in DOMAIN recv[d].got :
      /\ t.rsv1 /\ recv[d].got[i].rsv1 /\ t.id < recv[d].got[i].id
      => recv[d].got[i].how = "reencoded"

TookCompressed(d) == \E t \in consumed[d] : t.rsv1

ForceAt(d) ==
  /\ TookCompressed(d) => codec[d].forceReencode /\ scenario.negotiated
  /\ ReencodedAt(d)

ForceInv == \A d \in Dir : ForceAt(d)

LEMMA ForceFrame ==
  ASSUME TypeOK, NEW d \in Dir, OnceAt(d), ForceAt(d), scenario' = scenario,
         degraded => degraded', NEW m, NEW n, FrameRead(d, m, n)
  PROVE  ForceAt(d)'
<1>1. /\ m \in Message /\ recv[d] \in Receiver /\ Effect(d, m, n) /\ FlagsRise(d)
      /\ m.id \in Nat /\ pc[d] # "done" /\ Complete(d) = m.id - 1
  BY DEF FrameRead, Effect, Message, TypeOK
<1>2. CASE Stopped(d) \/ GoesOn(d, m, n)
  <2>1. recv'[d].got = recv[d].got /\ consumed'[d] = consumed[d]
    BY <1>2 DEF Stopped, GoesOn
  <2> QED BY <1>1, <2>1 DEF ForceAt, ReencodedAt, TookCompressed, FlagsRise
<1>3. CASE SentRaw(d, m) \/ SentAnew(d, m)
  <2>1. consumed'[d] = consumed[d]
    BY <1>3 DEF SentRaw, SentAnew
  <2>2. TookCompressed(d)' => codec'[d].forceReencode /\ scenario'.negotiated
    BY <1>1, <2>1 DEF ForceAt, TookCompressed, FlagsRise
  <2>3. PICK how : /\ OneMore(recv[d], recv'[d], m, how)
                   /\ how = "reencoded" \/ SentRaw(d, m)
    <3>1. CASE SentRaw(d, m)
      BY <1>1, <3>1, ReceivedOneMore DEF SentRaw
    <3>2. CASE SentAnew(d, m)
      BY <1>1, <3>2, ReceivedOneMore DEF SentAnew
    <3> QED BY <1>3, <3>1, <3>2
  <2>4. CASE how = "reencoded" \/ ~m.rsv1 \/ ~TookCompressed(d)
    <3> SUFFICES ASSUME ~degraded', ~codec'[d].blocked,
                        NEW t \in consumed'[d], NEW i \in DOMAIN recv'[d].got,
                        t.rsv1, recv'[d].got[i].rsv1, t.id < recv'[d].got[i].id
                 PROVE  recv'[d].got[i].how = "reencoded"
      BY <2>2 DEF ForceAt, ReencodedAt
    <3>1. ~degraded /\ ~codec[d].blocked
      BY <1>1 DEF FlagsRise
    <3>2. Len(recv[d].got) \in Nat /\ DOMAIN recv[d].got = 1 .. Len(recv[d].got)
      BY <1>1 DEF Receiver
    <3>3. TookCompressed(d)
      BY <2>1 DEF TookCompressed
    <3>4. CASE i = Len(recv[d].got) + 1
      BY <2>3, <2>4, <3>3, <3>4 DEF OneMore
    <3>5. CASE i # Len(recv[d].got) + 1
      <4> DEFINE k == Len(recv[d].got)
      <4>1. /\ k \in Nat /\ DOMAIN recv[d].got = 1 .. k /\ DOMAIN recv'[d].got = 1 .. k + 1
            /\ \A j \in 1 .. (k + 1) - 1 : recv'[d].got[j] = recv[d].got[j]
        BY <2>3, <3>2 DEF OneMore
      <4> HIDE DEF k
      <4>2. i # k + 1 /\ i \in 1 .. k + 1
        BY <3>5, <4>1 DEF k
      <4>3. i \in 1 .. k /\ (k + 1) - 1 = k
        BY <4>1, <4>2
      <4>4. i \in DOMAIN recv[d].got /\ recv'[d].got[i] = recv[d].got[i]
        BY <4>1, <4>3
      <4> QED BY <2>1, <3>1, <4>4 DEF ForceAt, ReencodedAt
    <3> QED BY <3>4, <3>5
  <2>5. CASE SentRaw(d, m) /\ m.rsv1 /\ TookCompressed(d)
    <3>1. codec[d].forceReencode /\ scenario.negotiated
      BY <2>5 DEF ForceAt
    <3>2. codec'[d].blocked \/ degraded'
      BY <1>1, <2>5, <3>1 DEF SentRaw, Inspected, FlagsRise
    <3> QED BY <2>2, <3>2 DEF ForceAt, ReencodedAt
  <2> QED BY <2>3, <2>4, <2>5
<1>4. CASE TakenOut(d, m)
  <2> DEFINE t == [id |-> m.id, rsv1 |-> m.rsv1]
  <2>1. /\ consumed'[d] = consumed[d] \cup {t} /\ t.id = m.id /\ t.rsv1 = m.rsv1
        /\ recv'[d] = recv[d] /\ (m.rsv1 => codec'[d].forceReencode /\ scenario.negotiated)
    BY <1>4 DEF TakenOut
  <2> HIDE DEF t
  <2>2. \A i \in DOMAIN recv[d].got : recv[d].got[i].id \in 1 .. m.id - 1
    BY <1>1 DEF OnceAt, GotIds
  <2>3. \A i \in DOMAIN recv'[d].got : ~(t.id < recv'[d].got[i].id)
    BY <1>1, <2>1, <2>2
  <2>4. TookCompressed(d)' => codec'[d].forceReencode /\ scenario'.negotiated
    BY <1>1, <2>1 DEF ForceAt, TookCompressed, FlagsRise
  <2>5. ReencodedAt(d)'
    BY <1>1, <2>1, <2>3 DEF ForceAt, ReencodedAt, FlagsRise
  <2> QED BY <2>4, <2>5 DEF ForceAt
<1> QED BY <1>1, <1>2, <1>3, <1>4 DEF Effect

LEMMA ForceNext ==
  TypeOK /\ InspectorInv /\ OnceInv /\ ForceInv /\ [Next]_vars => ForceInv'
<1> SUFFICES ASSUME TypeOK, InspectorInv, OnceInv, ForceInv, [Next]_vars, NEW e \in Dir
             PROVE  ForceAt(e)'
  BY DEF ForceInv
<1>1. ForceAt(e) /\ OnceAt(e) /\ scenario' = scenario /\ (degraded => degraded')
  BY StepSeen DEF ForceInv, OnceInv
<1>2. CASE Still(e)
  BY <1>1, <1>2 DEF Still, ForceAt, ReencodedAt, TookCompressed
<1>3. CASE \E m, n : FrameRead(e, m, n)
  BY <1>1, <1>3, ForceFrame
<1> QED BY <1>2, <1>3, StepSeen

LEMMA ForceCorrect == Spec => []ForceInv
<1>1. Init => ForceInv
  BY DEF Init, ForceInv, ForceAt, ReencodedAt, TookCompressed
<1> QED BY <1>1, ForceNext, TypeCorrect, InspectorCorrect, OnceCorrect, PTL DEF Spec

(* Once the handler has consumed a compressed message, no later compressed *)
(* message of that direction goes out byte-equal, unless compression       *)
(* handling is blocked or the session degraded: no path out of the         *)
(* compressed branch forgets forceReencode.                                *)
THEOREM ConsumingForcesReencoding == Spec => []ConsumedForcesReencode
<1>1. ForceInv => ConsumedForcesReencode
  BY DEF ForceInv, ForceAt, ReencodedAt, ConsumedForcesReencode
<1> QED BY <1>1, ForceCorrect, PTL

-----------------------------------------------------------------------------
(* Decodability.  As long as no compressed message went out byte-equal     *)
(* after a rewritten or a consumed one, the deflate dictionary of an       *)
(* inspected direction is the target's, and the target's is the source's   *)
(* until the first rewritten or consumed one.                              *)

Rewritten(d) ==
  \/ \E j \in DOMAIN recv[d].got : recv[d].got[j].rsv1 /\ recv[d].got[j].how = "reencoded"
  \/ TookCompressed(d)

SameDictionaries(d) ==
  /\ Inspected(d) => codec[d].deflate = recv[d].dict
  /\ ~Rewritten(d) => recv[d].dict = sendDict[d]

DictAt(d) ==
  ~degraded /\ ~RawAfterRewrite(d) =>
    AllDecodable(d) /\ (pc[d] # "done" => SameDictionaries(d))

DictInv == \A d \in Dir : DictAt(d)

LEMMA SelfDecodes ==
  ASSUME NEW dict \in Dictionary, NEW share \in Nat
  PROVE  Decodes(dict, dict, share)
BY DEF Decodes, Dictionary

(* A message that was compressed against the target's own dictionary.      *)
LEMMA ReceivedOk ==
  ASSUME NEW d, NEW r \in Receiver, NEW m \in Message, NEW text, NEW dict, NEW how,
         m.rsv1 => dict = r.dict
  PROVE  LET new == Received(d, r, m, text, dict, how)
         IN  /\ new.dict = IF m.rsv1 THEN Observed(d, r.dict, text) ELSE r.dict
             /\ new.got[Len(r.got) + 1].ok
<1> DEFINE ok == m.rsv1 => Decodes(r.dict, dict, m.share)
           last == [id |-> m.id, rsv1 |-> m.rsv1, how |-> how, ok |-> ok]
           new == Received(d, r, m, text, dict, how)
<1>1. r.got \in Seq(Delivery) /\ r.dict \in Dictionary /\ m.share \in Nat
  BY DEF Receiver, Message
<1>2. ok
  BY <1>1, SelfDecodes
<1>3. new.dict = IF m.rsv1 THEN Observed(d, r.dict, text) ELSE r.dict
  BY <1>2 DEF Received
<1>4. new.got = Append(r.got, last) /\ last.ok
  BY <1>2 DEF Received
<1> HIDE DEF last, new
<1>5. new.got[Len(r.got) + 1] = last
  BY <1>1, <1>4
<1> QED BY <1>3, <1>4, <1>5 DEF new

(* What a delivery adds to the history of a direction.                     *)
LEMMA HistoryGrows ==
  ASSUME TypeOK, NEW d \in Dir, NEW m \in Message, NEW how, OnceAt(d), pc[d] # "done",
         Complete(d) = m.id - 1, OneMore(recv[d], recv'[d], m, how),
         consumed'[d] = consumed[d]
  PROVE  /\ RawAfterRewrite(d) => RawAfterRewrite(d)'
         /\ Rewritten(d)' <=> Rewritten(d) \/ (m.rsv1 /\ how = "reencoded")
         /\ m.rsv1 /\ how = "raw" /\ Rewritten(d) => RawAfterRewrite(d)'
         /\ AllDecodable(d) /\ recv'[d].got[Len(recv[d].got) + 1].ok => AllDecodable(d)'
<1> DEFINE k == Len(recv[d].got)
<1>1. /\ k \in Nat /\ DOMAIN recv[d].got = 1 .. k
  BY DEF TypeOK, Receiver
<1>2. /\ DOMAIN recv'[d].got = 1 .. k + 1
      /\ \A j \in 1 .. k : recv'[d].got[j] = recv[d].got[j]
      /\ recv'[d].got[k + 1].id = m.id /\ recv'[d].got[k + 1].rsv1 = m.rsv1
      /\ recv'[d].got[k + 1].how = how
  <2>1. (k + 1) - 1 = k
    BY <1>1
  <2> QED BY <2>1 DEF OneMore
<1>3. m.id \in Nat /\ \A t \in consumed[d] : t.id \in 1 .. m.id - 1
  BY DEF OnceAt, TakenIds, Message
<1> HIDE DEF k
<1>4. 1 .. k + 1 = (1 .. k) \cup {k + 1} /\ k + 1 \notin 1 .. k
  BY <1>1
<1>5. \A i \in 1 .. k : 1 .. i - 1 \subseteq 1 .. k
  BY <1>1
<1>6. 1 .. (k + 1) - 1 = 1 .. k
  BY <1>1
<1>7. RawAfterRewrite(d) => RawAfterRewrite(d)'
  <2> SUFFICES ASSUME NEW i \in 1 .. k, recv[d].got[i].rsv1, recv[d].got[i].how = "raw",
                      \/ \E j \in 1 .. i - 1 : /\ recv[d].got[j].rsv1
                                               /\ recv[d].got[j].how = "reencoded"
                      \/ \E t \in consumed[d] : t.rsv1 /\ t.id < recv[d].got[i].id
               PROVE  RawAfterRewrite(d)'
    BY <1>1 DEF RawAfterRewrite
  <2>1. i \in DOMAIN recv'[d].got /\ recv'[d].got[i] = recv[d].got[i]
    BY <1>2, <1>4
  <2>2. CASE \E j \in 1 .. i - 1 : recv[d].got[j].rsv1 /\ recv[d].got[j].how = "reencoded"
    BY <1>2, <1>5, <2>1, <2>2 DEF RawAfterRewrite
  <2>3. CASE \E t \in consumed[d] : t.rsv1 /\ t.id < recv[d].got[i].id
    BY <2>1, <2>3 DEF RawAfterRewrite
  <2> QED BY <2>2, <2>3
<1>8. Rewritten(d)' <=> Rewritten(d) \/ (m.rsv1 /\ how = "reencoded")
  BY <1>1, <1>2, <1>4 DEF Rewritten, TookCompressed
<1>9. m.rsv1 /\ how = "raw" /\ Rewritten(d) => RawAfterRewrite(d)'
  <2> SUFFICES ASSUME m.rsv1, how = "raw", Rewritten(d) PROVE RawAfterRewrite(d)'
    OBVIOUS
  <2>1. /\ k + 1 \in DOMAIN recv'[d].got
        /\ recv'[d].got[k + 1].rsv1 /\ recv'[d].got[k + 1].how = "raw"
    BY <1>2, <1>4
  <2>2. CASE \E j \in 1 .. k : recv[d].got[j].rsv1 /\ recv[d].got[j].how = "reencoded"
    <3>1. \E j \in 1 .. (k + 1) - 1 : recv'[d].got[j].rsv1 /\ recv'[d].got[j].how = "reencoded"
      BY <1>2, <1>6, <2>2
    <3> QED BY <2>1, <3>1 DEF RawAfterRewrite
  <2>3. CASE TookCompressed(d)
    <3>1. \E t \in consumed'[d] : t.rsv1 /\ t.id < recv'[d].got[k + 1].id
      BY <1>2, <1>3, <2>3 DEF TookCompressed
    <3> QED BY <2>1, <3>1 DEF RawAfterRewrite
  <2> QED BY <1>1, <2>2, <2>3 DEF Rewritten
<1>10. AllDecodable(d) /\ recv'[d].got[k + 1].ok => AllDecodable(d)'
  BY <1>1, <1>2, <1>4 DEF AllDecodable
<1> QED BY <1>7, <1>8, <1>9, <1>10 DEF k

(* The three ways a message ends, for the dictionaries.                    *)
LEMMA RawDict ==
  ASSUME TypeOK, NEW d \in Dir, NEW m \in Message, OnceAt(d), DictAt(d), pc[d] # "done",
         Complete(d) = m.id - 1, scenario' = scenario, FlagsRise(d), SentRaw(d, m),
         sendDict'[d] = IF m.rsv1 THEN Observed(d, sendDict[d], TextOf(m, "sent"))
                        ELSE sendDict[d],
         ~degraded', ~RawAfterRewrite(d)'
  PROVE  AllDecodable(d)' /\ SameDictionaries(d)'
<1>1. /\ recv[d] \in Receiver /\ consumed'[d] = consumed[d] /\ m.rsv1 \in BOOLEAN
      /\ recv'[d] = Received(d, recv[d], m, TextOf(m, "sent"), sendDict[d], "raw")
  BY DEF SentRaw, TypeOK, Message
<1>2. OneMore(recv[d], recv'[d], m, "raw")
  BY <1>1, ReceivedOneMore
<1>3. /\ ~RawAfterRewrite(d) /\ ~degraded
      /\ Rewritten(d)' <=> Rewritten(d)
      /\ m.rsv1 => ~Rewritten(d)
      /\ AllDecodable(d) /\ recv'[d].got[Len(recv[d].got) + 1].ok => AllDecodable(d)'
  <2>1. /\ RawAfterRewrite(d) => RawAfterRewrite(d)'
        /\ Rewritten(d)' <=> Rewritten(d) \/ (m.rsv1 /\ "raw" = "reencoded")
        /\ m.rsv1 /\ "raw" = "raw" /\ Rewritten(d) => RawAfterRewrite(d)'
        /\ AllDecodable(d) /\ recv'[d].got[Len(recv[d].got) + 1].ok => AllDecodable(d)'
    BY <1>1, <1>2, HistoryGrows
  <2>2. ~degraded
    BY DEF FlagsRise
  <2> QED BY <2>1, <2>2
<1>4. AllDecodable(d) /\ SameDictionaries(d)
  BY <1>3 DEF DictAt
<1>5. m.rsv1 => sendDict[d] = recv[d].dict
  BY <1>3, <1>4 DEF SameDictionaries
<1>6. /\ recv'[d].dict = IF m.rsv1 THEN Observed(d, recv[d].dict, TextOf(m, "sent"))
                         ELSE recv[d].dict
      /\ recv'[d].got[Len(recv[d].got) + 1].ok
  BY <1>1, <1>5, ReceivedOk
<1>7. Rewritten(d)' \/ recv'[d].dict = sendDict'[d]
  BY <1>3, <1>4, <1>5, <1>6 DEF SameDictionaries
<1>8. Inspected(d)' => codec'[d].deflate = recv'[d].dict
  <2> SUFFICES ASSUME Inspected(d)' PROVE codec'[d].deflate = recv'[d].dict
    OBVIOUS
  <2>1. Inspected(d) /\ ~codec'[d].blocked
    BY DEF Inspected, FlagsRise
  <2>2. codec[d].deflate = recv[d].dict
    BY <1>4, <2>1 DEF SameDictionaries
  <2>3. CASE m.rsv1
    <3>1. codec'[d].deflate = Observed(d, codec[d].deflate, TextOf(m, "sent"))
      BY <2>1, <2>3 DEF SentRaw
    <3> QED BY <1>6, <2>2, <2>3, <3>1
  <2>4. CASE ~m.rsv1
    BY <1>6, <2>2, <2>4 DEF SentRaw
  <2> QED BY <2>3, <2>4
<1> QED BY <1>3, <1>4, <1>6, <1>7, <1>8 DEF SameDictionaries

LEMMA AnewDict ==
  ASSUME TypeOK, NEW d \in Dir, NEW m \in Message, OnceAt(d), DictAt(d), pc[d] # "done",
         Complete(d) = m.id - 1, scenario' = scenario, FlagsRise(d), SentAnew(d, m),
         sendDict'[d] = IF m.rsv1 THEN Observed(d, sendDict[d], TextOf(m, "sent"))
                        ELSE sendDict[d],
         ~degraded', ~RawAfterRewrite(d)'
  PROVE  AllDecodable(d)' /\ SameDictionaries(d)'
<1>1. PICK text \in Text, dict \in Dictionary :
        /\ recv'[d] = Received(d, recv[d], m, text, dict, "reencoded")
        /\ consumed'[d] = consumed[d]
        /\ m.rsv1 => /\ Inspected(d) /\ dict = codec[d].deflate
                     /\ codec'[d].deflate = Observed(d, codec[d].deflate, text)
        /\ ~m.rsv1 => codec'[d] = codec[d]
  BY DEF SentAnew
<1>2. recv[d] \in Receiver /\ m.rsv1 \in BOOLEAN
  BY DEF TypeOK, Message
<1>3. OneMore(recv[d], recv'[d], m, "reencoded")
  BY <1>1, <1>2, ReceivedOneMore
<1>4. /\ ~RawAfterRewrite(d) /\ ~degraded
      /\ Rewritten(d)' <=> Rewritten(d) \/ m.rsv1
      /\ AllDecodable(d) /\ recv'[d].got[Len(recv[d].got) + 1].ok => AllDecodable(d)'
  BY <1>1, <1>3, HistoryGrows DEF FlagsRise
<1>5. AllDecodable(d) /\ SameDictionaries(d)
  BY <1>4 DEF DictAt
<1>6. m.rsv1 => dict = recv[d].dict
  BY <1>1, <1>5 DEF SameDictionaries
<1>7. /\ recv'[d].dict = IF m.rsv1 THEN Observed(d, recv[d].dict, text) ELSE recv[d].dict
      /\ recv'[d].got[Len(recv[d].got) + 1].ok
  BY <1>1, <1>2, <1>6, ReceivedOk
<1>8. Rewritten(d)' \/ recv'[d].dict = sendDict'[d]
  BY <1>2, <1>4, <1>5, <1>7 DEF SameDictionaries
<1>9. Inspected(d)' => codec'[d].deflate = recv'[d].dict
  <2> SUFFICES ASSUME Inspected(d)' PROVE codec'[d].deflate = recv'[d].dict
    OBVIOUS
  <2>1. Inspected(d)
    BY DEF Inspected, FlagsRise
  <2>2. codec[d].deflate = recv[d].dict
    BY <1>5, <2>1 DEF SameDictionaries
  <2> QED BY <1>1, <1>2, <1>7, <2>2
<1> QED BY <1>4, <1>5, <1>7, <1>8, <1>9 DEF SameDictionaries

LEMMA TakenDict ==
  ASSUME TypeOK, NEW d \in Dir, NEW m \in Message, OnceAt(d), DictAt(d), pc[d] # "done",
         Complete(d) = m.id - 1, scenario' = scenario, FlagsRise(d), TakenOut(d, m),
         sendDict'[d] = IF m.rsv1 THEN Observed(d, sendDict[d], TextOf(m, "sent"))
                        ELSE sendDict[d],
         ~degraded', ~RawAfterRewrite(d)'
  PROVE  AllDecodable(d)' /\ SameDictionaries(d)'
<1> DEFINE t == [id |-> m.id, rsv1 |-> m.rsv1]
<1>1. /\ consumed'[d] = consumed[d] \cup {t} /\ t.rsv1 = m.rsv1
      /\ recv'[d] = recv[d] /\ codec'[d].deflate = codec[d].deflate /\ m.rsv1 \in BOOLEAN
  BY DEF TakenOut, Message
<1> HIDE DEF t
<1>2. ~degraded /\ (RawAfterRewrite(d) => RawAfterRewrite(d)')
  BY <1>1 DEF RawAfterRewrite, FlagsRise
<1>3. AllDecodable(d) /\ SameDictionaries(d)
  BY <1>2 DEF DictAt
<1>4. Rewritten(d)' <=> Rewritten(d) \/ m.rsv1
  BY <1>1 DEF Rewritten, TookCompressed
<1>5. Rewritten(d)' \/ recv'[d].dict = sendDict'[d]
  BY <1>1, <1>3, <1>4 DEF SameDictionaries
<1>6. Inspected(d)' => codec'[d].deflate = recv'[d].dict
  BY <1>1, <1>3 DEF Inspected, FlagsRise, SameDictionaries
<1> QED BY <1>1, <1>3, <1>5, <1>6 DEF SameDictionaries, AllDecodable

LEMMA DictFrame ==
  ASSUME TypeOK, NEW d \in Dir, OnceAt(d), DictAt(d), scenario' = scenario,
         degraded => degraded', NEW m, NEW n, FrameRead(d, m, n)
  PROVE  DictAt(d)'
<1>1. /\ m \in Message /\ Effect(d, m, n) /\ FlagsRise(d)
      /\ pc[d] # "done" /\ Complete(d) = m.id - 1
      /\ sendDict'[d] = IF n = m.frames /\ m.rsv1
                          THEN Observed(d, sendDict[d], TextOf(m, "sent")) ELSE sendDict[d]
  BY DEF FrameRead, Effect
<1>2. CASE Stopped(d)
  <2>1. /\ RawAfterRewrite(d)' <=> RawAfterRewrite(d)
        /\ AllDecodable(d)' <=> AllDecodable(d)
    BY <1>2 DEF Stopped, RawAfterRewrite, AllDecodable
  <2> QED BY <1>2, <2>1 DEF DictAt, Stopped
<1>3. CASE GoesOn(d, m, n)
  <2>1. /\ RawAfterRewrite(d)' <=> RawAfterRewrite(d)
        /\ AllDecodable(d)' <=> AllDecodable(d)
        /\ Rewritten(d)' <=> Rewritten(d)
    BY <1>3 DEF GoesOn, RawAfterRewrite, AllDecodable, Rewritten, TookCompressed
  <2>2. /\ sendDict'[d] = sendDict[d] /\ recv'[d].dict = recv[d].dict
        /\ codec'[d].deflate = codec[d].deflate /\ (Inspected(d)' => Inspected(d))
    BY <1>1, <1>3 DEF GoesOn, Inspected, FlagsRise
  <2> QED BY <1>1, <2>1, <2>2 DEF DictAt, SameDictionaries
<1>4. CASE Ended(d, m, n) /\ (SentRaw(d, m) \/ SentAnew(d, m) \/ TakenOut(d, m))
  <2>1. sendDict'[d] = IF m.rsv1 THEN Observed(d, sendDict[d], TextOf(m, "sent"))
                       ELSE sendDict[d]
    BY <1>1, <1>4 DEF Ended
  <2> SUFFICES ASSUME ~degraded', ~RawAfterRewrite(d)'
               PROVE  AllDecodable(d)' /\ SameDictionaries(d)'
    BY DEF DictAt
  <2> QED BY <1>1, <1>4, <2>1, RawDict, AnewDict, TakenDict
<1> QED BY <1>1, <1>2, <1>3, <1>4 DEF Effect

LEMMA DictNext ==
  TypeOK /\ InspectorInv /\ OnceInv /\ DictInv /\ [Next]_vars => DictInv'
<1> SUFFICES ASSUME TypeOK, InspectorInv, OnceInv, DictInv, [Next]_vars, NEW e \in Dir
             PROVE  DictAt(e)'
  BY DEF DictInv
<1>1. DictAt(e) /\ OnceAt(e) /\ scenario' = scenario /\ (degraded => degraded')
  BY StepSeen DEF DictInv, OnceInv
<1>2. CASE Still(e)
  <2>1. /\ RawAfterRewrite(e)' <=> RawAfterRewrite(e)
        /\ AllDecodable(e)' <=> AllDecodable(e)
        /\ SameDictionaries(e)' <=> SameDictionaries(e)
    BY <1>1, <1>2 DEF Still, RawAfterRewrite, AllDecodable, SameDictionaries, Rewritten,
                      TookCompressed, Inspected
  <2> QED BY <1>1, <1>2, <2>1 DEF Still, DictAt
<1>3. CASE \E m, n : FrameRead(e, m, n)
  BY <1>1, <1>3, DictFrame
<1> QED BY <1>2, <1>3, StepSeen

LEMMA DictCorrect == Spec => []DictInv
<1>1. Init => DictInv
  BY DEF Init, DictInv, DictAt, AllDecodable, SameDictionaries
<1> QED BY <1>1, DictNext, TypeCorrect, InspectorCorrect, OnceCorrect, PTL DEF Spec

(* Until the session degrades, a direction in which nothing compressed     *)
(* went out byte-equal after a rewritten or consumed message is decodable  *)
(* at its target, whatever was buffered, capped, replaced or blocked:      *)
(* Observe, Deflate and forceReencode keep the deflate dictionary equal to *)
(* the target's.                                                           *)
THEOREM DecodableWithoutRawAfterRewrite == Spec => []DecodableUnlessRawAfterRewrite
<1>1. DictInv => DecodableUnlessRawAfterRewrite
  BY DEF DictInv, DictAt, DecodableUnlessRawAfterRewrite
<1> QED BY <1>1, DictCorrect, PTL

=============================================================================
