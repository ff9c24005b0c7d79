--------------------------- MODULE Upstream_proofs ---------------------------
(***************************************************************************)
(* Proofs about the connection to the upstream.  UpstreamWriter: whatever  *)
(* its writers do between two locks, each one's messages arrive whole, in  *)
(* order and once, until the stream breaks; and it breaks only when two of *)
(* them overlap.  Relay: over every way in, what a peer receives is what   *)
(* the other sent, without a gap, whatever buffers it went through.        *)
(***************************************************************************)
EXTENDS UpstreamWriter, Relay, SequenceTheorems, TLAPS

-----------------------------------------------------------------------------
(* The inductive invariant.                                                *)

(* Chunk d continues the message of which c is a chunk.                    *)
Follows(c, d) ==
  IF c.part = "header"
    THEN d.frame = c.frame /\ d.part = "payload"
    ELSE /\ c.frame.k < c.frame.n
         /\ d.frame = FrameOf(c.frame.w, c.frame.job, c.frame.k + 1, c.frame.n)
         /\ d.part # "payload"

IsLast(c) == c.part # "header" /\ c.frame.k = c.frame.n

(* q is what is left of message j of w.                                    *)
Rest(q, w, j) ==
  \A i \in 1 .. Len(q) :
     /\ q[i].frame.w = w /\ q[i].frame.job = j
     /\ q[i].frame.k \in 1 .. q[i].frame.n
     /\ w # "pump" => q[i].frame.n = 1
     /\ i = Len(q) => IsLast(q[i])
     /\ i # Len(q) => Follows(q[i], q[i+1])

(* While the stream is whole and the upstream there, it has taken all      *)
(* messages but the ones that are being written.                           *)
ArrivedButLast(w) ==
  peer.ok /\ ~gone =>
    Len(peer.arrived[w]) + (IF queue[w] = << >> THEN 0 ELSE 1) = job[w]

(* And its parser is in the middle of a frame, and of a message, if and    *)
(* only if a writer is.                                                    *)
FirstIs(w, part) == queue[w] # << >> /\ Head(queue[w]).part = part
InFrame(w) == FirstIs(w, "payload") /\ peer.header = <<Head(queue[w]).frame>>
InMessage(w) ==
  /\ queue[w] # << >> /\ Head(queue[w]).frame.k = peer.k + 1 /\ peer.k > 0
  /\ peer.w = w /\ peer.job = job[w]

ParserFollows ==
  peer.ok /\ ~gone =>
    /\ peer.header # << >> => \E w \in Writers : InFrame(w)
    /\ peer.w # None => InMessage(peer.w)
    /\ \A w \in Writers :
         /\ FirstIs(w, "payload") => InFrame(w)
         /\ queue[w] # << >> /\ Head(queue[w]).frame.k > 1 => InMessage(w)

Peer == [header : Seq(WireFrame), w : Writers \cup {None}, job : Nat, k : Nat,
         ok : BOOLEAN, arrived : [Writers -> Seq(Nat)]]

(* Who holds the inner lock has something to write.                        *)
HolderWrites == \A w \in Writers : at[w] = "inner" => queue[w] # << >>

MessagesFit == \A w \in Writers : Rest(queue[w], w, job[w])

StreamInv == /\ WriterTypeOK /\ peer \in Peer
             /\ MessagesFit
             /\ \A w \in Writers : ArrivedButLast(w)
             /\ ParserFollows
             /\ HolderWrites

-----------------------------------------------------------------------------
(* What a writer emits is a message, from its first frame to its last.     *)

Message(q, w, j) == /\ q \in Seq(Chunk) /\ q # << >> /\ Rest(q, w, j)
                    /\ Head(q).frame.k = 1 /\ Head(q).part # "payload"

LEMMA ForwardFits ==
  ASSUME NEW j \in Nat, NEW n \in Nat \ {0}
  PROVE  Message(ForwardFrames("pump", j, n), "pump", j)
<1> DEFINE q == ForwardFrames("pump", j, n)
<1>1. /\ q \in Seq(Chunk) /\ Len(q) = n
      /\ \A i \in 1 .. n : q[i] = [frame |-> FrameOf("pump", j, i, n), part |-> "whole"]
  BY DEF ForwardFrames, Raw, FrameOf, Chunk, WireFrame, Writers, Part
<1>2. Rest(q, "pump", j)
  <2> HIDE DEF q
  <2>1. ASSUME NEW i \in 1 .. n
        PROVE  /\ q[i].frame = FrameOf("pump", j, i, n) /\ q[i].part = "whole"
               /\ i # n => i + 1 \in 1 .. n
    BY <1>1
  <2> QED BY <1>1, <2>1 DEF Rest, Follows, IsLast, FrameOf
<1>3. Head(q) = q[1] /\ q # << >>
  <2> HIDE DEF q
  <2> QED BY <1>1
<1> QED
  <2> HIDE DEF q
  <2>1. q[1].frame.k = 1 /\ q[1].part = "whole"
    BY <1>1 DEF FrameOf
  <2>2. Message(q, "pump", j)
    BY <1>1, <1>2, <1>3, <2>1 DEF Message
  <2> QED BY <2>2 DEF q

LEMMA WriteDataFits ==
  ASSUME NEW j \in Nat, NEW n \in Nat \ {0}
  PROVE  Message(WriteDataFrames("pump", j, n), "pump", j)
<1> DEFINE q == WriteDataFrames("pump", j, n)
<1>1. \A i \in 1 .. 2 * n : (i + 1) \div 2 \in 1 .. n
  OBVIOUS
<1>2. \A i \in 1 .. 2 * n :
        q[i] = [frame |-> FrameOf("pump", j, (i + 1) \div 2, n),
                part |-> IF i % 2 = 1 THEN "header" ELSE "payload"]
  BY DEF WriteDataFrames, Encoded
<1>3. \A i \in 1 .. 2 * n :
        /\ q[i].frame = FrameOf("pump", j, (i + 1) \div 2, n)
        /\ q[i].part = IF i % 2 = 1 THEN "header" ELSE "payload"
  <2> TAKE i \in 1 .. 2 * n
  <2> HIDE DEF q
  <2> DEFINE f == FrameOf("pump", j, (i + 1) \div 2, n)
             p == IF i % 2 = 1 THEN "header" ELSE "payload"
  <2>1. q[i] = [frame |-> f, part |-> p]
    BY <1>2
  <2> HIDE DEF f, p
  <2>2. q[i].frame = f /\ q[i].part = p
    BY <2>1
  <2> QED BY <2>2 DEF f, p
<1>4. q \in Seq(Chunk) /\ Len(q) = 2 * n
  <2>1. ASSUME NEW i \in 1 .. 2 * n PROVE q[i] \in Chunk
    <3> HIDE DEF q
    <3>1. PICK k \in 1 .. n : k = (i + 1) \div 2
      BY <1>1
    <3>2. PICK p \in Part : p = IF i % 2 = 1 THEN "header" ELSE "payload"
      BY DEF Part
    <3>3. q[i] = [frame |-> FrameOf("pump", j, k, n), part |-> p]
      BY <1>2, <3>1, <3>2
    <3>4. FrameOf("pump", j, k, n) \in WireFrame
      BY DEF FrameOf, WireFrame, Writers
    <3> QED BY <3>3, <3>4 DEF Chunk
  <2> QED BY <2>1 DEF WriteDataFrames
<1> HIDE DEF q
<1>5. Rest(q, "pump", j)
  <2> SUFFICES ASSUME NEW i \in 1 .. 2 * n
               PROVE  /\ q[i].frame.w = "pump" /\ q[i].frame.job = j
                      /\ q[i].frame.k \in 1 .. q[i].frame.n
                      /\ i = 2 * n => IsLast(q[i])
                      /\ i # 2 * n => Follows(q[i], q[i+1])
    BY <1>4 DEF Rest
  <2>1. /\ q[i].frame = FrameOf("pump", j, (i + 1) \div 2, n)
        /\ q[i].part = IF i % 2 = 1 THEN "header" ELSE "payload"
    BY <1>3
  <2>2. /\ q[i].frame.w = "pump" /\ q[i].frame.job = j
        /\ q[i].frame.k = (i + 1) \div 2 /\ q[i].frame.n = n
    BY <2>1 DEF FrameOf
  <2>3. i = 2 * n => i % 2 = 0 /\ (i + 1) \div 2 = n
    OBVIOUS
  <2>4. ASSUME i # 2 * n PROVE Follows(q[i], q[i+1])
    <3>1. /\ q[i+1].frame = FrameOf("pump", j, (i + 2) \div 2, n)
          /\ q[i+1].part = IF (i + 1) % 2 = 1 THEN "header" ELSE "payload"
      <4>1. i + 1 \in 1 .. 2 * n /\ (i + 1) + 1 = i + 2
        BY <2>4
      <4> QED BY <4>1, <1>3
    <3>2. CASE i % 2 = 1
      <4>1. (i + 1) % 2 = 0 /\ (i + 2) \div 2 = (i + 1) \div 2
        BY <3>2
      <4> QED BY <2>1, <3>1, <3>2, <4>1 DEF Follows
    <3>3. CASE i % 2 # 1
      <4>1. /\ (i + 1) % 2 = 1 /\ (i + 2) \div 2 = (i + 1) \div 2 + 1
            /\ (i + 1) \div 2 < n
        BY <3>3, <2>4
      <4> QED BY <2>1, <2>2, <3>1, <3>3, <4>1 DEF Follows
    <3> QED BY <3>2, <3>3
  <2> QED BY <1>1, <2>1, <2>2, <2>3, <2>4 DEF IsLast
<1>6. q # << >> /\ Head(q) = q[1]
  BY <1>4
<1>7. q[1].frame.k = 1 /\ q[1].part = "header"
  <2>1. 1 \in 1 .. 2 * n /\ (1 + 1) \div 2 = 1 /\ 1 % 2 = 1
    OBVIOUS
  <2>2. q[1].frame = FrameOf("pump", j, 1, n) /\ q[1].part = "header"
    BY ONLY <1>3, <2>1, Zenon
  <2> QED BY <2>2 DEF FrameOf
<1>8. Message(q, "pump", j)
  BY <1>4, <1>5, <1>6, <1>7 DEF Message
<1> QED BY <1>8 DEF q

LEMMA EncodedFits ==
  ASSUME NEW w \in Writers, NEW j \in Nat
  PROVE  Message(Encoded(FrameOf(w, j, 1, 1)), w, j)
<1> DEFINE f == FrameOf(w, j, 1, 1)
           q == <<[frame |-> f, part |-> "header"], [frame |-> f, part |-> "payload"]>>
<1>1. f \in WireFrame /\ f.w = w /\ f.job = j /\ f.k = 1 /\ f.n = 1
  BY DEF FrameOf, WireFrame
<1>2. q \in Seq(Chunk) /\ Len(q) = 2 /\ q # << >> /\ Head(q) = q[1]
  BY <1>1 DEF Chunk, Part
<1>3. Rest(q, w, j)
  BY <1>1, <1>2 DEF Rest, Follows, IsLast
<1>4. Message(q, w, j)
  BY <1>1, <1>2, <1>3 DEF Message
<1> QED BY <1>4 DEF Encoded

(* One Write takes the first chunk of a message and leaves a message's     *)
(* rest, or nothing when the chunk was the last.                           *)
Split(q, w, j) ==
  /\ Head(q) \in Chunk /\ Tail(q) \in Seq(Chunk)
  /\ Head(q).frame.w = w /\ Head(q).frame.job = j
  /\ Head(q).frame.k \in 1 .. Head(q).frame.n
  /\ w # "pump" => Head(q).frame.n = 1
  /\ Rest(Tail(q), w, j)
  /\ Tail(q) = << >> <=> IsLast(Head(q))
  /\ Tail(q) # << >> => Follows(Head(q), Head(Tail(q)))
  /\ Tail(q) # q

LEMMA TailFits ==
  ASSUME NEW w \in Writers, NEW j \in Nat, NEW q \in Seq(Chunk),
         q # << >>, Rest(q, w, j)
  PROVE  Split(q, w, j)
<1> DEFINE t == Tail(q)
<1>1. /\ t \in Seq(Chunk) /\ Len(t) = Len(q) - 1 /\ Len(q) \in Nat \ {0}
      /\ Head(q) = q[1] /\ q[1] \in Chunk
      /\ \A i \in 1 .. Len(t) : t[i] = q[i+1]
  OBVIOUS
<1>2. Rest(t, w, j)
  <2> SUFFICES ASSUME NEW i \in 1 .. Len(t)
               PROVE  /\ t[i].frame.w = w /\ t[i].frame.job = j
                      /\ t[i].frame.k \in 1 .. t[i].frame.n
                      /\ w # "pump" => t[i].frame.n = 1
                      /\ i = Len(t) => IsLast(t[i])
                      /\ i # Len(t) => Follows(t[i], t[i+1])
    BY DEF Rest
  <2>1. /\ i + 1 \in 1 .. Len(q) /\ t[i] = q[i+1]
        /\ i = Len(t) <=> i + 1 = Len(q)
        /\ i # Len(t) => t[i+1] = q[(i+1)+1]
    <3> HIDE DEF t
    <3> QED BY <1>1
  <2> HIDE DEF t
  <2> QED BY <2>1 DEF Rest
<1>3. 1 \in 1 .. Len(q) /\ (t = << >> <=> Len(q) = 1)
      /\ (t # << >> => Head(t) = q[1+1])
  <2>1. t = << >> <=> Len(t) = 0
    <3> HIDE DEF t
    <3> QED BY <1>1
  <2>2. t # << >> => Head(t) = t[1] /\ 1 \in 1 .. Len(t)
    <3> HIDE DEF t
    <3> QED BY <1>1
  <2> HIDE DEF t
  <2> QED BY <1>1, <2>1, <2>2
<1>4. /\ q[1].frame.w = w /\ q[1].frame.job = j
      /\ q[1].frame.k \in 1 .. q[1].frame.n
      /\ w # "pump" => q[1].frame.n = 1
      /\ 1 = Len(q) => IsLast(q[1])
      /\ 1 # Len(q) => Follows(q[1], q[1+1])
  BY <1>3 DEF Rest
<1>5. 1 # Len(q) => ~IsLast(q[1])
  <2>1. q[1].frame.k \in Nat /\ q[1].frame.n \in Nat
    BY <1>1 DEF Chunk, WireFrame
  <2> QED BY <1>4, <2>1 DEF Follows, IsLast
<1> HIDE DEF t
<1>6. t # q
  BY <1>1
<1> QED BY <1>1, <1>2, <1>3, <1>4, <1>5, <1>6 DEF Split, t

-----------------------------------------------------------------------------
(* What the parser makes of one Write.                                     *)

(* A Write that the parser has waited for.                                 *)
InPlace(p, c) ==
  \/ c.part = "whole" /\ p.header = << >>
  \/ c.part = "payload" /\ p.header # << >> /\ c.frame = p.header[1]

Expected(p, f) == \/ p.w = None /\ f.k = 1
                  \/ p.w = f.w /\ p.job = f.job /\ p.k + 1 = f.k

LEMMA FrameOutcome ==
  ASSUME NEW p \in Peer, p.ok, NEW f \in WireFrame, f.k <= f.n
  PROVE  LET r == FrameArrives(p, f)
         IN  /\ r \in Peer
             /\ r.ok => r.header = << >>
             /\ r.ok /\ f.w = "keepalive" =>
                  /\ r.w = p.w /\ r.job = p.job /\ r.k = p.k
                  /\ r.arrived = Arrived(p, f)
             /\ r.ok /\ f.w # "keepalive" =>
                  /\ Expected(p, f)
                  /\ f.k = f.n => r.w = None /\ r.arrived = Arrived(p, f)
                  /\ f.k # f.n => /\ r.w = f.w /\ r.job = f.job /\ r.k = f.k
                                  /\ r.arrived = p.arrived
             /\ ~r.ok => r.arrived = p.arrived /\ f.w # "keepalive" /\ ~Expected(p, f)
<1>1. /\ p.arrived \in [Writers -> Seq(Nat)] /\ f.w \in Writers /\ f.job \in Nat
      /\ f.k \in Nat /\ f.n \in Nat
  BY DEF Peer, WireFrame
<1>2. Arrived(p, f) \in [Writers -> Seq(Nat)]
  BY <1>1 DEF Arrived
<1>3. << >> \in Seq(WireFrame)
  OBVIOUS
<1> DEFINE q == [p EXCEPT !.header = << >>]
<1>q. /\ q \in Peer /\ q.header = << >> /\ q.w = p.w /\ q.job = p.job /\ q.k = p.k
      /\ q.ok /\ q.arrived = p.arrived
  BY <1>3 DEF Peer
<1>4. CASE f.w = "keepalive"
  <2>1. FrameArrives(p, f) = [q EXCEPT !.arrived = Arrived(p, f)]
    BY <1>4 DEF FrameArrives
  <2> HIDE DEF q
  <2> QED BY <1>2, <1>q, <1>4, <2>1 DEF Peer
<1>5. CASE f.w # "keepalive" /\ Expected(p, f) /\ f.k = f.n
  <2>1. FrameArrives(p, f) = [q EXCEPT !.w = None, !.job = 0, !.k = 0,
                                       !.arrived = Arrived(p, f)]
    BY <1>1, <1>5 DEF FrameArrives, Expected
  <2> HIDE DEF q
  <2>2. FrameArrives(p, f) = [header |-> << >>, w |-> None, job |-> 0, k |-> 0,
                              ok |-> TRUE, arrived |-> Arrived(p, f)]
    BY <1>q, <2>1 DEF Peer
  <2> QED BY <1>2, <1>3, <1>5, <2>2 DEF Peer
<1>6. CASE f.w # "keepalive" /\ Expected(p, f) /\ f.k # f.n
  <2>1. FrameArrives(p, f) = [q EXCEPT !.w = f.w, !.job = f.job, !.k = f.k]
    BY <1>1, <1>6 DEF FrameArrives, Expected
  <2> HIDE DEF q
  <2> QED BY <1>1, <1>q, <1>6, <2>1 DEF Peer
<1>7. CASE f.w # "keepalive" /\ ~Expected(p, f)
  <2>1. FrameArrives(p, f) = [p EXCEPT !.ok = FALSE]
    BY <1>7 DEF FrameArrives, Expected, Broken
  <2> QED BY <1>7, <2>1 DEF Peer
<1> QED BY <1>4, <1>5, <1>6, <1>7

LEMMA WriteOutcome ==
  ASSUME NEW p \in Peer, NEW c \in Chunk
  PROVE  /\ ~p.ok => Parsed(p, c) = p
         /\ p.ok /\ InPlace(p, c) => Parsed(p, c) = FrameArrives(p, c.frame)
         /\ p.ok /\ c.part = "header" /\ p.header = << >> =>
              Parsed(p, c) = [p EXCEPT !.header = <<c.frame>>]
         /\ p.ok /\ ~InPlace(p, c) /\ ~(c.part = "header" /\ p.header = << >>) =>
              Parsed(p, c) = [p EXCEPT !.ok = FALSE]
BY DEF Parsed, InPlace, Broken, Chunk, Part

-----------------------------------------------------------------------------
(* The first chunk of what a writer has left.                              *)

LEMMA FirstChunk ==
  ASSUME StreamInv, NEW w \in Writers, queue[w] # << >>
  PROVE  LET c == Head(queue[w])
             t == Tail(queue[w])
         IN  /\ c \in Chunk /\ c.frame \in WireFrame /\ c.part \in Part /\ t \in Seq(Chunk)
             /\ c.frame.w = w /\ c.frame.job = job[w]
             /\ c.frame.k \in 1 .. c.frame.n
             /\ w # "pump" => c.frame.n = 1
             /\ Rest(t, w, job[w])
             /\ t = << >> <=> IsLast(c)
             /\ t # << >> => Follows(c, Head(t))
             /\ t # queue[w]
<1>1. queue[w] \in Seq(Chunk) /\ job[w] \in Nat /\ Rest(queue[w], w, job[w])
  BY DEF StreamInv, WriterTypeOK, MessagesFit
<1>2. Split(queue[w], w, job[w])
  BY <1>1, TailFits
<1>3. Head(queue[w]).frame \in WireFrame /\ Head(queue[w]).part \in Part
  BY <1>2 DEF Split, Chunk
<1> QED BY <1>2, <1>3 DEF Split

(* What a Write leaves of the writer's queue, and of the others'.          *)
LEMMA WriteShortens ==
  ASSUME StreamInv, NEW w \in Writers, ConnWrite(w)
  PROVE  /\ queue[w] # << >> /\ ~gone /\ ~gone' /\ job' = job
         /\ queue' \in [Writers -> Seq(Chunk)]
         /\ queue'[w] = Tail(queue[w])
         /\ \A v \in Writers \ {w} : queue'[v] = queue[v]
         /\ peer' = Parsed(peer, Head(queue[w]))
<1>1. queue[w] # << >>
  BY DEF StreamInv, HolderWrites, ConnWrite
<1>2. queue \in [Writers -> Seq(Chunk)] /\ Tail(queue[w]) \in Seq(Chunk)
  BY <1>1, FirstChunk DEF StreamInv, WriterTypeOK
<1> QED BY <1>1, <1>2 DEF ConnWrite

(* In a stream that is whole, a chunk other than a header ends its frame:  *)
(* the message's last one delivers it.                                     *)
LEMMA PayloadArrives ==
  ASSUME StreamInv, NEW w \in Writers, ConnWrite(w), peer.ok, peer'.ok,
         Head(queue[w]).part # "header"
  PROVE  LET f == Head(queue[w]).frame
         IN  /\ \A v \in Writers \ {w} : ~FirstIs(v, "payload")
             /\ peer'.header = << >>
             /\ w = "keepalive" =>
                  /\ peer'.w = peer.w /\ peer'.job = peer.job /\ peer'.k = peer.k
                  /\ f.k = 1 /\ f.n = 1
             /\ w # "keepalive" =>
                  /\ Expected(peer, f)
                  /\ f.k = f.n => peer'.w = None
                  /\ f.k # f.n => peer'.w = w /\ peer'.job = job[w] /\ peer'.k = f.k
             /\ peer'.arrived = IF f.k = f.n THEN Arrived(peer, f) ELSE peer.arrived
<1> DEFINE c == Head(queue[w])
           f == c.frame
<1>1. /\ queue[w] # << >> /\ ~gone /\ peer' = Parsed(peer, c) /\ peer \in Peer
      /\ c \in Chunk /\ f \in WireFrame /\ f.w = w /\ f.job = job[w] /\ f.k \in 1 .. f.n
      /\ w # "pump" => f.n = 1
  BY WriteShortens, FirstChunk DEF StreamInv
<1>2. f.k \in Nat /\ f.n \in Nat /\ f.k <= f.n
  BY <1>1 DEF WireFrame
<1>3. InPlace(peer, c)
  <2> HIDE DEF c
  <2>1. ASSUME ~InPlace(peer, c) PROVE FALSE
    <3>1. peer' = [peer EXCEPT !.ok = FALSE]
      BY <1>1, <2>1, WriteOutcome DEF c
    <3> QED BY <1>1, <3>1 DEF Peer
  <2> QED BY <2>1
<1>4. peer' = FrameArrives(peer, f)
  BY <1>1, <1>3, WriteOutcome
<1>5. \A v \in Writers \ {w} : ~FirstIs(v, "payload")
  <2> SUFFICES ASSUME NEW v \in Writers \ {w}, FirstIs(v, "payload") PROVE FALSE
    OBVIOUS
  <2>1. InFrame(v)
    BY <1>1 DEF StreamInv, ParserFollows
  <2>2. Head(queue[v]).frame.w = v
    BY FirstChunk DEF FirstIs
  <2>3. peer.header = <<Head(queue[v]).frame>>
    BY <2>1 DEF InFrame
  <2>4. CASE c.part = "whole"
    BY <1>3, <2>3, <2>4 DEF InPlace
  <2>5. CASE c.part = "payload"
    <3>1. f = peer.header[1]
      BY <1>3, <2>5 DEF InPlace
    <3>2. f = Head(queue[v]).frame
      BY <2>3, <3>1
    <3> QED BY <1>1, <2>2, <3>2
  <2> QED BY <1>1, <2>4, <2>5 DEF Chunk, Part
<1>6. CASE w = "keepalive"
  BY <1>1, <1>2, <1>4, <1>5, <1>6, FrameOutcome
<1>7. CASE w # "keepalive"
  BY <1>1, <1>2, <1>4, <1>5, <1>7, FrameOutcome
<1> QED BY <1>6, <1>7

(* A header is taken between two frames, and its payload is still to come. *)
LEMMA HeaderArrives ==
  ASSUME StreamInv, NEW w \in Writers, ConnWrite(w), peer.ok, peer'.ok,
         Head(queue[w]).part = "header"
  PROVE  LET f == Head(queue[w]).frame
         IN  /\ peer.header = << >> /\ peer' = [peer EXCEPT !.header = <<f>>]
             /\ \A v \in Writers : ~FirstIs(v, "payload")
             /\ queue'[w] # << >> /\ Head(queue'[w]).part = "payload"
             /\ Head(queue'[w]).frame = f
<1> DEFINE c == Head(queue[w])
<1>1. /\ queue[w] # << >> /\ ~gone /\ peer' = Parsed(peer, c) /\ peer \in Peer
      /\ c \in Chunk /\ queue'[w] = Tail(queue[w])
      /\ Tail(queue[w]) # << >> => Follows(c, Head(Tail(queue[w])))
      /\ Tail(queue[w]) = << >> <=> IsLast(c)
  BY WriteShortens, FirstChunk DEF StreamInv
<1>2. peer.header = << >> /\ peer' = [peer EXCEPT !.header = <<c.frame>>]
  <2>1. ~InPlace(peer, c)
    BY DEF InPlace
  <2>2. ASSUME peer.header # << >> PROVE FALSE
    <3>1. peer' = [peer EXCEPT !.ok = FALSE]
      BY <1>1, <2>1, <2>2, WriteOutcome
    <3> QED BY <1>1, <3>1 DEF Peer
  <2> QED BY <1>1, <2>2, WriteOutcome
<1>3. \A v \in Writers : ~FirstIs(v, "payload")
  BY <1>1, <1>2 DEF StreamInv, ParserFollows, InFrame
<1>4. queue'[w] # << >> /\ Head(queue'[w]).part = "payload" /\ Head(queue'[w]).frame = c.frame
  BY <1>1 DEF IsLast, Follows
<1> QED BY <1>2, <1>3, <1>4

(* A Write that leaves the stream whole keeps the parser in step and adds  *)
(* a message exactly when it was its last.                                 *)
LEMMA HealthyWrite ==
  ASSUME StreamInv, NEW w \in Writers, ConnWrite(w), peer.ok, peer'.ok
  PROVE  /\ ParserFollows' /\ \A v \in Writers : ArrivedButLast(v)'
         /\ \/ peer'.arrived = peer.arrived
            \/ peer'.arrived = [peer.arrived EXCEPT ![w] = Append(@, Len(@) + 1)]
<1> DEFINE c == Head(queue[w])
           f == c.frame
           d == Head(queue'[w])
<1>1. /\ queue[w] # << >> /\ ~gone /\ ~gone' /\ job' = job
      /\ queue'[w] = << >> <=> IsLast(c)
      /\ queue'[w] # << >> => Follows(c, d)
      /\ f.w = w /\ f.job = job[w] /\ f.k \in Nat /\ f.n \in Nat /\ 1 <= f.k /\ f.k <= f.n
  <2>1. queue[w] # << >> /\ ~gone /\ ~gone' /\ job' = job /\ queue'[w] = Tail(queue[w])
    BY WriteShortens
  <2>2. /\ f \in WireFrame /\ f.k \in 1 .. f.n /\ f.w = w /\ f.job = job[w]
        /\ Tail(queue[w]) = << >> <=> IsLast(c)
        /\ Tail(queue[w]) # << >> => Follows(c, Head(Tail(queue[w])))
    BY <2>1, FirstChunk
  <2>3. f.k \in Nat /\ f.n \in Nat /\ 1 <= f.k /\ f.k <= f.n
    BY <2>2 DEF WireFrame
  <2> QED BY <2>1, <2>2, <2>3
<1>2. \A v \in Writers \ {w} : queue'[v] = queue[v]
  BY WriteShortens
<1>3. /\ peer.w # None => InMessage(peer.w)
      /\ \A v \in Writers : queue[v] # << >> /\ Head(queue[v]).frame.k > 1 => InMessage(v)
  BY <1>1 DEF StreamInv, ParserFollows
<1>4. peer \in Peer /\ peer.w \in Writers \cup {None} /\ w # None
  BY DEF StreamInv, Peer, Writers, None
<1>5. \A v \in Writers :
        /\ Len(peer.arrived[v]) + (IF queue[v] = << >> THEN 0 ELSE 1) = job[v]
        /\ peer.arrived[v] \in Seq(Nat) /\ job[v] \in Nat
  BY <1>1 DEF StreamInv, ArrivedButLast, Peer, WriterTypeOK
<1>6. CASE c.part = "header"
  <2>1. /\ peer' = [peer EXCEPT !.header = <<f>>]
        /\ \A v \in Writers : ~FirstIs(v, "payload")
        /\ queue'[w] # << >> /\ d.part = "payload" /\ d.frame = f
    BY <1>6, HeaderArrives
  <2>2. /\ peer'.header = <<f>> /\ peer'.w = peer.w /\ peer'.job = peer.job
        /\ peer'.k = peer.k /\ peer'.arrived = peer.arrived
    BY <1>4, <2>1 DEF Peer
  <2>3. InFrame(w)'
    BY <2>1, <2>2 DEF InFrame, FirstIs
  <2>4. \A v \in Writers : FirstIs(v, "payload")' => InFrame(v)'
    BY <1>2, <2>1, <2>3 DEF FirstIs
  <2>5. \A v \in Writers : InMessage(v) => InMessage(v)'
    <3> HIDE DEF d
    <3>1. InMessage(w) => InMessage(w)'
      BY <1>1, <2>1, <2>2 DEF InMessage, d
    <3>2. \A v \in Writers \ {w} : InMessage(v) => InMessage(v)'
      BY <1>1, <1>2, <2>2 DEF InMessage
    <3> QED BY <3>1, <3>2
  <2>6. \A v \in Writers : queue'[v] # << >> /\ Head(queue'[v]).frame.k > 1 => InMessage(v)'
    BY <1>1, <1>2, <1>3, <2>1, <2>5
  <2>7. ParserFollows'
    <3>1. peer'.w # None => InMessage(peer.w)'
      BY <1>3, <1>4, <2>2, <2>5
    <3> QED BY <2>2, <2>3, <2>4, <2>6, <3>1 DEF ParserFollows, InMessage
  <2>8. \A v \in Writers : ArrivedButLast(v)'
    <3>1. queue[w] # << >> /\ queue'[w] # << >>
      BY <1>1, <2>1
    <3>2. \A v \in Writers : queue'[v] = << >> <=> queue[v] = << >>
      BY <1>2, <3>1
    <3>3. peer'.arrived = peer.arrived /\ job' = job
      BY <1>1, <2>2
    <3> QED BY <1>5, <3>2, <3>3 DEF ArrivedButLast
  <2> QED BY <2>2, <2>7, <2>8
<1>7. CASE c.part # "header"
  <2>1. /\ \A v \in Writers \ {w} : ~FirstIs(v, "payload")
        /\ peer'.header = << >>
        /\ w = "keepalive" =>
             /\ peer'.w = peer.w /\ peer'.job = peer.job /\ peer'.k = peer.k
             /\ f.k = 1 /\ f.n = 1
        /\ w # "keepalive" =>
             /\ Expected(peer, f)
             /\ f.k = f.n => peer'.w = None
             /\ f.k # f.n => peer'.w = w /\ peer'.job = job[w] /\ peer'.k = f.k
        /\ peer'.arrived = IF f.k = f.n THEN Arrived(peer, f) ELSE peer.arrived
    BY <1>7, PayloadArrives
  <2>2. queue'[w] = << >> <=> f.k = f.n
    BY <1>1, <1>7 DEF IsLast
  <2>3. queue'[w] # << >> => d.part # "payload" /\ d.frame.k = f.k + 1
    BY <1>1, <1>7 DEF Follows, FrameOf
  <2>4. \A v \in Writers : ~FirstIs(v, "payload")'
    BY <1>2, <2>1, <2>3 DEF FirstIs
  <2>5. ASSUME NEW v \in Writers \ {w}, InMessage(v)
        PROVE  w = "keepalive" /\ InMessage(v)'
    <3>1. peer.w = v /\ v # None
      BY <2>5 DEF InMessage, Writers, None
    <3>2. w = "keepalive"
      BY <1>1, <2>1, <3>1 DEF Expected
    <3> QED BY <1>1, <1>2, <2>1, <2>5, <3>2 DEF InMessage
  <2>6. peer'.w # None => InMessage(peer.w)'
    <3>1. CASE w = "keepalive"
      <4>1. ~InMessage(w)
        BY <1>1, <1>4, <2>1, <3>1 DEF InMessage, Peer
      <4> QED BY <1>3, <1>4, <2>1, <2>5, <3>1, <4>1
    <3>2. CASE w # "keepalive"
      <4>1. peer'.w # None => /\ peer'.w = w /\ peer'.job = job[w] /\ peer'.k = f.k
                              /\ queue'[w] # << >>
        BY <2>1, <2>2, <3>2
      <4> QED BY <1>1, <2>3, <4>1 DEF InMessage
    <3> QED BY <3>1, <3>2
  <2>7. \A v \in Writers : queue'[v] # << >> /\ Head(queue'[v]).frame.k > 1 => InMessage(v)'
    <3>1. ASSUME NEW v \in Writers \ {w}, queue'[v] # << >>, Head(queue'[v]).frame.k > 1
          PROVE  InMessage(v)'
      BY <1>2, <1>3, <2>5, <3>1
    <3>2. ASSUME queue'[w] # << >> PROVE InMessage(w)'
      <4>1. f.k # f.n /\ w # "keepalive"
        BY <2>1, <2>2, <3>2
      <4>2. peer'.w = w
        BY <2>1, <4>1
      <4> QED BY <1>4, <2>6, <4>2
    <3> QED BY <3>1, <3>2
  <2>8. ParserFollows'
    BY <2>1, <2>4, <2>6, <2>7 DEF ParserFollows
  <2>9. CASE f.k = f.n
    <3>1. peer'.arrived = [peer.arrived EXCEPT ![w] = Append(@, job[w])]
      BY <1>1, <2>1, <2>9 DEF Arrived
    <3>2. Len(peer.arrived[w]) + 1 = job[w]
      BY <1>1, <1>5
    <3>3. peer'.arrived = [peer.arrived EXCEPT ![w] = Append(@, Len(@) + 1)]
      BY <3>1, <3>2
    <3>4. \A v \in Writers : ArrivedButLast(v)'
      <4>1. peer.arrived \in [Writers -> Seq(Nat)]
        BY <1>4 DEF Peer
      <4>2. Len(peer'.arrived[w]) = Len(peer.arrived[w]) + 1
        BY <1>5, <3>1, <4>1
      <4>3. \A v \in Writers \ {w} : peer'.arrived[v] = peer.arrived[v]
        BY <3>1, <4>1
      <4>4. ArrivedButLast(w)'
        <5>1. queue'[w] = << >>
          BY <2>2, <2>9
        <5>2. job'[w] = Len(peer'.arrived[w]) /\ job'[w] \in Nat
          BY <1>1, <1>5, <3>2, <4>2
        <5> QED BY <5>1, <5>2 DEF ArrivedButLast
      <4>5. \A v \in Writers \ {w} : ArrivedButLast(v)'
        BY <1>1, <1>2, <1>5, <4>3 DEF ArrivedButLast
      <4> QED BY <4>4, <4>5
    <3> QED BY <2>8, <3>3, <3>4
  <2>10. CASE f.k # f.n
    <3>1. peer'.arrived = peer.arrived
      BY <2>1, <2>10
    <3>2. \A v \in Writers : ArrivedButLast(v)'
      BY <1>1, <1>2, <1>5, <2>2, <2>10, <3>1 DEF ArrivedButLast
    <3> QED BY <2>8, <3>1, <3>2
  <2> QED BY <2>9, <2>10
<1> QED BY <1>6, <1>7

-----------------------------------------------------------------------------
(* Every step keeps the invariant.                                         *)

LEMMA WriterTypes ==
  ASSUME StreamInv, NEW w \in Writers
  PROVE  /\ queue \in [Writers -> Seq(Chunk)] /\ job \in [Writers -> Nat]
         /\ at \in [Writers -> {"idle", "outer", "inner"}]
         /\ outer \in Writers \cup {None} /\ inner \in Writers \cup {None}
         /\ at[w] = "inner" <=> inner = w
         /\ w # None
BY DEF StreamInv, WriterTypeOK, Writers, None

LEMMA StreamInit == WriterInit => StreamInv
<1> SUFFICES ASSUME WriterInit PROVE StreamInv
  OBVIOUS
<1> USE DEF WriterInit
<1>1. peer \in Peer
  BY DEF Peer, Writers, None
<1>2. WriterTypeOK
  <2>1. /\ queue \in [Writers -> Seq(Chunk)] /\ job \in [Writers -> Nat]
        /\ at \in [Writers -> {"idle", "outer", "inner"}] /\ unread \in 0 .. Capacity
    BY WriterAssumption
  <2>2. \A w \in Writers : at[w] = "inner" <=> inner = w
    BY DEF Writers, None
  <2>3. /\ peer.header \in Seq(WireFrame) /\ peer.w \in Writers \cup {None}
        /\ peer.ok \in BOOLEAN /\ peer.arrived \in [Writers -> Seq(Nat)]
    <3> HIDE DEF WriterInit
    <3> QED BY <1>1 DEF Peer
  <2> QED BY <2>1, <2>2, <2>3 DEF WriterTypeOK
<1>3. MessagesFit
  BY DEF MessagesFit, Rest
<1>4. \A w \in Writers : ArrivedButLast(w)
  BY DEF ArrivedButLast
<1>5. ParserFollows /\ HolderWrites
  BY DEF ParserFollows, HolderWrites, FirstIs
<1> QED BY <1>1, <1>2, <1>3, <1>4, <1>5 DEF StreamInv

LEMMA BeginKeeps ==
  ASSUME StreamInv, NEW w \in Writers, NEW q, Message(q, w, job[w] + 1), Begin(w, q)
  PROVE  StreamInv'
<1>1. /\ queue[w] = << >> /\ job' = [job EXCEPT ![w] = @ + 1]
      /\ queue' = [queue EXCEPT ![w] = q]
      /\ UNCHANGED <<crew, at, outer, inner, stopped, ended, gone, unread, peer>>
  BY DEF Begin, lockVars, ioVars
<1>2. /\ q \in Seq(Chunk) /\ q # << >> /\ Rest(q, w, job[w] + 1)
      /\ Head(q).frame.k = 1 /\ Head(q).part # "payload"
  BY DEF Message
<1>3. /\ queue' \in [Writers -> Seq(Chunk)] /\ job' \in [Writers -> Nat]
      /\ queue'[w] = q /\ job'[w] = job[w] + 1
      /\ \A v \in Writers \ {w} : queue'[v] = queue[v] /\ job'[v] = job[v]
  BY <1>1, <1>2, WriterTypes
<1>4. WriterTypeOK' /\ (peer \in Peer)'
  BY <1>1, <1>3 DEF StreamInv, WriterTypeOK
<1>5. MessagesFit'
  BY <1>2, <1>3 DEF StreamInv, MessagesFit
<1>6. \A v \in Writers : ArrivedButLast(v)'
  <2>1. ArrivedButLast(w)'
    <3>1. peer.ok /\ ~gone => Len(peer.arrived[w]) + 0 = job[w]
      BY <1>1 DEF StreamInv, ArrivedButLast
    <3>2. Len(peer.arrived[w]) \in Nat /\ job[w] \in Nat
      BY WriterTypes DEF StreamInv, Peer
    <3> QED BY <1>1, <1>2, <1>3, <3>1, <3>2 DEF ArrivedButLast
  <2>2. \A v \in Writers \ {w} : ArrivedButLast(v)'
    BY <1>1, <1>3 DEF StreamInv, ArrivedButLast
  <2> QED BY <2>1, <2>2
<1>7. ParserFollows'
  <2> SUFFICES ASSUME peer.ok, ~gone PROVE ParserFollows'
    BY <1>1 DEF ParserFollows
  <2>0. /\ peer.header # << >> => \E v \in Writers : InFrame(v)
        /\ peer.w # None => InMessage(peer.w)
        /\ \A v \in Writers :
             /\ FirstIs(v, "payload") => InFrame(v)
             /\ queue[v] # << >> /\ Head(queue[v]).frame.k > 1 => InMessage(v)
    BY DEF StreamInv, ParserFollows
  <2>1. ASSUME NEW v \in Writers \ {w}
        PROVE  /\ FirstIs(v, "payload")' <=> FirstIs(v, "payload")
               /\ InFrame(v)' <=> InFrame(v)
               /\ InMessage(v)' <=> InMessage(v)
    <3>1. queue'[v] = queue[v] /\ job'[v] = job[v] /\ peer' = peer
      BY <1>1, <1>3
    <3> QED BY <3>1 DEF FirstIs, InFrame, InMessage
  <2>2. ~InFrame(w) /\ ~InMessage(w) /\ ~FirstIs(w, "payload")'
    BY <1>1, <1>2, <1>3 DEF InFrame, FirstIs, InMessage
  <2>3. peer.w # None => peer.w \in Writers \ {w}
    BY <2>0, <2>2 DEF StreamInv, Peer
  <2>4. peer'.header # << >> => \E v \in Writers : InFrame(v)'
    BY <1>1, <2>0, <2>1, <2>2
  <2>5. peer'.w # None => InMessage(peer.w)'
    <3>1. ASSUME NEW v \in Writers \ {w}, peer.w = v, InMessage(v) PROVE InMessage(peer.w)'
      BY <1>1, <2>1, <3>1 DEF InMessage
    <3> QED BY <1>1, <2>0, <2>3, <3>1
  <2>6. ASSUME NEW v \in Writers
        PROVE  /\ FirstIs(v, "payload")' => InFrame(v)'
               /\ queue'[v] # << >> /\ Head(queue'[v]).frame.k > 1 => InMessage(v)'
    <3>1. CASE v = w
      BY <1>2, <1>3, <2>2, <3>1
    <3>2. CASE v # w
      BY <1>3, <2>0, <2>1, <3>2
    <3> QED BY <3>1, <3>2
  <2> QED BY <1>1, <2>4, <2>5, <2>6 DEF ParserFollows
<1>8. HolderWrites'
  BY <1>1, <1>2, <1>3 DEF StreamInv, HolderWrites
<1> QED BY <1>4, <1>5, <1>6, <1>7, <1>8 DEF StreamInv

(* Locks, time and the environment leave what has been and is to be        *)
(* written alone.                                                          *)
LEMMA LocksKeep ==
  ASSUME StreamInv, UNCHANGED <<queue, job, peer>>,
         gone => gone', WriterTypeOK', HolderWrites'
  PROVE  StreamInv'
<1>1. (peer \in Peer)' /\ MessagesFit' /\ \A v \in Writers : ArrivedButLast(v)'
  BY DEF StreamInv, MessagesFit, ArrivedButLast
<1>2. ParserFollows'
  BY DEF StreamInv, ParserFollows, FirstIs, InFrame, InMessage
<1> QED BY <1>1, <1>2 DEF StreamInv

LEMMA LockKeeps ==
  ASSUME StreamInv, NEW w \in Writers, Lock(w)
  PROVE  StreamInv'
<1>1. CASE LockOuter(w)
  <2>1. /\ at[w] = "idle" /\ at' = [at EXCEPT ![w] = "outer"] /\ outer' = w
        /\ UNCHANGED <<crew, queue, job, inner, stopped, ended, gone, unread, peer>>
    BY <1>1 DEF LockOuter, ioVars
  <2>2. /\ at' \in [Writers -> {"idle", "outer", "inner"}]
        /\ \A v \in Writers : at'[v] = "inner" <=> at[v] = "inner"
    BY <2>1, WriterTypes
  <2>3. WriterTypeOK' /\ HolderWrites'
    BY <2>1, <2>2 DEF StreamInv, WriterTypeOK, HolderWrites
  <2> QED BY <2>1, <2>3, LocksKeep
<1>2. CASE LockInner(w)
  <2>1. /\ queue[w] # << >> /\ inner = None
        /\ at' = [at EXCEPT ![w] = "inner"] /\ inner' = w
        /\ UNCHANGED <<crew, queue, job, outer, stopped, ended, gone, unread, peer>>
    BY <1>2 DEF LockInner, ioVars
  <2>2. /\ at' \in [Writers -> {"idle", "outer", "inner"}]
        /\ \A v \in Writers : at'[v] = "inner" <=> v = w
    <3>1. \A v \in Writers : at[v] # "inner"
      BY <2>1, WriterTypes
    <3> QED BY <2>1, <3>1, WriterTypes
  <2>3. WriterTypeOK' /\ HolderWrites'
    BY <2>1, <2>2 DEF StreamInv, WriterTypeOK, HolderWrites
  <2> QED BY <2>1, <2>3, LocksKeep
<1> QED BY <1>1, <1>2 DEF Lock

(* What the unlocking at the end of a Write leaves.                        *)
LEMMA UnlockFrees ==
  ASSUME StreamInv, NEW w \in Writers, at[w] = "inner", Unlock(w)
  PROVE  /\ at' \in [Writers -> {"idle", "outer", "inner"}]
         /\ outer' \in Writers \cup {None} /\ inner' = None
         /\ \A v \in Writers : at'[v] # "inner"
<1>1. \A v \in Writers : at[v] = "inner" <=> v = w
  BY WriterTypes
<1> QED BY <1>1, WriterTypes DEF Unlock

LEMMA ParsedType ==
  ASSUME StreamInv, NEW w \in Writers, ConnWrite(w)
  PROVE  /\ peer' \in Peer
         /\ ~peer.ok => peer' = peer
         /\ ~peer'.ok => peer'.arrived = peer.arrived
<1> DEFINE c == Head(queue[w])
<1>1. /\ c \in Chunk /\ c.frame \in WireFrame /\ c.frame.k \in 1 .. c.frame.n
      /\ peer \in Peer /\ peer' = Parsed(peer, c)
  BY WriteShortens, FirstChunk DEF StreamInv
<1> HIDE DEF c
<1>2. c.frame.k <= c.frame.n
  BY <1>1 DEF WireFrame
<1>3. CASE ~peer.ok
  BY <1>1, <1>3, WriteOutcome
<1>4. CASE peer.ok /\ InPlace(peer, c)
  BY <1>1, <1>2, <1>4, WriteOutcome, FrameOutcome
<1>5. CASE peer.ok /\ c.part = "header" /\ peer.header = << >>
  <2>1. peer' = [peer EXCEPT !.header = <<c.frame>>]
    BY <1>1, <1>5, WriteOutcome
  <2>2. <<c.frame>> \in Seq(WireFrame)
    BY <1>1
  <2> QED BY <1>1, <1>5, <2>1, <2>2 DEF Peer
<1>6. CASE peer.ok /\ ~InPlace(peer, c) /\ ~(c.part = "header" /\ peer.header = << >>)
  <2>1. peer' = [peer EXCEPT !.ok = FALSE]
    BY <1>1, <1>6, WriteOutcome
  <2> QED BY <1>1, <1>6, <2>1 DEF Peer
<1> QED BY <1>3, <1>4, <1>5, <1>6

LEMMA ConnWriteKeeps ==
  ASSUME StreamInv, NEW w \in Writers, ConnWrite(w)
  PROVE  StreamInv'
<1>1. /\ queue[w] # << >> /\ ~gone /\ job' = job
      /\ queue' \in [Writers -> Seq(Chunk)]
      /\ queue'[w] = Tail(queue[w])
      /\ \A v \in Writers \ {w} : queue'[v] = queue[v]
  BY WriteShortens
<1>2. /\ at' \in [Writers -> {"idle", "outer", "inner"}]
      /\ outer' \in Writers \cup {None} /\ inner' = None
      /\ \A v \in Writers : at'[v] # "inner"
  BY UnlockFrees DEF ConnWrite
<1>3. peer' \in Peer
  BY ParsedType
<1>4. WriterTypeOK' /\ (peer \in Peer)'
  <2>1. UNCHANGED <<crew, stopped, ended, gone>> /\ unread' \in 0 .. Capacity
    BY WriterAssumption DEF ConnWrite, StreamInv, WriterTypeOK
  <2>2. \A v \in Writers : None # v
    BY DEF Writers, None
  <2>3. /\ peer'.header \in Seq(WireFrame) /\ peer'.w \in Writers \cup {None}
        /\ peer'.ok \in BOOLEAN /\ peer'.arrived \in [Writers -> Seq(Nat)]
    BY <1>3 DEF Peer
  <2>4. WriterTypeOK
    BY DEF StreamInv
  <2> QED BY <1>1, <1>2, <1>3, <2>1, <2>2, <2>3, <2>4 DEF WriterTypeOK
<1>5. MessagesFit'
  <2>1. Rest(Tail(queue[w]), w, job[w])
    BY <1>1, FirstChunk
  <2> QED BY <1>1, <2>1 DEF StreamInv, MessagesFit
<1>6. ParserFollows' /\ \A v \in Writers : ArrivedButLast(v)'
  <2>1. CASE peer.ok /\ peer'.ok
    BY <2>1, HealthyWrite
  <2>2. CASE ~peer'.ok
    BY <2>2 DEF ParserFollows, ArrivedButLast
  <2>3. CASE ~peer.ok
    BY <2>2, <2>3, ParsedType
  <2> QED BY <2>1, <2>2, <2>3
<1>7. HolderWrites'
  BY <1>2 DEF HolderWrites
<1> QED BY <1>4, <1>5, <1>6, <1>7 DEF StreamInv

LEMMA WriteFailsKeeps ==
  ASSUME StreamInv, NEW w \in Writers, WriteFails(w)
  PROVE  StreamInv'
<1>1. /\ gone /\ gone' /\ queue' = [queue EXCEPT ![w] = << >>]
      /\ UNCHANGED <<crew, job, unread, peer>>
      /\ stopped' \subseteq stopped \cup {w} /\ ended' = (ended \/ w = "pump")
  BY DEF WriteFails, ioVars
<1>2. /\ at' \in [Writers -> {"idle", "outer", "inner"}]
      /\ outer' \in Writers \cup {None} /\ inner' = None
      /\ \A v \in Writers : at'[v] # "inner"
  BY UnlockFrees DEF WriteFails
<1>3. /\ queue' \in [Writers -> Seq(Chunk)] /\ queue'[w] = << >>
      /\ \A v \in Writers \ {w} : queue'[v] = queue[v]
  BY <1>1, WriterTypes
<1>4. WriterTypeOK' /\ (peer \in Peer)'
  <2>1. \A v \in Writers : None # v
    BY DEF Writers, None
  <2>2. ended' \in BOOLEAN /\ gone' \in BOOLEAN
    BY <1>1 DEF WriteFails, ioVars, StreamInv, WriterTypeOK
  <2> QED BY <1>1, <1>2, <1>3, <2>1, <2>2 DEF StreamInv, WriterTypeOK
<1>5. MessagesFit'
  <2>1. Rest(<< >>, w, job[w])
    BY DEF Rest
  <2> QED BY <1>1, <1>3, <2>1 DEF StreamInv, MessagesFit
<1>6. ParserFollows' /\ (\A v \in Writers : ArrivedButLast(v)') /\ HolderWrites'
  BY <1>1, <1>2 DEF ParserFollows, ArrivedButLast, HolderWrites
<1> QED BY <1>4, <1>5, <1>6 DEF StreamInv

LEMMA StreamStep ==
  ASSUME StreamInv, [WriterNext]_writerVars
  PROVE  StreamInv'
<1>1. CASE PumpForwards
  <2>1. PICK n \in 1 .. MaxFrags :
          Begin("pump", ForwardFrames("pump", job["pump"] + 1, n))
    BY <1>1 DEF PumpForwards
  <2>2. "pump" \in Writers /\ job["pump"] + 1 \in Nat /\ n \in Nat \ {0}
    BY WriterTypes, WriterAssumption DEF Writers
  <2>3. Message(ForwardFrames("pump", job["pump"] + 1, n), "pump", job["pump"] + 1)
    BY <2>2, ForwardFits
  <2> QED BY <2>1, <2>2, <2>3, BeginKeeps
<1>2. CASE PumpReencodes
  <2>1. PICK n \in 1 .. MaxFrags :
          Begin("pump", WriteDataFrames("pump", job["pump"] + 1, n))
    BY <1>2 DEF PumpReencodes
  <2>2. "pump" \in Writers /\ job["pump"] + 1 \in Nat /\ n \in Nat \ {0}
    BY WriterTypes, WriterAssumption DEF Writers
  <2>3. Message(WriteDataFrames("pump", job["pump"] + 1, n), "pump", job["pump"] + 1)
    BY <2>2, WriteDataFits
  <2> QED BY <2>1, <2>2, <2>3, BeginKeeps
<1>3. CASE Ping
  <2>1. "keepalive" \in Writers /\ job["keepalive"] + 1 \in Nat
    BY WriterTypes DEF Writers
  <2>2. Message(Encoded(FrameOf("keepalive", job["keepalive"] + 1, 1, 1)), "keepalive",
                job["keepalive"] + 1)
    BY <2>1, EncodedFits
  <2> QED BY <1>3, <2>1, <2>2, BeginKeeps DEF Ping
<1>4. CASE Retry
  <2>1. "recovery" \in Writers /\ job["recovery"] + 1 \in Nat
    BY WriterTypes DEF Writers
  <2>2. Message(Encoded(FrameOf("recovery", job["recovery"] + 1, 1, 1)), "recovery",
                job["recovery"] + 1)
    BY <2>1, EncodedFits
  <2> QED BY <1>4, <2>1, <2>2, BeginKeeps DEF Retry
<1>5. CASE KeepaliveReturns
  <2>1. /\ UNCHANGED <<crew, queue, job, at, outer, inner, ended, gone, unread, peer>>
        /\ stopped' = stopped \cup {"keepalive"}
    BY <1>5 DEF KeepaliveReturns, lockVars, ioVars
  <2>2. WriterTypeOK' /\ HolderWrites'
    BY <2>1 DEF StreamInv, WriterTypeOK, HolderWrites, Writers
  <2> QED BY <2>1, <2>2, LocksKeep
<1>6. CASE \E w \in Writers : Lock(w)
  BY <1>6, LockKeeps
<1>7. CASE \E w \in Writers : Write(w)
  BY <1>7, ConnWriteKeeps, WriteFailsKeeps DEF Write
<1>8. CASE UpstreamReads
  <2>1. /\ UNCHANGED <<crew, queue, job, at, outer, inner, stopped, ended, gone, peer>>
        /\ unread > 0 /\ unread' = unread - 1
    BY <1>8 DEF UpstreamReads, lockVars
  <2>2. WriterTypeOK /\ HolderWrites
    BY DEF StreamInv
  <2>3. unread' \in 0 .. Capacity
    BY <2>1, <2>2, WriterAssumption DEF WriterTypeOK
  <2>4. WriterTypeOK' /\ HolderWrites'
    BY <2>1, <2>2, <2>3 DEF WriterTypeOK, HolderWrites
  <2> QED BY <2>1, <2>4, LocksKeep
<1>9. CASE UpstreamCloses
  <2>1. /\ UNCHANGED <<crew, queue, job, at, outer, inner, stopped, ended, unread, peer>>
        /\ gone' = TRUE
    BY <1>9 DEF UpstreamCloses, lockVars
  <2>2. WriterTypeOK' /\ HolderWrites'
    BY <2>1 DEF StreamInv, WriterTypeOK, HolderWrites
  <2> QED BY <2>1, <2>2, LocksKeep
<1>10. CASE SessionEnds
  <2>1. /\ UNCHANGED <<crew, queue, job, at, outer, inner, stopped, gone, unread, peer>>
        /\ ended' = TRUE
    BY <1>10 DEF SessionEnds, lockVars, ioVars
  <2>2. WriterTypeOK' /\ HolderWrites'
    BY <2>1 DEF StreamInv, WriterTypeOK, HolderWrites
  <2> QED BY <2>1, <2>2, LocksKeep
<1>11. CASE UNCHANGED writerVars
  <2>1. UNCHANGED <<crew, queue, job, at, outer, inner, stopped, ended, gone, unread, peer>>
    BY <1>11 DEF writerVars
  <2>2. WriterTypeOK' /\ HolderWrites'
    BY <2>1 DEF StreamInv, WriterTypeOK, HolderWrites
  <2> QED BY <2>1, <2>2, LocksKeep
<1> QED BY <1>1, <1>2, <1>3, <1>4, <1>5, <1>6, <1>7, <1>8, <1>9, <1>10, <1>11
        DEF WriterNext

LEMMA StreamInvariant == WriterSpec => []StreamInv
<1>1. WriterInit => StreamInv
  BY StreamInit
<1>2. StreamInv /\ [WriterNext]_writerVars => StreamInv'
  BY StreamStep
<1> QED BY <1>1, <1>2, PTL DEF WriterSpec

-----------------------------------------------------------------------------
(* The theorems.                                                           *)

(* Every variable of the writers has its type: in particular each lock has *)
(* the holder that stands at it, and the connection no more unread Writes  *)
(* than it takes.                                                          *)
THEOREM WriterTypeCorrect == WriterSpec => []WriterTypeOK
<1>1. StreamInv => WriterTypeOK
  BY DEF StreamInv
<1> QED BY <1>1, StreamInvariant, PTL

(* Only a Write reaches the upstream's parser.                             *)
LEMMA OnlyWritesArrive ==
  ASSUME [WriterNext]_writerVars, peer' # peer
  PROVE  \E w \in Writers : ConnWrite(w)
BY DEF WriterNext, writerVars, ioVars, PumpForwards, PumpReencodes, Ping, Retry, Begin,
       KeepaliveReturns, Lock, LockOuter, LockInner, Write, WriteFails, UpstreamReads,
       UpstreamCloses, SessionEnds

(* What arrives is what FrameStream allows: each writer's messages are     *)
(* delivered whole, in the order it wrote them, none twice and none        *)
(* skipped, and after the stream breaks nothing is.  A Write delivers at   *)
(* most one message, when it is its last part.                             *)
THEOREM WritersImplementStream == WriterSpec => ImplementsFrameStream
<1>1. WriterInit => Stream!StreamInit
  BY DEF WriterInit, Stream!StreamInit
<1>2. ASSUME StreamInv, [WriterNext]_writerVars
      PROVE  [Stream!StreamNext]_<<peer.arrived, ~peer.ok>>
  <2>1. CASE peer' = peer
    BY <2>1
  <2>2. CASE peer' # peer
    <3>1. PICK w \in Writers : ConnWrite(w)
      BY <1>2, <2>2, OnlyWritesArrive
    <3>2. peer.ok
      BY <1>2, <2>2, <3>1, ParsedType
    <3>3. CASE peer'.ok
      <4>1. \/ peer'.arrived = peer.arrived
            \/ peer'.arrived = [peer.arrived EXCEPT ![w] = Append(@, Len(@) + 1)]
        BY <1>2, <3>1, <3>2, <3>3, HealthyWrite
      <4>2. CASE peer'.arrived = peer.arrived
        BY <3>2, <3>3, <4>2
      <4>3. CASE peer'.arrived = [peer.arrived EXCEPT ![w] = Append(@, Len(@) + 1)]
        BY <3>2, <3>3, <4>3 DEF Stream!StreamNext, Stream!Deliver
      <4> QED BY <4>1, <4>2, <4>3
    <3>4. CASE ~peer'.ok
      <4>1. peer'.arrived = peer.arrived
        BY <1>2, <3>1, <3>4, ParsedType
      <4> QED BY <3>4, <4>1 DEF Stream!StreamNext, Stream!Break
    <3> QED BY <3>3, <3>4
  <2> QED BY <2>1, <2>2
<1> QED BY <1>1, <1>2, StreamInvariant, PTL
        DEF WriterSpec, ImplementsFrameStream, Stream!StreamSpec

(* As long as no other writer is in the middle of a frame or of a          *)
(* fragmented message, a Write is what the parser waits for.               *)
LEMMA AloneIsInPlace ==
  ASSUME StreamInv, NEW w \in Writers, ConnWrite(w), peer.ok,
         \A v \in Writers \ {w} : ~Midway(v)
  PROVE  peer'.ok
<1> DEFINE c == Head(queue[w])
           f == c.frame
<1>1. /\ queue[w] # << >> /\ ~gone /\ peer' = Parsed(peer, c) /\ peer \in Peer
      /\ c \in Chunk /\ c.part \in Part /\ f \in WireFrame /\ f.w = w /\ f.job = job[w]
      /\ f.k \in 1 .. f.n
  BY WriteShortens, FirstChunk DEF StreamInv
<1>2. f.k \in Nat /\ f.k <= f.n /\ f.k > 0
  BY <1>1 DEF WireFrame
<1>3. /\ peer.header # << >> => \E v \in Writers : InFrame(v)
      /\ peer.w # None => InMessage(peer.w)
      /\ FirstIs(w, "payload") => InFrame(w)
      /\ f.k > 1 => InMessage(w)
  BY <1>1 DEF StreamInv, ParserFollows
<1>4. \A v \in Writers : InFrame(v) => v = w
  BY DEF InFrame, FirstIs, Midway
<1>5. peer.w # None => peer.w = w /\ InMessage(w)
  <2>1. ASSUME NEW v \in Writers, InMessage(v) PROVE v = w
    <3>1. peer.k \in Nat
      BY <1>1 DEF Peer
    <3> QED BY <2>1, <3>1 DEF InMessage, Midway
  <2> QED BY <1>1, <1>3, <2>1 DEF Peer
<1>6. CASE c.part = "header"
  <2>1. peer.header = << >>
    BY <1>3, <1>4, <1>6 DEF InFrame, FirstIs
  <2>2. peer' = [peer EXCEPT !.header = <<f>>]
    BY <1>1, <1>6, <2>1, WriteOutcome
  <2> QED BY <1>1, <2>2 DEF Peer
<1>7. CASE c.part # "header"
  <2>1. InPlace(peer, c)
    <3>1. CASE c.part = "whole"
      BY <1>3, <1>4, <3>1 DEF InPlace, InFrame, FirstIs
    <3>2. CASE c.part = "payload"
      <4>1. peer.header = <<f>>
        BY <1>1, <1>3, <3>2 DEF FirstIs, InFrame
      <4>2. peer.header # << >> /\ peer.header[1] = f
        BY <4>1
      <4> QED BY <3>2, <4>2 DEF InPlace
    <3> QED BY <1>1, <1>7, <3>1, <3>2 DEF Part
  <2>2. Expected(peer, f)
    <3>1. CASE peer.w = None
      <4>1. ~InMessage(w)
        BY <3>1 DEF InMessage, Writers, None
      <4> QED BY <1>2, <1>3, <3>1, <4>1 DEF Expected
    <3>2. CASE peer.w # None
      BY <1>1, <1>5, <3>2 DEF Expected, InMessage
    <3> QED BY <3>1, <3>2
  <2>3. peer' = FrameArrives(peer, f)
    BY <1>1, <2>1, WriteOutcome
  <2> QED BY <1>1, <1>2, <2>2, <2>3, FrameOutcome
<1> QED BY <1>6, <1>7

(* The stream breaks only at a Write issued while another writer is in the *)
(* middle of a frame or of a fragmented message: for streams whose writers *)
(* do not overlap so, one lock per Write is enough.                        *)
THEOREM BreaksNeedOverlap == WriterSpec => BreaksOnlyOnOverlap
<1> DEFINE Overlap == peer.ok /\ ~peer'.ok =>
             \E w, v \in Writers : w # v /\ queue'[w] # queue[w] /\ Midway(v)
<1>1. ASSUME StreamInv, [WriterNext]_writerVars PROVE Overlap
  <2> SUFFICES ASSUME peer.ok, ~peer'.ok
               PROVE  \E w, v \in Writers : w # v /\ queue'[w] # queue[w] /\ Midway(v)
    OBVIOUS
  <2>1. PICK w \in Writers : ConnWrite(w)
    BY <1>1, OnlyWritesArrive
  <2>2. queue'[w] # queue[w]
    BY <1>1, <2>1, WriteShortens, FirstChunk
  <2>3. \E v \in Writers \ {w} : Midway(v)
    BY <1>1, <2>1, AloneIsInPlace
  <2> QED BY <2>2, <2>3
<1>2. StreamInv /\ [WriterNext]_writerVars => [Overlap]_writerVars
  BY <1>1
<1> QED BY <1>2, StreamInvariant, PTL DEF WriterSpec, BreaksOnlyOnOverlap

-----------------------------------------------------------------------------
(* Runs of units.                                                          *)

(* The units are those that follow number a.                               *)
From(units, a) == \A i \in DOMAIN units : units[i] = a + i

Run(units, a, n) == units \in Seq(Nat) /\ Len(units) = n /\ From(units, a)

LEMMA ReadRun ==
  ASSUME NEW a \in Nat, NEW n \in Nat
  PROVE  Run([i \in 1 .. n |-> a + i], a, n)
<1> DEFINE s == [i \in 1 .. n |-> a + i]
<1>1. s \in [1 .. n -> Nat] /\ DOMAIN s = 1 .. n
  OBVIOUS
<1>2. s \in Seq(Nat) /\ Len(s) = n
  BY <1>1
<1>3. From(s, a)
  BY DEF From
<1> QED BY <1>2, <1>3 DEF Run

LEMMA RunConcat ==
  ASSUME NEW s, NEW t, NEW a \in Nat, NEW m \in Nat, NEW n \in Nat,
         Run(s, a, m), Run(t, a + m, n)
  PROVE  Run(s \o t, a, m + n)
<1>1. s \in Seq(Nat) /\ t \in Seq(Nat) /\ Len(s) = m /\ Len(t) = n
  BY DEF Run
<1>2. /\ s \o t \in Seq(Nat) /\ Len(s \o t) = m + n
      /\ \A i \in 1 .. m + n : (s \o t)[i] = IF i <= m THEN s[i] ELSE t[i - m]
  BY <1>1, ConcatProperties
<1>3. (\A i \in 1 .. m : s[i] = a + i) /\ (\A i \in 1 .. n : t[i] = (a + m) + i)
  <2>1. DOMAIN s = 1 .. m /\ DOMAIN t = 1 .. n
    BY <1>1
  <2> QED BY <2>1 DEF Run, From
<1>4. ASSUME NEW i \in 1 .. m + n PROVE (s \o t)[i] = a + i
  <2>1. CASE i <= m
    <3>1. i \in 1 .. m
      BY <2>1
    <3> QED BY <1>2, <1>3, <2>1, <3>1
  <2>2. CASE ~(i <= m)
    <3>1. i - m \in 1 .. n /\ (a + m) + (i - m) = a + i
      BY <2>2
    <3>2. t[i - m] = (a + m) + (i - m)
      BY <1>3, <3>1
    <3> QED BY <1>2, <2>2, <3>1, <3>2
  <2> QED BY <2>1, <2>2
<1>5. DOMAIN (s \o t) = 1 .. m + n
  BY <1>2
<1> QED BY <1>2, <1>4, <1>5 DEF Run, From

LEMMA RunSplit ==
  ASSUME NEW s, NEW a \in Nat, NEW m \in Nat, NEW n \in Nat, Run(s, a, m), n <= m
  PROVE  Run(SubSeq(s, 1, n), a, n) /\ Run(SubSeq(s, n + 1, Len(s)), a + n, m - n)
<1>1. s \in Seq(Nat) /\ Len(s) = m /\ (\A i \in 1 .. m : s[i] = a + i) /\ DOMAIN s = 1 .. m
  BY DEF Run, From
<1>2. Run(SubSeq(s, 1, n), a, n)
  <2>1. \A i \in 1 .. n : s[i] \in Nat /\ i \in 1 .. m
    BY <1>1
  <2>2. /\ SubSeq(s, 1, n) \in Seq(Nat)
        /\ Len(SubSeq(s, 1, n)) = IF 1 <= n THEN n - 1 + 1 ELSE 0
        /\ \A i \in 1 .. n - 1 + 1 : SubSeq(s, 1, n)[i] = s[1 + i - 1]
    BY <2>1, SubSeqProperties
  <2>3. Len(SubSeq(s, 1, n)) = n /\ n - 1 + 1 = n /\ \A i \in 1 .. n : 1 + i - 1 = i
    BY <2>2
  <2>4. DOMAIN SubSeq(s, 1, n) = 1 .. n
    BY <2>2, <2>3
  <2> HIDE DEF Run
  <2>5. \A i \in 1 .. n : SubSeq(s, 1, n)[i] = a + i
    BY <1>1, <2>1, <2>2, <2>3
  <2> QED BY <2>2, <2>3, <2>4, <2>5 DEF Run, From
<1>3. Run(SubSeq(s, n + 1, Len(s)), a + n, m - n)
  <2> DEFINE t == SubSeq(s, n + 1, m)
  <2>1. \A i \in n + 1 .. m : s[i] \in Nat
    BY <1>1
  <2>2. /\ t \in Seq(Nat)
        /\ Len(t) = IF n + 1 <= m THEN m - (n + 1) + 1 ELSE 0
        /\ \A i \in 1 .. m - (n + 1) + 1 : t[i] = s[n + 1 + i - 1]
    BY <2>1, SubSeqProperties
  <2> HIDE DEF t
  <2>3. Len(t) = m - n /\ m - (n + 1) + 1 = m - n
    BY <2>2
  <2>4. DOMAIN t = 1 .. m - n
    BY <2>2, <2>3
  <2>5. ASSUME NEW i \in 1 .. m - n PROVE t[i] = (a + n) + i
    <3>1. n + 1 + i - 1 = n + i /\ n + i \in 1 .. m
      OBVIOUS
    <3>2. t[i] = s[n + i]
      BY <2>2, <2>3, <3>1
    <3>3. s[n + i] = a + (n + i)
      BY <1>1, <3>1
    <3> QED BY <3>2, <3>3
  <2> QED BY <1>1, <2>2, <2>3, <2>4, <2>5 DEF Run, From, t
<1> QED BY <1>2, <1>3

LEMMA RunBounded ==
  ASSUME NEW s, NEW a \in Nat, NEW n \in Nat, NEW b \in Nat, Run(s, a, n), a + n <= b
  PROVE  s \in Seq(1 .. b)
<1>1. s \in Seq(Nat) /\ Len(s) = n /\ \A i \in 1 .. n : s[i] = a + i
  BY DEF Run, From
<1>2. \A i \in 1 .. n : s[i] \in 1 .. b
  BY <1>1
<1> QED BY <1>1, <1>2

LEMMA EmptyRun == ASSUME NEW a \in Nat PROVE Run(<<>>, a, 0)
BY DEF Run, From
-----------------------------------------------------------------------------
(* The inductive invariant.                                                *)

Shape ==
  /\ conn \in RelayScenarios
  /\ stage \in {"head", "dial", "answer", "relay", "over"}
  /\ relay \in {"none", "first", "both"}
  /\ sent \in [Peers -> Nat] /\ taken \in [Peers -> Nat]
  /\ fin \in [Peers -> BOOLEAN] /\ left \in [Peers -> BOOLEAN] /\ told \in [Peers -> BOOLEAN]
  /\ held \in [Peers -> Seq(Nat)] /\ hand \in [Peers -> Seq(Nat)]
  /\ copy \in [Peers -> {"on", "eof", "err"}]
  /\ got \in [Peers -> Seq(Nat)]
  /\ cut \in BOOLEAN /\ cancelled \in BOOLEAN

(* Of what was read from p, x units have left the proxy, the next k are in *)
(* the hand of its copying goroutine and the next h in a buffer; the other *)
(* peer, as long as it is there, has the first x.                          *)
Carried(p, x, k, h) ==
  /\ Run(hand[p], x, k) /\ Run(held[p], x + k, h)
  /\ taken[p] = x + k + h /\ taken[p] <= sent[p]
  /\ stage # "over" /\ ~left[Other(p)] => Run(got[Other(p)], 0, x)

AtEof(p) ==
  copy[p] = "eof" =>
    /\ fin[p] /\ hand[p] = <<>> /\ held[p] = <<>> /\ taken[p] = sent[p]
    /\ ~left[Other(p)] => Len(got[Other(p)]) = sent[p]

Flow(p) == (\E x, k, h \in Nat : Carried(p, x, k, h)) /\ AtEof(p)

(* Until it relays, a handler has answered nothing and copied nothing, and *)
(* it has read nothing from the server before it has written the head. The *)
(* dispatcher reads one byte at a time; a client whose connection is to be *)
(* hijacked has sent no more than its head.                                *)
Early ==
  /\ stage \in {"head", "dial", "answer"} =>
       /\ relay = "none" /\ got["client"] = <<>>
       /\ \A p \in Peers : hand[p] = <<>> /\ copy[p] = "on"
  /\ stage \in {"head", "dial"} => got["server"] = <<>> /\ held["server"] = <<>>
  /\ stage = "answer" /\ conn.route = "transparent" => Len(held["server"]) <= 1
  /\ conn.route = "direct" /\ got["client"] = <<>> => sent["client"] <= HeadLen

Ordered == /\ \E n \in Nat : Run(got["server"], 0, n)
           /\ \/ \E n \in Nat : Run(got["client"], 0, n)
              \/ got["client"] = <<0>> /\ stage = "over"

Bounded == sent["client"] <= ClientLen /\ sent["server"] <= ServerLen

BridgeWaits ==
  stage = "over" /\ relay = "both" /\ ~cancelled => \A p \in Peers : copy[p] # "on"

RelayInv == /\ Shape /\ Early /\ Ordered /\ Bounded /\ BridgeWaits
            /\ \A p \in Peers : Flow(p) /\ (left[p] => fin[p])

LEMMA RelayInitInv == RelayInit => RelayInv
<1> SUFFICES ASSUME RelayInit PROVE RelayInv
  OBVIOUS
<1>1. Run(<<>>, 0, 0)
  BY EmptyRun
<1>2. Shape
  <2>1. <<>> \in Seq(Nat) /\ 0 \in Nat
    OBVIOUS
  <2>2. stage \in {"head", "dial", "answer", "relay", "over"}
    BY DEF RelayInit
  <2> QED BY <2>1, <2>2 DEF RelayInit, Shape
<1>3. \A p \in Peers : Other(p) \in Peers
  BY DEF Peers, Other
<1>4. Early /\ Bounded /\ BridgeWaits
  BY RelayAssumption DEF RelayInit, Early, Bounded, BridgeWaits, Peers
<1>5. \A p \in Peers : Carried(p, 0, 0, 0)
  BY <1>1, <1>3 DEF RelayInit, Carried
<1>6. \A p \in Peers : AtEof(p) /\ (left[p] => fin[p])
  BY DEF RelayInit, AtEof
<1>7. Ordered
  BY <1>1 DEF RelayInit, Ordered, Peers
<1> QED BY <1>2, <1>4, <1>5, <1>6, <1>7 DEF RelayInv, Flow

(* What happens elsewhere.                                                 *)
LEMMA FlowKept ==
  ASSUME RelayInv, NEW p \in Peers, sent'[p] \in Nat,
         UNCHANGED <<held[p], hand[p], taken[p], copy[p], got[Other(p)]>>,
         sent[p] <= sent'[p], fin[p] => fin'[p] /\ sent'[p] = sent[p],
         left[Other(p)] => left'[Other(p)], stage = "over" => stage' = "over"
  PROVE  Flow(p)'
<1>1. PICK x \in Nat, k \in Nat, h \in Nat : Carried(p, x, k, h)
  BY DEF RelayInv, Flow
<1>2. taken[p] \in Nat /\ sent[p] \in Nat /\ fin[p] \in BOOLEAN /\ AtEof(p)
  BY DEF RelayInv, Shape, Flow
<1>3. Carried(p, x, k, h)'
  BY <1>1, <1>2 DEF Carried
<1>4. AtEof(p)'
  BY <1>2 DEF AtEof
<1> QED BY <1>3, <1>4 DEF Flow

LEMMA PeerActs ==
  ASSUME RelayInv,
         \/ CancelRelay
         \/ \E p \in Peers : PeerSends(p) \/ \E leaves \in BOOLEAN : PeerEnds(p, leaves)
  PROVE  RelayInv'
<1>1. /\ UNCHANGED <<conn, stage, relay, taken, held, copyVars, got, cut>>
      /\ stage # "over" /\ Shape
  BY DEF CancelRelay, PeerSends, PeerEnds, peerVars, RelayInv
<1>2. /\ UNCHANGED copy /\ UNCHANGED hand /\ UNCHANGED told
  BY <1>1 DEF copyVars
<1>3. CASE CancelRelay
  <2>1. UNCHANGED <<sent, fin, left>> /\ cancelled' = TRUE
    BY <1>3 DEF CancelRelay, peerVars
  <2>2. Shape'
    BY <1>1, <1>2, <2>1 DEF Shape
  <2>3. \A p \in Peers : Flow(p)'
    BY <1>1, <1>2, <2>1, FlowKept DEF Shape, Peers, Other
  <2> QED BY <1>1, <1>2, <2>1, <2>2, <2>3
          DEF RelayInv, Early, Ordered, Bounded, BridgeWaits
<1>4. ASSUME NEW p \in Peers, PeerSends(p) PROVE RelayInv'
  <2>1. /\ UNCHANGED <<fin, left, cancelled>> /\ sent' = [sent EXCEPT ![p] = sent[p] + 1]
        /\ ~fin[p] /\ MayPeerSend(p)
    BY <1>4 DEF PeerSends, MayPeerSend
  <2>2. Shape'
    BY <1>1, <1>2, <2>1 DEF Shape
  <2>3. \A q \in Peers : sent'[q] \in Nat /\ sent[q] <= sent'[q] /\ (fin[q] => sent'[q] = sent[q])
    BY <1>1, <2>1 DEF Shape
  <2>4. \A q \in Peers : Flow(q)'
    BY <1>1, <1>2, <2>1, <2>3, FlowKept
  <2>5. Bounded'
    BY <1>1, <2>1, RelayAssumption DEF Shape, MayPeerSend, Bounded, RelayInv, Peers
  <2>6. ASSUME conn.route = "direct", got["client"] = <<>>
        PROVE  sent'["client"] <= HeadLen
    <3>1. ~conn.eager /\ HeadLen \in Nat
      BY <1>1, <2>6, RelayAssumption DEF Shape
    <3>2. sent["client"] \in Nat /\ sent["client"] <= HeadLen
      BY <1>1, <2>6 DEF Shape, Peers, RelayInv, Early
    <3>3. p = "client" => ~(sent["client"] >= HeadLen)
      BY <2>1, <2>6, <3>1 DEF MayPeerSend
    <3> QED BY <1>1, <2>1, <3>1, <3>2, <3>3 DEF Shape, Peers
  <2>7. Early'
    BY <1>1, <1>2, <2>6 DEF RelayInv, Early
  <2> QED BY <1>1, <1>2, <2>1, <2>2, <2>4, <2>5, <2>7
          DEF RelayInv, Ordered, BridgeWaits
<1>5. ASSUME NEW p \in Peers, NEW leaves \in BOOLEAN, PeerEnds(p, leaves) PROVE RelayInv'
  <2>1. /\ UNCHANGED <<sent, cancelled>> /\ ~fin[p]
        /\ fin' = [fin EXCEPT ![p] = TRUE] /\ left' = [left EXCEPT ![p] = leaves]
    BY <1>5 DEF PeerEnds
  <2>2. Shape'
    BY <1>1, <1>2, <2>1 DEF Shape
  <2>3. \A q \in Peers : /\ fin[q] => fin'[q]
                         /\ left[q] => left'[q]
                         /\ left'[q] => fin'[q]
    BY <1>1, <2>1 DEF Shape, RelayInv
  <2>4. \A q \in Peers : Flow(q)'
    <3> SUFFICES ASSUME NEW q \in Peers PROVE Flow(q)'
      OBVIOUS
    <3>1. Other(q) \in Peers /\ sent[q] \in Nat
      BY <1>1 DEF Peers, Other, Shape
    <3> QED BY <1>1, <1>2, <2>1, <2>3, <3>1, FlowKept
  <2> QED BY <1>1, <1>2, <2>1, <2>2, <2>3, <2>4
          DEF RelayInv, Early, Ordered, Bounded, BridgeWaits
<1> QED BY <1>3, <1>4, <1>5

LEMMA ReadAheadKeeps ==
  ASSUME RelayInv, ReadHead \/ ReadAnswer
  PROVE  RelayInv'
<1>1. PICK p \in Peers, length \in Nat :
        ReadAhead(p, length) /\ (p = "server" => length = 1 /\ stage = "answer")
  BY RelayAssumption DEF ReadHead, ReadAnswer, Peers
<1>2. stage \in {"head", "answer"} /\ Shape
  BY DEF ReadHead, ReadAnswer, RelayInv
<1>3. PICK n \in Ahead(p) :
        /\ taken' = [taken EXCEPT ![p] = taken[p] + n]
        /\ held' = [held EXCEPT ![p] = held[p] \o [i \in 1..n |-> taken[p] + i]]
  BY <1>1 DEF ReadAhead
<1>4. /\ UNCHANGED <<conn, stage, relay, sent, fin, left, hand, copy, told, got, cut, cancelled>>
      /\ Len(held[p]) < length
  BY <1>1 DEF ReadAhead, peerVars, copyVars
<1>5. /\ taken[p] \in Nat /\ sent[p] \in Nat /\ n \in Nat /\ taken[p] + n <= sent[p]
      /\ conn.route \in {"raw", "transparent"} => n = 1
  <2>1. taken[p] \in Nat /\ sent[p] \in Nat /\ taken[p] <= sent[p]
    BY <1>2 DEF Shape, RelayInv, Flow, Carried
  <2> QED BY <1>3, <2>1 DEF Ahead
<1>6. PICK x \in Nat, k \in Nat, h \in Nat : Carried(p, x, k, h)
  BY <1>2 DEF RelayInv, Flow
<1>7. /\ Run(held'[p], x + k, h + n) /\ taken'[p] = x + k + (h + n) /\ h + n \in Nat
      /\ held[p] \in Seq(Nat)
  <2>1. /\ Run([i \in 1..n |-> taken[p] + i], taken[p], n) /\ (x + k) + h = taken[p]
        /\ Run(held[p], x + k, h) /\ x + k \in Nat
    <3>1. Run([i \in 1..n |-> taken[p] + i], taken[p], n)
      BY <1>5, ReadRun
    <3> QED BY <1>6, <3>1 DEF Carried
  <2>2. Run(held[p] \o [i \in 1..n |-> taken[p] + i], x + k, h + n)
    BY <1>5, <2>1, RunConcat
  <2> QED BY <1>2, <1>3, <1>5, <2>1, <2>2 DEF Shape
<1>8. Shape'
  <2>1. held'[p] \in Seq(Nat)
    BY <1>7 DEF Run
  <2>2. held' \in [Peers -> Seq(Nat)] /\ taken' \in [Peers -> Nat]
    BY <1>2, <1>3, <1>5, <2>1 DEF Shape
  <2> QED BY <1>2, <1>4, <2>2 DEF Shape
<1>9. Carried(p, x, k, h + n)'
  BY <1>2, <1>3, <1>4, <1>5, <1>6, <1>7 DEF Carried, Shape
<1>10. AtEof(p)' /\ \A q \in Peers : copy[q] = "on"
  BY <1>2, <1>4 DEF AtEof, RelayInv, Early
<1>11. \A q \in Peers \ {p} : Flow(q)'
  <2> SUFFICES ASSUME NEW q \in Peers \ {p} PROVE Flow(q)'
    OBVIOUS
  <2>1. held'[q] = held[q] /\ taken'[q] = taken[q] /\ sent[q] \in Nat
    BY <1>2, <1>3 DEF Shape
  <2> QED BY <1>4, <2>1, FlowKept
<1>12. Flow(p)'
  BY <1>7, <1>9, <1>10 DEF Flow
<1>13. Early'
  <2>1. stage = "head" => held'["server"] = held["server"]
    BY <1>1, <1>2, <1>3 DEF Shape, Peers
  <2>2. stage = "answer" /\ conn.route = "transparent" => Len(held'["server"]) <= 1
    <3> SUFFICES ASSUME stage = "answer", conn.route = "transparent"
                 PROVE  Len(held'["server"]) <= 1
      OBVIOUS
    <3>1. CASE p = "server"
      <4>1. Len(held[p]) = h /\ Len(held'[p]) = h + n
        BY <1>6, <1>7 DEF Carried, Run
      <4> QED BY <1>1, <1>4, <1>5, <3>1, <4>1
    <3>2. CASE p # "server"
      BY <1>2, <1>3, <3>2 DEF Shape, Peers, RelayInv, Early
    <3> QED BY <3>1, <3>2
  <2> QED BY <1>2, <1>4, <2>1, <2>2 DEF Early, RelayInv
<1> QED BY <1>2, <1>4, <1>8, <1>11, <1>12, <1>13
        DEF RelayInv, Ordered, Bounded, BridgeWaits

(* A handler that leaves the buffers alone and is over or begins to relay. *)
LEMMA StageKeeps ==
  ASSUME RelayInv,
         UNCHANGED <<conn, sent, fin, left, taken, held, hand, copy, told, got, cancelled>>,
         cut' \in BOOLEAN,
         \/ stage' = "over" /\ relay' = relay /\ (stage = "relay" => CopyDone)
         \/ stage \in {"head", "dial"} /\ stage' = "relay" /\ relay' = "first"
         \/ stage = "head" /\ stage' = "dial" /\ relay' = relay
         \/ stage = "dial" /\ stage' = "head" /\ relay' = relay
  PROVE  RelayInv'
<1>1. Shape /\ Shape'
  BY DEF RelayInv, Shape
<1>2. \A p \in Peers : Flow(p)'
  <2> SUFFICES ASSUME NEW p \in Peers PROVE Flow(p)'
    OBVIOUS
  <2>1. sent[p] \in Nat /\ (stage = "over" => stage' = "over")
    BY <1>1 DEF Shape
  <2> QED BY <2>1, FlowKept
<1>3. Early' /\ Ordered' /\ Bounded'
  BY DEF RelayInv, Early, Ordered, Bounded
<1>4. BridgeWaits'
  <2> SUFFICES ASSUME stage' = "over", relay' = "both", ~cancelled'
               PROVE  \A p \in Peers : copy[p] # "on"
    BY DEF BridgeWaits
  <2>1. relay = "both" /\ stage \in {"relay", "over"}
    BY <1>1 DEF RelayInv, Early, Shape
  <2> QED BY <2>1 DEF RelayInv, BridgeWaits, CopyDone
<1> QED BY <1>1, <1>2, <1>3, <1>4 DEF RelayInv

(* The head leaves the client's buffer for the server.                     *)
LEMMA HeadKeeps ==
  ASSUME RelayInv, HeadWritten, stage \in {"head", "dial"},
         UNCHANGED <<conn, sent, fin, left, taken, hand, copy, told, cut, cancelled>>,
         \/ stage' = "answer" /\ relay' = relay
         \/ stage' = "relay" /\ relay' \in {"first", "both"}
  PROVE  RelayInv'
<1>1. PICK n \in Nat :
        /\ n <= Len(held["client"])
        /\ got' = [got EXCEPT !["server"] = SubSeq(held["client"], 1, n)]
        /\ held' = [held EXCEPT !["client"] =
                      SubSeq(held["client"], n + 1, Len(held["client"]))]
  <2>1. Len(held["client"]) \in Nat /\ HeadLen \in Nat
    BY RelayAssumption DEF RelayInv, Shape, Peers
  <2> DEFINE n == IF HeadRead THEN HeadLen ELSE Len(held["client"])
  <2>2. n \in Nat /\ n <= Len(held["client"])
    BY <2>1 DEF HeadRead
  <2>3. /\ got' = [got EXCEPT !["server"] = SubSeq(held["client"], 1, n)]
        /\ held' = [held EXCEPT !["client"] =
                      SubSeq(held["client"], n + 1, Len(held["client"]))]
    BY DEF HeadWritten
  <2> HIDE DEF n
  <2> QED BY <2>2, <2>3
<1>2. /\ Shape /\ got["client"] = <<>> /\ got["server"] = <<>> /\ held["server"] = <<>>
      /\ relay = "none" /\ \A p \in Peers : hand[p] = <<>> /\ copy[p] = "on"
  BY DEF RelayInv, Early
<1>3. PICK x \in Nat, k \in Nat, h \in Nat : Carried("client", x, k, h)
  BY DEF RelayInv, Flow, Peers
<1>4. /\ ~left["server"] /\ Other("client") = "server" /\ Other("server") = "client"
      /\ "client" \in Peers /\ "server" \in Peers
  BY DEF HeadWritten, Other, Peers
<1>5. x = 0 /\ k = 0 /\ Len(held["client"]) = h /\ Run(held["client"], 0, h)
  <2>1. Run(got["server"], 0, x) /\ Run(hand["client"], x, k) /\ Run(held["client"], x + k, h)
    BY <1>3, <1>4 DEF Carried
  <2>2. x = 0 /\ k = 0 /\ Len(held["client"]) = h
    BY <1>2, <1>4, <2>1 DEF Run
  <2> QED BY <2>1, <2>2
<1>6. /\ Run(got'["server"], 0, n) /\ Run(held'["client"], n, h - n) /\ h - n \in Nat
      /\ held'["server"] = <<>> /\ got'["client"] = <<>>
  <2>1. /\ Run(SubSeq(held["client"], 1, n), 0, n)
        /\ Run(SubSeq(held["client"], n + 1, Len(held["client"])), 0 + n, h - n)
    BY <1>1, <1>5, RunSplit
  <2> QED BY <1>1, <1>2, <1>5, <2>1 DEF Shape, Peers
<1>7. Shape'
  <2>1. got' \in [Peers -> Seq(Nat)] /\ held' \in [Peers -> Seq(Nat)]
    BY <1>1, <1>2, <1>6 DEF Run, Shape, Peers
  <2> QED BY <1>2, <2>1 DEF Shape
<1>8. Carried("client", n, 0, h - n)'
  <2>1. Run(<<>>, n, 0)
    BY EmptyRun
  <2>2. taken["client"] = n + 0 + (h - n) /\ taken["client"] <= sent["client"]
    BY <1>3, <1>5, <1>6 DEF Carried
  <2> QED BY <1>2, <1>4, <1>6, <2>1, <2>2 DEF Carried
<1>9. Flow("client")'
  BY <1>2, <1>4, <1>6, <1>8 DEF Flow, AtEof
<1>10. Flow("server")'
  <2>1. sent["server"] \in Nat
    BY <1>2, <1>4 DEF Shape
  <2> QED BY <1>2, <1>4, <1>6, <2>1, FlowKept
<1>11. Early'
  BY <1>2, <1>6 DEF RelayInv, Early
<1>12. Ordered'
  BY <1>6, EmptyRun DEF Ordered
<1> QED BY <1>2, <1>7, <1>9, <1>10, <1>11, <1>12 DEF RelayInv, Bounded, BridgeWaits, Peers

(* writeBadGateway ends it.                                                *)
LEMMA BadGatewayKeeps ==
  ASSUME RelayInv, BadGateway, stage \in {"dial", "answer"},
         UNCHANGED <<conn, sent, fin, left, taken, hand, copy, told, cut, cancelled>>
  PROVE  RelayInv'
<1>1. /\ Shape /\ stage' = "over" /\ UNCHANGED <<relay, held>>
      /\ got' = IF left["client"] THEN got ELSE [got EXCEPT !["client"] = Append(@, 0)]
      /\ got["client"] = <<>> /\ relay = "none" /\ \A p \in Peers : copy[p] = "on"
      /\ "client" \in Peers /\ "server" \in Peers
  BY DEF BadGateway, RelayInv, Early, Peers
<1>2. got'["server"] = got["server"] /\ got'["client"] \in {<<>>, <<0>>}
  BY <1>1 DEF Shape
<1>3. Shape'
  <2>1. got' \in [Peers -> Seq(Nat)]
    BY <1>1 DEF Shape
  <2> QED BY <1>1, <2>1 DEF Shape
<1>4. ASSUME NEW p \in Peers PROVE Flow(p)'
  <2>1. PICK x \in Nat, k \in Nat, h \in Nat : Carried(p, x, k, h)
    BY DEF RelayInv, Flow
  <2> QED BY <1>1, <2>1 DEF Flow, Carried, AtEof
<1>5. Ordered'
  BY <1>1, <1>2, EmptyRun DEF Ordered, RelayInv
<1>6. Early'
  BY <1>1, <1>2 DEF RelayInv, Early
<1> QED BY <1>1, <1>3, <1>4, <1>5, <1>6 DEF RelayInv, Bounded, BridgeWaits

LEMMA BeginningKeeps ==
  ASSUME RelayInv, Sniff \/ RequestRead \/ RequestEnds \/ RouteInitialHTTP \/ Dial \/ AnswerEnds
  PROVE  RelayInv'
<1>1. Shape
  BY DEF RelayInv
<1>2. CASE Sniff
  <2>1. /\ UNCHANGED <<conn, sent, fin, left, taken, held, hand, copy, told, got, cancelled>>
        /\ stage = "head" /\ cut' \in BOOLEAN
        /\ \/ stage' = "relay" /\ relay' = "first"
           \/ stage' = "dial" /\ relay' = relay
    BY <1>1, <1>2 DEF Sniff, Replay, PrefixReplayed, HeadRead, peerVars, copyVars, Shape
  <2> QED BY <2>1, StageKeeps
<1>3. CASE RequestRead
  <2>1. /\ UNCHANGED <<conn, relay, sent, fin, left, taken, hand, copy, told, got, cut, cancelled>>
        /\ stage = "head" /\ stage' = "dial" /\ HeadRead
        /\ held' = held \/ (/\ conn.route = "direct"
                            /\ held' = [held EXCEPT !["client"] =
                                          SubSeq(held["client"], 1, HeadLen)])
    BY <1>3 DEF RequestRead, peerVars, copyVars
  <2>2. CASE held' = held
    BY <1>1, <2>1, <2>2, StageKeeps DEF Shape
  <2>3. CASE /\ conn.route = "direct"
             /\ held' = [held EXCEPT !["client"] = SubSeq(held["client"], 1, HeadLen)]
    <3>1. "client" \in Peers /\ got["client"] = <<>>
      BY <2>1 DEF Peers, RelayInv, Early
    <3>2. PICK x \in Nat, k \in Nat, h \in Nat : Carried("client", x, k, h)
      BY <3>1 DEF RelayInv, Flow
    <3>3. Len(held["client"]) = h /\ h <= sent["client"] /\ sent["client"] \in Nat
      BY <1>1, <3>1, <3>2 DEF Carried, Run, Shape
    <3>4. sent["client"] <= HeadLen /\ HeadLen \in Nat
      BY <2>3, <3>1, RelayAssumption DEF RelayInv, Early
    <3>5. Len(held["client"]) = HeadLen
      BY <2>1, <3>3, <3>4 DEF HeadRead
    <3>6. SubSeq(held["client"], 1, HeadLen) = held["client"]
      BY <1>1, <3>1, <3>5, SubSeqFull DEF Shape
    <3>7. held' = held
      BY <1>1, <2>3, <3>1, <3>6 DEF Shape
    <3> QED BY <1>1, <2>1, <3>7, StageKeeps DEF Shape
  <2> QED BY <2>1, <2>2, <2>3
<1>4. CASE RequestEnds
  <2>1. /\ UNCHANGED <<conn, relay, sent, fin, left, taken, held, hand, copy, told, got, cut,
                       cancelled>>
        /\ stage = "head" /\ stage' = "over"
    BY <1>4 DEF RequestEnds, peerVars, copyVars
  <2> QED BY <1>1, <2>1, StageKeeps DEF Shape
<1>5. CASE RouteInitialHTTP
  <2>1. /\ UNCHANGED <<conn, sent, fin, left, taken, hand, copy, told, cut, cancelled>>
        /\ stage = "head"
        /\ \/ /\ HeadWritten
              /\ \/ stage' = "answer" /\ relay' = relay
                 \/ stage' = "relay" /\ relay' = "both"
           \/ stage' = "over" /\ UNCHANGED <<relay, got, held>>
    BY <1>5 DEF RouteInitialHTTP, peerVars, copyVars
  <2> QED BY <1>1, <2>1, StageKeeps, HeadKeeps DEF Shape
<1>6. CASE Dial
  <2>1. /\ UNCHANGED <<conn, sent, fin, left, taken, hand, copy, told, cut, cancelled>>
        /\ stage = "dial"
        /\ \/ stage' = "relay" /\ relay' = "first" /\ UNCHANGED <<held, got>>
           \/ stage' \in {"head", "over"} /\ UNCHANGED <<relay, held, got>>
           \/ stage' = "answer" /\ HeadWritten /\ UNCHANGED relay
           \/ BadGateway
    BY <1>6 DEF Dial, peerVars, copyVars
  <2> QED BY <1>1, <2>1, StageKeeps, HeadKeeps, BadGatewayKeeps DEF Shape
<1>7. CASE AnswerEnds
  <2>1. /\ UNCHANGED <<conn, sent, fin, left, taken, hand, copy, told, cut, cancelled>>
        /\ stage = "answer"
        /\ \/ stage' = "over" /\ UNCHANGED <<relay, held, got>>
           \/ BadGateway
    BY <1>7 DEF AnswerEnds, peerVars, copyVars
  <2> QED BY <1>1, <2>1, StageKeeps, BadGatewayKeeps DEF Shape
<1> QED BY <1>2, <1>3, <1>4, <1>5, <1>6, <1>7

(* The answer, and what was read beyond it.                                *)
LEMMA AnsweredKeeps ==
  ASSUME RelayInv, Answered
  PROVE  RelayInv'
<1> DEFINE a == held["server"]
           rest == Tail(a)
           flushed == IF conn.route # "transparent" /\ conn.switches /\ ~conn.framed
                        THEN rest ELSE <<>>
           kept == IF conn.framed THEN rest ELSE <<>>
<1>1. /\ UNCHANGED <<conn, sent, fin, left, taken, hand, copy, told, cut, cancelled>>
      /\ stage = "answer" /\ a # <<>>
      /\ got' = IF left["client"] THEN got
                ELSE [got EXCEPT !["client"] = got["client"] \o <<1>> \o flushed]
      /\ held' = [held EXCEPT !["server"] = kept]
      /\ \/ /\ stage' = "relay" /\ relay' = "first"
            /\ conn.route # "transparent" => conn.switches
         \/ stage' = "over" /\ relay' = relay
  BY DEF Answered, Beyond, peerVars, copyVars
<1>2. /\ Shape /\ relay = "none" /\ got["client"] = <<>>
      /\ \A p \in Peers : hand[p] = <<>> /\ copy[p] = "on"
      /\ "client" \in Peers /\ "server" \in Peers
      /\ Other("server") = "client" /\ Other("client") = "server"
  BY <1>1 DEF RelayInv, Early, Peers, Other
<1>3. PICK x \in Nat, k \in Nat, h \in Nat : Carried("server", x, k, h)
  BY <1>2 DEF RelayInv, Flow
<1>4. k = 0 /\ Len(a) = h /\ Run(a, x, h) /\ (~left["client"] => x = 0) /\ a \in Seq(Nat)
      /\ h \in Nat \ {0} /\ taken["server"] = x + h
  <2>1. Run(hand["server"], x, k) /\ Run(a, x + k, h) /\ taken["server"] = x + k + h
        /\ (~left["client"] => Run(got["client"], 0, x))
    BY <1>1, <1>2, <1>3 DEF Carried
  <2>2. k = 0 /\ (~left["client"] => x = 0)
    BY <1>2, <2>1 DEF Run
  <2>3. Len(a) = h /\ a \in Seq(Nat)
    BY <2>1 DEF Run
  <2> HIDE DEF a
  <2> QED BY <1>1, <2>1, <2>2, <2>3
<1>5. Run(rest, x + 1, h - 1) /\ h - 1 \in Nat /\ (x = 0 => a[1] = 1)
  <2>1. rest = SubSeq(a, 2, Len(a))
    BY <1>1, <1>4, TailIsSubSeq
  <2>2. Run(SubSeq(a, 2, Len(a)), x + 1, h - 1)
    <3>1. Run(SubSeq(a, 1 + 1, Len(a)), x + 1, h - 1)
      BY <1>4, RunSplit
    <3> QED BY <3>1
  <2>3. x = 0 => a[1] = 1
    BY <1>4 DEF Run, From
  <2>4. h - 1 \in Nat
    BY <1>4
  <2> HIDE DEF a
  <2> QED BY <2>1, <2>2, <2>3, <2>4
<1> HIDE DEF a, rest
<1>6. Run(<<1>>, 0, 1)
  BY DEF Run, From
<1>7. PICK f \in {0, h - 1} :
        /\ x = 0 => Run(<<>> \o <<1>> \o flushed, 0, 1 + f)
        /\ stage' # "over" => Run(kept, x + 1 + f, h - 1 - f)
        /\ f \in Nat /\ h - 1 - f \in Nat
  <2>1. CASE flushed = rest /\ ~conn.framed
    <3>1. x = 0 => Run(<<1>> \o rest, 0, 1 + (h - 1))
      BY <1>5, <1>6, RunConcat
    <3>2. <<>> \o <<1>> \o flushed = <<1>> \o rest
      BY <2>1
    <3>3. Run(kept, x + 1 + (h - 1), h - 1 - (h - 1))
      BY <1>4, <1>5, <2>1, EmptyRun
    <3> QED BY <1>5, <3>1, <3>2, <3>3
  <2>2. CASE flushed = <<>>
    <3>1. <<>> \o <<1>> \o flushed = <<1>>
      <4>1. <<1>> \in Seq(Nat)
        OBVIOUS
      <4> HIDE DEF flushed
      <4> QED BY <2>2, <4>1, ConcatEmptySeq
    <3>2. stage' # "over" => kept = rest
      <4> SUFFICES ASSUME stage' # "over", ~conn.framed PROVE rest = <<>>
        OBVIOUS
      <4>1. CASE conn.route = "transparent"
        <5>1. h <= 1
          BY <1>1, <1>4, <4>1 DEF RelayInv, Early, a
        <5> QED BY <1>4, <1>5, <5>1 DEF Run
      <4>2. CASE conn.route # "transparent"
        BY <1>1, <2>2, <4>2
      <4> QED BY <4>1, <4>2
    <3> HIDE DEF flushed, kept
    <3>3. x + 1 + 0 = x + 1 /\ h - 1 - 0 = h - 1 /\ 1 + 0 = 1
      BY <1>4, <1>5
    <3> QED BY <1>5, <1>6, <3>1, <3>2, <3>3
  <2>3. flushed = <<>> \/ (flushed = rest /\ ~conn.framed)
    OBVIOUS
  <2> QED BY <2>1, <2>2, <2>3
<1>8. rest \in Seq(Nat) /\ flushed \in Seq(Nat) /\ kept \in Seq(Nat)
  BY <1>5 DEF Run
<1> HIDE DEF flushed, kept
<1>9. /\ got'["server"] = got["server"] /\ held'["client"] = held["client"]
      /\ held'["server"] = kept
      /\ got'["client"] = IF left["client"] THEN <<>> ELSE <<>> \o <<1>> \o flushed
  BY <1>1, <1>2 DEF Shape
<1>10. Shape'
  <2>1. <<1>> \in Seq(Nat)
    OBVIOUS
  <2>2. got["client"] \o <<1>> \o flushed \in Seq(Nat)
    BY <1>2, <1>8, <2>1
  <2>3. got' \in [Peers -> Seq(Nat)] /\ held' \in [Peers -> Seq(Nat)]
    BY <1>1, <1>2, <1>8, <2>2 DEF Shape
  <2> QED BY <1>1, <1>2, <2>3 DEF Shape
<1>11. Flow("client")'
  <2>1. sent["client"] \in Nat
    BY <1>2 DEF Shape
  <2> QED BY <1>1, <1>2, <1>9, <2>1, FlowKept
<1>12. Flow("server")'
  <2>1. AtEof("server")'
    BY <1>1, <1>2 DEF AtEof
  <2>2. CASE stage' # "over"
    <3>1. Run(<<>>, x + 1 + f, 0)
      BY <1>4, <1>7, EmptyRun
    <3>2. x + 1 + f \in Nat /\ x + 1 + f + 0 + (h - 1 - f) = x + h
      BY <1>4, <1>7
    <3>3. taken["server"] <= sent["server"]
      BY <1>3 DEF Carried
    <3>4. ~left["client"] => Run(got'["client"], 0, x + 1 + f)
      BY <1>4, <1>7, <1>9
    <3>5. Carried("server", x + 1 + f, 0, h - 1 - f)'
      BY <1>1, <1>2, <1>4, <1>7, <1>9, <2>2, <3>1, <3>2, <3>3, <3>4 DEF Carried
    <3> QED BY <1>7, <2>1, <3>2, <3>5 DEF Flow
  <2>3. CASE stage' = "over"
    <3>1. CASE conn.framed
      <4>1. kept = rest /\ taken["server"] = (x + 1) + 0 + (h - 1) /\ x + 1 \in Nat
        BY <1>4, <1>5, <3>1 DEF kept
      <4>2. Run(<<>>, x + 1, 0)
        BY <4>1, EmptyRun
      <4>3. Carried("server", x + 1, 0, h - 1)'
        BY <1>1, <1>2, <1>3, <1>5, <1>9, <2>3, <4>1, <4>2 DEF Carried
      <4> QED BY <1>5, <2>1, <4>1, <4>3 DEF Flow
    <3>2. CASE ~conn.framed
      <4>1. kept = <<>> /\ taken["server"] = (x + h) + 0 + 0 /\ x + h \in Nat
        BY <1>4, <3>2 DEF kept
      <4>2. Run(<<>>, x + h, 0)
        BY <4>1, EmptyRun
      <4>3. Carried("server", x + h, 0, 0)'
        BY <1>1, <1>2, <1>3, <1>9, <2>3, <4>1, <4>2 DEF Carried
      <4> QED BY <2>1, <4>1, <4>3 DEF Flow
    <3> QED BY <3>1, <3>2
  <2> QED BY <2>2, <2>3
<1>13. Early'
  <2>1. conn.route = "direct" /\ got'["client"] = <<>> => sent["client"] <= HeadLen
    BY <1>1, <1>2 DEF RelayInv, Early
  <2> QED BY <1>1, <2>1 DEF Early
<1>14. Ordered'
  <2>1. \E n \in Nat : Run(got'["client"], 0, n)
    <3>1. CASE left["client"]
      BY <1>9, <3>1, EmptyRun
    <3>2. CASE ~left["client"]
      <4>1. 1 + f \in Nat /\ Run(got'["client"], 0, 1 + f)
        BY <1>4, <1>7, <1>9, <3>2
      <4> QED BY <4>1
    <3> QED BY <3>1, <3>2
  <2> QED BY <1>9, <2>1 DEF Ordered, RelayInv
<1> QED BY <1>1, <1>2, <1>10, <1>11, <1>12, <1>13, <1>14
        DEF RelayInv, Bounded, BridgeWaits, Peers

(* The copying goroutines.                                                 *)
LEMMA CopyReadsKeeps ==
  ASSUME RelayInv, NEW p \in Peers, CopyReads(p)
  PROVE  RelayInv'
<1>1. /\ UNCHANGED <<conn, stage, relay, sent, fin, left, copy, told, got, cut, cancelled>>
      /\ stage = "relay" /\ copy[p] = "on" /\ hand[p] = <<>> /\ Shape
  BY DEF CopyReads, peerVars, RelayInv
<1>2. PICK x \in Nat, k \in Nat, h \in Nat : Carried(p, x, k, h)
  BY DEF RelayInv, Flow
<1>3. /\ Run(hand[p], x, k) /\ Run(held[p], x + k, h) /\ taken[p] = x + k + h
      /\ Len(held[p]) = h /\ k = 0 /\ sent[p] \in Nat /\ taken[p] <= sent[p]
      /\ Other(p) \in Peers
  <2>1. Run(hand[p], x, k) /\ Run(held[p], x + k, h)
    BY <1>2 DEF Carried
  <2> QED BY <1>1, <1>2, <2>1 DEF Carried, Shape, Run, Peers, Other
<1>4. ASSUME NEW m \in Nat, NEW l \in Nat,
             Run(hand'[p], x, m), Run(held'[p], x + m, l), taken'[p] = x + m + l,
             taken'[p] <= sent[p],
             \A q \in Peers \ {p} : /\ hand'[q] = hand[q] /\ held'[q] = held[q]
                                    /\ taken'[q] = taken[q],
             held' \in [Peers -> Seq(Nat)], hand' \in [Peers -> Seq(Nat)],
             taken' \in [Peers -> Nat]
      PROVE  RelayInv'
  <2>1. Shape'
    BY <1>1, <1>4 DEF Shape
  <2>2. Carried(p, x, m, l)'
    BY <1>1, <1>2, <1>3, <1>4 DEF Carried
  <2>3. Flow(p)'
    BY <1>1, <2>2 DEF Flow, AtEof
  <2>4. \A q \in Peers \ {p} : Flow(q)'
    BY <1>1, <1>4, FlowKept DEF Shape
  <2> QED BY <1>1, <2>1, <2>3, <2>4 DEF RelayInv, Early, Ordered, Bounded, BridgeWaits
<1>5. ASSUME NEW n \in 1..Len(held[p]),
             hand' = [hand EXCEPT ![p] = SubSeq(held[p], 1, n)],
             held' = [held EXCEPT ![p] = SubSeq(held[p], n + 1, Len(held[p]))],
             taken' = taken
      PROVE  RelayInv'
  <2>1. n \in Nat /\ n <= h /\ h - n \in Nat /\ x + k = x /\ x + n + (h - n) = x + k + h
    BY <1>3
  <2>2. /\ Run(SubSeq(held[p], 1, n), x, n)
        /\ Run(SubSeq(held[p], n + 1, Len(held[p])), x + n, h - n)
    BY <1>3, <2>1, RunSplit
  <2>3. SubSeq(held[p], 1, n) \in Seq(Nat) /\ SubSeq(held[p], n + 1, Len(held[p])) \in Seq(Nat)
    BY <2>2 DEF Run
  <2>4. /\ hand'[p] = SubSeq(held[p], 1, n) /\ held'[p] = SubSeq(held[p], n + 1, Len(held[p]))
        /\ \A q \in Peers \ {p} : hand'[q] = hand[q] /\ held'[q] = held[q]
        /\ held' \in [Peers -> Seq(Nat)] /\ hand' \in [Peers -> Seq(Nat)]
    BY <1>1, <1>5, <2>3 DEF Shape
  <2> QED BY <1>1, <1>3, <1>4, <1>5, <2>1, <2>2, <2>4 DEF Shape
<1>6. ASSUME held[p] = <<>>, NEW n \in 1..(sent[p] - taken[p]),
             hand' = [hand EXCEPT ![p] = [i \in 1..n |-> taken[p] + i]],
             taken' = [taken EXCEPT ![p] = taken[p] + n],
             held' = held
      PROVE  RelayInv'
  <2>1. h = 0 /\ taken[p] = x /\ n \in Nat /\ x + n <= sent[p] /\ x + n \in Nat
    BY <1>3, <1>6
  <2>2. Run([i \in 1..n |-> taken[p] + i], x, n) /\ Run(<<>>, x + n, 0)
    BY <2>1, ReadRun, EmptyRun
  <2>3. [i \in 1..n |-> taken[p] + i] \in Seq(Nat)
    BY <2>2 DEF Run
  <2>4. /\ hand'[p] = [i \in 1..n |-> taken[p] + i] /\ taken'[p] = x + n + 0
        /\ \A q \in Peers \ {p} : hand'[q] = hand[q] /\ taken'[q] = taken[q]
        /\ taken' \in [Peers -> Nat] /\ hand' \in [Peers -> Seq(Nat)]
    BY <1>1, <1>6, <2>1, <2>3 DEF Shape
  <2>5. taken'[p] <= sent[p] /\ Run(hand'[p], x, n) /\ Run(held'[p], x + n, 0)
    BY <1>6, <2>1, <2>2, <2>4
  <2> HIDE DEF Run
  <2> QED BY <1>1, <1>4, <1>6, <2>1, <2>4, <2>5 DEF Shape
<1> QED BY <1>5, <1>6 DEF CopyReads

LEMMA CopyEndsKeeps ==
  ASSUME RelayInv, NEW p \in Peers, CopyEnds(p)
  PROVE  RelayInv'
<1>1. /\ UNCHANGED <<conn, stage, relay, sent, fin, left, taken, held, hand, got, cut, cancelled>>
      /\ stage = "relay" /\ copy[p] = "on" /\ hand[p] = <<>> /\ held[p] = <<>>
      /\ fin[p] /\ taken[p] = sent[p] /\ Shape
      /\ copy' = [copy EXCEPT ![p] = "eof"] /\ told' = Told(Other(p))
  BY DEF CopyEnds, StreamEnded, peerVars, RelayInv
<1>2. Shape'
  BY <1>1 DEF Shape, Told
<1>3. \A q \in Peers : sent[q] \in Nat
  BY <1>1 DEF Shape
<1>4. \A q \in Peers \ {p} : Flow(q)'
  <2> SUFFICES ASSUME NEW q \in Peers \ {p} PROVE Flow(q)'
    OBVIOUS
  <2>1. copy'[q] = copy[q]
    BY <1>1 DEF Shape
  <2> QED BY <1>1, <1>3, <2>1, FlowKept
<1>5. PICK x \in Nat, k \in Nat, h \in Nat : Carried(p, x, k, h)
  BY DEF RelayInv, Flow
<1>6. Carried(p, x, k, h)'
  BY <1>1, <1>5 DEF Carried
<1>7. AtEof(p)'
  <2>1. k = 0 /\ h = 0 /\ taken[p] = x + k + h
    BY <1>1, <1>5 DEF Carried, Run
  <2>2. ~left[Other(p)] => Len(got[Other(p)]) = x
    BY <1>1, <1>5 DEF Carried, Run
  <2> QED BY <1>1, <2>1, <2>2 DEF AtEof
<1>8. Flow(p)'
  BY <1>6, <1>7 DEF Flow
<1> QED BY <1>1, <1>2, <1>4, <1>8 DEF RelayInv, Early, Ordered, Bounded, BridgeWaits

LEMMA ReadTimesOutKeeps ==
  ASSUME RelayInv, ReadTimesOut
  PROVE  RelayInv'
<1>1. /\ UNCHANGED <<conn, relay, sent, fin, left, taken, held, hand, told, got, cut, cancelled>>
      /\ Shape
  BY DEF ReadTimesOut, peerVars, RelayInv
<1>2. CASE stage = "head" /\ stage' = "over" /\ UNCHANGED copy
  BY <1>1, <1>2, StageKeeps DEF Shape
<1>3. CASE stage = "relay" /\ stage' = stage /\ copy' = [copy EXCEPT !["client"] = "err"]
  <2>1. Shape'
    BY <1>1, <1>3 DEF Shape
  <2>2. /\ \A q \in Peers : sent[q] \in Nat
        /\ copy'["client"] = "err" /\ copy'["server"] = copy["server"]
    BY <1>1, <1>3 DEF Shape, Peers
  <2>3. Flow("server")'
    BY <1>1, <1>3, <2>2, FlowKept DEF Peers
  <2>4. PICK x \in Nat, k \in Nat, h \in Nat : Carried("client", x, k, h)
    BY DEF RelayInv, Flow, Peers
  <2>5. Carried("client", x, k, h)'
    BY <1>1, <1>3, <2>4 DEF Carried
  <2>6. Flow("client")'
    BY <2>2, <2>5 DEF Flow, AtEof
  <2> QED BY <1>1, <1>3, <2>1, <2>3, <2>6
          DEF RelayInv, Early, Ordered, Bounded, BridgeWaits, Peers
<1> QED BY <1>2, <1>3 DEF ReadTimesOut

LEMMA CopyWritesKeeps ==
  ASSUME RelayInv, NEW p \in Peers, CopyWrites(p)
  PROVE  RelayInv'
<1> DEFINE q == Other(p)
<1>1. /\ UNCHANGED <<conn, stage, relay, sent, fin, left, taken, held, cut, cancelled>>
      /\ stage = "relay" /\ hand[p] # <<>> /\ Shape /\ hand' = [hand EXCEPT ![p] = <<>>]
      /\ \/ /\ got' = IF left[q] THEN got ELSE [got EXCEPT ![q] = got[q] \o hand[p]]
            /\ UNCHANGED <<copy, told>>
         \/ /\ left[q] /\ UNCHANGED got
            /\ copy' = [copy EXCEPT ![p] = "err"] /\ told' = Told(q)
  BY DEF CopyWrites, peerVars, RelayInv
<1>2. q \in Peers /\ q # p /\ Peers = {p, q} /\ Other(q) = p
  BY DEF Peers, Other
<1> HIDE DEF q
<1>3. PICK x \in Nat, k \in Nat, h \in Nat : Carried(p, x, k, h)
  BY DEF RelayInv, Flow
<1>4. /\ Run(hand[p], x, k) /\ Run(held[p], x + k, h) /\ taken[p] = x + k + h
      /\ taken[p] <= sent[p] /\ (~left[q] => Run(got[q], 0, x))
      /\ x + k \in Nat /\ x + k + 0 + h = x + k + h /\ sent[p] \in Nat /\ sent[q] \in Nat
  <2>1. sent[p] \in Nat /\ sent[q] \in Nat
    BY <1>1, <1>2 DEF Shape
  <2> QED BY <1>1, <1>3, <2>1 DEF Carried, q
<1>5. ~left[q] => Run(got[q] \o hand[p], 0, x + k)
  <2>1. 0 + x = x
    OBVIOUS
  <2> QED BY <1>4, <2>1, RunConcat
<1>6. /\ hand'[p] = <<>> /\ hand'[q] = hand[q] /\ copy'[q] = copy[q]
      /\ got'[p] = got[p] /\ got'[q] = IF left[q] THEN got[q] ELSE got[q] \o hand[p]
  <2>1. hand'[p] = <<>> /\ hand'[q] = hand[q]
    BY <1>1, <1>2 DEF Shape
  <2>2. copy'[q] = copy[q]
    BY <1>1, <1>2 DEF Shape
  <2>3. got'[p] = got[p] /\ got'[q] = IF left[q] THEN got[q] ELSE got[q] \o hand[p]
    BY <1>1, <1>2 DEF Shape
  <2> QED BY <2>1, <2>2, <2>3
<1>7. Shape'
  <2>1. got' \in [Peers -> Seq(Nat)]
    <3>1. got \in [Peers -> Seq(Nat)] /\ hand \in [Peers -> Seq(Nat)]
      BY <1>1 DEF Shape
    <3>2. got[q] \o hand[p] \in Seq(Nat)
      BY <1>2, <3>1
    <3> QED BY <1>1, <1>2, <3>1, <3>2
  <2>2. hand' \in [Peers -> Seq(Nat)]
    BY <1>1 DEF Shape
  <2>3. copy' \in [Peers -> {"on", "eof", "err"}]
    BY <1>1 DEF Shape
  <2>4. Told(q) \in [Peers -> BOOLEAN] /\ told \in [Peers -> BOOLEAN]
    BY <1>1, <1>2 DEF Shape, Told
  <2>5. told' \in [Peers -> BOOLEAN]
    <3> HIDE DEF Told
    <3> QED BY <1>1, <2>4
  <2> QED BY <1>1, <2>1, <2>2, <2>3, <2>5 DEF Shape
<1>8. Flow(q)'
  BY <1>1, <1>2, <1>4, <1>6, FlowKept
<1>9. Carried(p, x + k, 0, h)'
  BY <1>1, <1>4, <1>5, <1>6, EmptyRun DEF Carried, q
<1>10. AtEof(p)'
  <2>1. copy[p] # "eof"
    BY <1>1 DEF RelayInv, Flow, AtEof
  <2> QED BY <1>1, <2>1 DEF AtEof, Shape
<1>11. Flow(p)'
  BY <1>4, <1>9, <1>10 DEF Flow
<1>12. Ordered'
  <2>1. \A z \in Peers : \E n \in Nat : Run(got[z], 0, n)
    BY <1>1 DEF RelayInv, Ordered, Peers
  <2>2. \A z \in Peers : \E n \in Nat : Run(got'[z], 0, n)
    BY <1>2, <1>4, <1>5, <1>6, <2>1
  <2> QED BY <2>2 DEF Ordered, Peers
<1>13. Early' /\ Bounded' /\ BridgeWaits'
  <2>1. conn.route = "direct" /\ got'["client"] = <<>> => got["client"] = <<>>
    <3>1. got'[q] = <<>> => got[q] = <<>>
      <4>1. got[q] \in Seq(Nat) /\ hand[p] \in Seq(Nat)
        BY <1>1, <1>2 DEF Shape
      <4>2. \A s, t \in Seq(Nat) : s \o t = <<>> => s = <<>>
        OBVIOUS
      <4> QED BY <1>6, <4>1, <4>2
    <3> QED BY <1>2, <1>6, <3>1 DEF Peers
  <2> QED BY <1>1, <2>1 DEF RelayInv, Early, Bounded, BridgeWaits
<1> QED BY <1>1, <1>2, <1>7, <1>8, <1>11, <1>12, <1>13 DEF RelayInv

LEMMA RelayStep == RelayInv /\ [RelayNext]_relayVars => RelayInv'
<1> SUFFICES ASSUME RelayInv, [RelayNext]_relayVars PROVE RelayInv'
  OBVIOUS
<1>1. CASE UNCHANGED relayVars
  <2>1. UNCHANGED <<conn, stage, relay, sent, fin, left, taken, held, hand, copy, told, got, cut,
                    cancelled>>
    BY <1>1 DEF relayVars, peerVars, copyVars
  <2>2. Shape' /\ Early' /\ Ordered' /\ Bounded' /\ BridgeWaits'
    BY <2>1 DEF RelayInv, Shape, Early, Ordered, Bounded, BridgeWaits
  <2>3. \A p \in Peers : Flow(p)' /\ (left[p] => fin[p])'
    BY <2>1 DEF RelayInv, Flow, Carried, AtEof
  <2> QED BY <2>2, <2>3 DEF RelayInv
<1>2. CASE RelayReturns
  <2>1. /\ UNCHANGED <<conn, relay, sent, fin, left, taken, held, hand, copy, told, got, cut,
                       cancelled>>
        /\ stage = "relay" /\ stage' = "over" /\ CopyDone /\ Shape
    BY <1>2 DEF RelayReturns, peerVars, copyVars, RelayInv
  <2> QED BY <2>1, StageKeeps DEF Shape
<1>3. CASE ProxyStep /\ ~RelayReturns
  BY <1>3, ReadAheadKeeps, BeginningKeeps, AnsweredKeeps, CopyReadsKeeps, CopyEndsKeeps,
     CopyWritesKeeps DEF ProxyStep
<1> QED BY <1>1, <1>2, <1>3, PeerActs, ReadTimesOutKeeps DEF RelayNext

LEMMA RelayInvariant == RelaySpec => []RelayInv
BY RelayInitInv, RelayStep, PTL DEF RelaySpec

(* Every variable of a relayed connection has its type: no buffer ever     *)
(* holds a unit nobody sent.                                               *)
THEOREM RelayTypeCorrect == RelaySpec => []RelayTypeOK
<1>1. ASSUME RelayInv, NEW p \in Peers PROVE held[p] \in Units /\ hand[p] \in Units
  <2>1. PICK x \in Nat, k \in Nat, h \in Nat : Carried(p, x, k, h)
    BY <1>1 DEF RelayInv, Flow
  <2> DEFINE b == ClientLen + ServerLen
  <2>2. b \in Nat /\ sent[p] <= b /\ sent[p] \in Nat
    BY <1>1, RelayAssumption DEF RelayInv, Shape, Bounded, Peers
  <2>3. Run(hand[p], x, k) /\ Run(held[p], x + k, h) /\ x + k \in Nat
        /\ x + k <= b /\ (x + k) + h <= b
    BY <2>1, <2>2 DEF Carried
  <2> HIDE DEF b
  <2>4. hand[p] \in Seq(1 .. b) /\ held[p] \in Seq(1 .. b)
    BY <2>2, <2>3, RunBounded
  <2> QED BY <2>4 DEF Units, b
<1>2. RelayInv => RelayTypeOK
  <2> SUFFICES ASSUME RelayInv PROVE RelayTypeOK
    OBVIOUS
  <2>1. Shape
    BY DEF RelayInv
  <2>2. held \in [Peers -> Units] /\ hand \in [Peers -> Units]
    BY <1>1, <2>1 DEF Shape
  <2> QED BY <2>1, <2>2 DEF Shape, RelayTypeOK
<1> QED BY <1>2, RelayInvariant, PTL

(* What a peer has received is what the other sent, from the start and     *)
(* without a gap, over every way in and through every buffer on it, or the *)
(* bad gateway's answer alone; a direction that came to its end has        *)
(* carried everything, and the bridge waits for both.                      *)
THEOREM RelayAlwaysFaithful == RelaySpec => []RelayFaithful
<1>1. RelayInv => RelayFaithful
  <2> SUFFICES ASSUME RelayInv PROVE RelayFaithful
    OBVIOUS
  <2>1. \A s : (\E n \in Nat : Run(s, 0, n)) => InOrder(s)
    <3> SUFFICES ASSUME NEW s, NEW n \in Nat, Run(s, 0, n) PROVE InOrder(s)
      OBVIOUS
    <3> QED BY DEF Run, From, InOrder
  <2>2. InOrder(got["server"]) /\ (got["client"] = <<0>> \/ InOrder(got["client"]))
    BY <2>1 DEF RelayInv, Ordered
  <2>3. \A p \in Peers :
          copy[p] = "eof" /\ ~left[Other(p)] => Len(got[Other(p)]) = sent[p]
    BY DEF RelayInv, Flow, AtEof
  <2> QED BY <2>2, <2>3 DEF RelayFaithful, RelayInv, BridgeWaits
<1> QED BY <1>1, RelayInvariant, PTL

=============================================================================
