--------------------------- MODULE UpstreamWriter ---------------------------
(***************************************************************************)
(* The connection to the upstream has up to three writers: the             *)
(* client-to-server pump, the keepalive goroutine (both behind             *)
(* sessionLockedWriter), and the server-to-client pump when it sends a     *)
(* recovery retry.  All three go through lockedWriteConn.  Both locks are  *)
(* held for one Write, and wscompact.WriteFrameWithOptions emits a frame   *)
(* in two Writes, header and payload; a frame forwarded raw is one Write.  *)
(* The upstream's frame parser is the environment.                         *)
(***************************************************************************)
EXTENDS Integers, Sequences

CONSTANTS
  MaxJobs,   \* bound: messages each writer emits
  MaxFrags,  \* bound: frames the pump writes for one message
  Capacity,  \* Writes the connection takes before it blocks
  Crews      \* the sets of writers to consider

Writers == {"pump", "keepalive", "recovery"}
None == "none"

ASSUME WriterAssumption ==
  /\ MaxJobs \in [Writers -> Nat]
  /\ MaxFrags \in Nat \ {0}
  /\ Capacity \in Nat \ {0}
  /\ Crews \subseteq SUBSET Writers

(* Frame k of the n that carry job number job of writer w.                 *)
WireFrame == [w : Writers, job : Nat, k : Nat, n : Nat]
Part == {"whole", "header", "payload"}
Chunk == [frame : WireFrame, part : Part]

VARIABLES
  crew,     \* the writers this session has
  queue,    \* per writer: the Writes left of the message it is emitting
  job,      \* per writer: messages it has begun
  at,       \* per writer: "idle", holding the "outer" lock, or the "inner"
  outer,    \* holder of sessionLockedWriter.mu
  inner,    \* holder of lockedWriteConn.mu
  stopped,  \* writers whose goroutine has returned
  ended,    \* the session's context is cancelled
  gone,     \* the upstream closed the connection
  unread,   \* Writes the upstream has not taken off the connection
  peer      \* the upstream's parser

writerVars == <<crew, queue, job, at, outer, inner, stopped, ended, gone,
                unread, peer>>
lockVars == <<at, outer, inner>>
ioVars == <<gone, unread, peer>>

WriterInit ==
  /\ crew \in Crews
  /\ queue = [w \in Writers |-> << >>]
  /\ job = [w \in Writers |-> 0]
  /\ at = [w \in Writers |-> "idle"]
  /\ outer = None
  /\ inner = None
  /\ stopped = {}
  /\ ended = FALSE
  /\ gone = FALSE
  /\ unread = 0
  /\ peer = [header |-> << >>, w |-> None, job |-> 0, k |-> 0,
             ok |-> TRUE, arrived |-> [w \in Writers |-> << >>]]

-----------------------------------------------------------------------------
(* What a writer emits.                                                    *)

FrameOf(w, j, k, n) == [w |-> w, job |-> j, k |-> k, n |-> n]
Raw(f) == <<[frame |-> f, part |-> "whole"]>>

(* Mutant: the payload is written first.                                   *)
PayloadFirst(f) == <<[frame |-> f, part |-> "payload"],
                     [frame |-> f, part |-> "header"]>>

(* WriteFrameWithOptions.                                                  *)
Encoded(f) == <<[frame |-> f, part |-> "header"],
                [frame |-> f, part |-> "payload"]>>

(* forwardFrames and writeCompressedDataFrames: frame after frame.         *)
ForwardFrames(w, j, n) ==
  [i \in 1 .. n |-> Raw(FrameOf(w, j, i, n))[1]]
WriteDataFrames(w, j, n) ==
  [i \in 1 .. 2 * n |-> Encoded(FrameOf(w, j, (i + 1) \div 2, n))
                          [IF i % 2 = 1 THEN 1 ELSE 2]]

Begin(w, chunks) ==
  /\ w \in crew \ stopped
  /\ queue[w] = << >>
  /\ job[w] < MaxJobs[w]
  /\ job' = [job EXCEPT ![w] = @ + 1]
  /\ queue' = [queue EXCEPT ![w] = chunks]
  /\ UNCHANGED <<crew, lockVars, stopped, ended, ioVars>>

PumpForwards == \E n \in 1 .. MaxFrags :
                  Begin("pump", ForwardFrames("pump", job["pump"] + 1, n))

PumpReencodes == \E n \in 1 .. MaxFrags :
                   Begin("pump", WriteDataFrames("pump", job["pump"] + 1, n))

(* runUpstreamKeepalive: the timer fired, writeMaskedWSPingFrame.          *)
Ping == Begin("keepalive",
              Encoded(FrameOf("keepalive", job["keepalive"] + 1, 1, 1)))

(* runUpstreamKeepalive: ctx.Done().                                       *)
KeepaliveReturns ==
  /\ ended
  /\ "keepalive" \in crew \ stopped
  /\ queue["keepalive"] = << >>
  /\ stopped' = stopped \cup {"keepalive"}
  /\ UNCHANGED <<crew, queue, job, lockVars, ended, ioVars>>

(* tryWSSRecoveryRetry: writeMaskedWSTextFrame on the same connection.     *)
Retry == Begin("recovery",
               Encoded(FrameOf("recovery", job["recovery"] + 1, 1, 1)))

-----------------------------------------------------------------------------
(* One Write: lock, write, unlock.                                         *)

(* sessionLockedWriter.Write, only for the two writers behind it and only  *)
(* when the session has a keepalive.                                       *)
TwoLocks(w) == w # "recovery" /\ "keepalive" \in crew

LockOuter(w) ==
  /\ TwoLocks(w)
  /\ queue[w] # << >>
  /\ at[w] = "idle"
  /\ outer = None
  /\ outer' = w
  /\ at' = [at EXCEPT ![w] = "outer"]
  /\ UNCHANGED <<crew, queue, job, inner, stopped, ended, ioVars>>

(* Mutant: lockedWriteConn.Write does not lock.                            *)
EnterInner(w) ==
  /\ queue[w] # << >>
  /\ at[w] = IF TwoLocks(w) THEN "outer" ELSE "idle"
  /\ inner' = w
  /\ at' = [at EXCEPT ![w] = "inner"]
  /\ UNCHANGED <<crew, queue, job, outer, stopped, ended, ioVars>>

LockInner(w) ==
  /\ queue[w] # << >>
  /\ at[w] = IF TwoLocks(w) THEN "outer" ELSE "idle"
  /\ inner = None
  /\ inner' = w
  /\ at' = [at EXCEPT ![w] = "inner"]
  /\ UNCHANGED <<crew, queue, job, outer, stopped, ended, ioVars>>

(* Mutant: sessionLockedWriter.Write returns with its lock held.           *)
UnlockInner(w) == /\ at' = [at EXCEPT ![w] = "idle"]
                  /\ inner' = None
                  /\ UNCHANGED outer

Unlock(w) == /\ at' = [at EXCEPT ![w] = "idle"]
             /\ inner' = None
             /\ outer' = IF outer = w THEN None ELSE outer

(* The upstream's parser on one more Write.  Within a frame only its       *)
(* payload may follow; within a message, its next frame or a control frame.*)
Broken(p) == [p EXCEPT !.ok = FALSE]

Arrived(p, f) == [p.arrived EXCEPT ![f.w] = Append(@, f.job)]

FrameArrives(p, f) ==
  LET q == [p EXCEPT !.header = << >>]
      done == [q EXCEPT !.w = None, !.job = 0, !.k = 0, !.arrived = Arrived(p, f)]
      part == [q EXCEPT !.w = f.w, !.job = f.job, !.k = f.k]
      control == f.w = "keepalive"
      expected == \/ p.w = None /\ f.k = 1
                  \/ p.w = f.w /\ p.job = f.job /\ p.k + 1 = f.k
  IN  CASE control -> [q EXCEPT !.arrived = Arrived(p, f)]
        [] ~control /\ expected /\ f.k = f.n -> done
        [] ~control /\ expected /\ f.k < f.n -> part
        [] OTHER -> Broken(p)

Parsed(p, c) ==
  CASE ~p.ok -> p
    [] p.ok /\ p.header # << >> ->
         IF c.part = "payload" /\ c.frame = p.header[1]
           THEN FrameArrives(p, c.frame) ELSE Broken(p)
    [] p.ok /\ p.header = << >> /\ c.part = "header" ->
         [p EXCEPT !.header = <<c.frame>>]
    [] p.ok /\ p.header = << >> /\ c.part = "whole" -> FrameArrives(p, c.frame)
    [] OTHER -> Broken(p)

(* Mutant: what was written is written again.                              *)
ConnWriteRepeats(w) ==
  /\ at[w] = "inner"
  /\ ~gone
  /\ unread < Capacity
  /\ unread' = unread + 1
  /\ peer' = Parsed(peer, Head(queue[w]))
  /\ Unlock(w)
  /\ UNCHANGED <<crew, queue, job, stopped, ended, gone>>

ConnWrite(w) ==
  /\ at[w] = "inner"
  /\ ~gone
  /\ unread < Capacity
  /\ unread' = unread + 1
  /\ peer' = Parsed(peer, Head(queue[w]))
  /\ queue' = [queue EXCEPT ![w] = Tail(@)]
  /\ Unlock(w)
  /\ UNCHANGED <<crew, job, stopped, ended, gone>>

(* A failed Write ends the pump and the keepalive; the session ends with   *)
(* the pump.  A failed retry only reports failure.                         *)
WriteFails(w) ==
  /\ at[w] = "inner"
  /\ gone
  /\ queue' = [queue EXCEPT ![w] = << >>]
  /\ stopped' = IF w = "recovery" THEN stopped ELSE stopped \cup {w}
  /\ ended' = (ended \/ w = "pump")
  /\ Unlock(w)
  /\ UNCHANGED <<crew, job, ioVars>>

-----------------------------------------------------------------------------
(* The environment.                                                        *)

UpstreamReads == /\ unread > 0
                 /\ unread' = unread - 1
                 /\ UNCHANGED <<crew, queue, job, lockVars, stopped, ended,
                                gone, peer>>

UpstreamCloses == /\ ~gone
                  /\ gone' = TRUE
                  /\ UNCHANGED <<crew, queue, job, lockVars, stopped, ended,
                                 unread, peer>>

SessionEnds == /\ ~ended
               /\ ended' = TRUE
               /\ UNCHANGED <<crew, queue, job, lockVars, stopped, ioVars>>

Lock(w) == LockOuter(w) \/ LockInner(w)
Write(w) == ConnWrite(w) \/ WriteFails(w)

WriterNext ==
  \/ PumpForwards \/ PumpReencodes
  \/ Ping \/ KeepaliveReturns
  \/ Retry
  \/ \E w \in Writers : Lock(w) \/ Write(w)
  \/ UpstreamReads \/ UpstreamCloses \/ SessionEnds

WriterSpec == WriterInit /\ [][WriterNext]_writerVars

(* A goroutine that can take a lock or write does so, and the upstream     *)
(* keeps reading.  (sync.Mutex hands a starved goroutine the lock. With    *)
(* finitely many messages a behaviour cannot go on without one of these    *)
(* steps for ever, so fairness for all is fairness for each.)              *)
WriterProceeds == UpstreamReads \/ \E w \in Writers : Lock(w) \/ Write(w)
WriterFairness == WF_writerVars(WriterProceeds)

-----------------------------------------------------------------------------
(* Properties.                                                             *)

(* Every variable holds a value of the type the code gives it.             *)
WriterTypeOK ==
  /\ crew \in Crews
  /\ queue \in [Writers -> Seq(Chunk)]
  /\ job \in [Writers -> Nat]
  /\ at \in [Writers -> {"idle", "outer", "inner"}]
  /\ outer \in Writers \cup {None}
  /\ inner \in Writers \cup {None}
  /\ \A w \in Writers : at[w] = "inner" <=> inner = w
  /\ stopped \subseteq Writers
  /\ ended \in BOOLEAN
  /\ gone \in BOOLEAN
  /\ unread \in 0 .. Capacity
  /\ peer.header \in Seq(WireFrame)
  /\ peer.w \in Writers \cup {None}
  /\ peer.ok \in BOOLEAN
  /\ peer.arrived \in [Writers -> Seq(Nat)]

(* The upstream sees each writer's messages whole, in order and once, up   *)
(* to the point, if any, where the stream breaks.                          *)
Stream == INSTANCE FrameStream WITH arrived <- peer.arrived,
                                    broken <- ~peer.ok
ImplementsFrameStream == Stream!StreamSpec

(* A writer that has emitted part of a message and not all of it.          *)
Midway(w) == /\ queue[w] # << >>
             /\ \/ Head(queue[w]).part = "payload"
                \/ Head(queue[w]).frame.k > 1

(* Locking each Write is enough for every stream in which no two writers   *)
(* overlap: the stream breaks only at a Write issued while another writer  *)
(* is in the middle of a frame or of a fragmented message.                 *)
BreaksOnlyOnOverlap ==
  [][peer.ok /\ ~peer'.ok =>
       \E w, v \in Writers : w # v /\ queue'[w] # queue[w] /\ Midway(v)]_writerVars

(* Nested locks and a connection that blocks: as long as the upstream      *)
(* reads or closes, no writer waits for ever for the other two.            *)
WritesFinish == \A w \in Writers : queue[w] # << >> ~> queue[w] = << >>

(* What the comment on UpstreamKeepaliveInterval says: keepalive pings are *)
(* transport hygiene on the upstream connection.  They, and retries, leave *)
(* the stream of frames intact.                                            *)
FramesIntact == peer.ok
=============================================================================
