---------------------------- MODULE ProxyShutdown ----------------------------
(***************************************************************************)
(* The end of the proxy process: Shutdown                                  *)
(* (src/internal/proxy/handler_shutdown.go), the analytics queue with its  *)
(* senders (proxy.go), its worker and the periodic flush                   *)
(* (handler_workers.go), and the log the snapshots go to                   *)
(* (src/internal/analytics/persistence.go).                                *)
(*                                                                         *)
(* Each request sends one analytics event, named after it. An HTTP request *)
(* is one that server.Shutdown waits for; a WebSocket session has left the *)
(* server's care and may send its event at any time. What the code does    *)
(* with a recorded event is left out, and so is the cache janitor, which   *)
(* only waits for the quit channel.                                        *)
(***************************************************************************)
EXTENDS Integers, SequencesExt

CONSTANTS
  Http,       \* the HTTP requests
  Session,    \* the WebSocket sessions
  Proof,      \* the requests whose event has proof priority
  Caller,     \* the callers of Shutdown, each with a deadline of its own
  NoOne,      \* no caller; no event
  QueueCap,   \* the capacity of analyticsQueue: 256 in the code
  Loads       \* bounds: the loads to consider

Reporter == Http \cup Session

(* A load: which requests come, who calls Shutdown, how many flushes.      *)
Load == [requests : SUBSET Reporter, callers : SUBSET Caller, flushes : Nat]

ASSUME ShutdownAssumption ==
  /\ IsFiniteSet(Http) /\ IsFiniteSet(Session) /\ Http \cap Session = {}
  /\ Proof \subseteq Reporter
  /\ NoOne \notin Caller /\ NoOne \notin Reporter
  /\ QueueCap \in Nat \ {0} /\ Loads \subseteq Load

VARIABLES
  load,       \* never changes
  sender,     \* per request: where it is in trySendAnalytics
  queued,     \* analyticsQueue
  carried,    \* per request, and for the worker: the event it has taken
  counted,    \* analyticsEnqueued, the events recorded and those dropped
  quit,       \* shutdownCh is closed
  worker,     \* where the analytics worker is
  flusher,    \* the periodic flush: where it is, its snapshot, its flushes
  log,        \* the snapshots in the file
  caller,     \* per caller: where it is and what it returned
  stop,       \* sync.Once and doShutdown: its caller, deadline, findings
  gossip      \* history: whose second try met a rival, what sessions took

shutdownVars == <<load, sender, queued, carried, counted, quit, worker, flusher,
                  log, caller, stop, gossip>>

SenderAt == {"idle", "try", "drain", "record", "retry", "count", "done"}
WorkerAt == {"loop", "record", "drain", "drainRecord", "done"}
FlusherAt == {"loop", "write", "done"}
CallerAt == {"idle", "waits", "server", "close", "workers", "snapshot", "write",
             "returned"}
Taker == Reporter \cup {NoOne}    \* NoOne stands for the worker
Event == Reporter \cup {NoOne}
Snapshot == SUBSET Reporter

ShutdownTypeOK ==
  /\ load \in Loads
  /\ sender \in [Reporter -> SenderAt]
  /\ queued \in Seq(Reporter) /\ Len(queued) <= QueueCap
  /\ carried \in [Taker -> Event]
  /\ counted \in [enqueued : Nat, recorded : SUBSET Reporter, dropped : SUBSET Reporter]
  /\ quit \in BOOLEAN
  /\ worker \in WorkerAt
  /\ flusher \in [at : FlusherAt, snapshot : Snapshot, flushes : Nat]
  /\ log \in Seq(Snapshot)
  /\ caller \in [Caller -> [at : CallerAt, result : {"none", "nil", "timeout"}]]
  /\ stop \in [by : Caller \cup {NoOne}, expired : BOOLEAN, drained : BOOLEAN,
               final : Snapshot, saved : BOOLEAN]
  /\ gossip \in [contended : SUBSET Reporter, strayed : SUBSET Reporter]

ShutdownInit ==
  /\ load \in Loads
  /\ sender = [r \in Reporter |-> "idle"]
  /\ queued = <<>>
  /\ carried = [t \in Taker |-> NoOne]
  /\ counted = [enqueued |-> 0, recorded |-> {}, dropped |-> {}]
  /\ quit = FALSE
  /\ worker = "loop"
  /\ flusher = [at |-> "loop", snapshot |-> {}, flushes |-> 0]
  /\ log = <<>>
  /\ caller = [c \in Caller |-> [at |-> "idle", result |-> "none"]]
  /\ stop = [by |-> NoOne, expired |-> FALSE, drained |-> FALSE,
           final |-> {}, saved |-> FALSE]
  /\ gossip = [contended |-> {}, strayed |-> {}]

-----------------------------------------------------------------------------
(* The senders: trySendAnalytics.                                          *)
Advances(r, from, to) == sender[r] = from /\ sender' = [sender EXCEPT ![r] = to]
others == <<load, quit, worker, flusher, log, caller, stop>>
Full == Len(queued) >= QueueCap

(* The server accepts no request once it has been shut down.               *)
BeginRequest(r) ==
  /\ r \in load.requests
  /\ r \in Http => stop.by = NoOne
  /\ Advances(r, "idle", "try")
  /\ UNCHANGED <<queued, carried, counted, gossip, others>>

Enqueue(r) ==
  /\ sender[r] \in {"try", "retry"} /\ ~Full
  /\ sender' = [sender EXCEPT ![r] = "count"]
  /\ queued' = Append(queued, r)
  /\ gossip' = [gossip EXCEPT !.contended =
                  @ \cup {q \in Reporter \ {r} : sender[q] \in {"record", "retry"}}]
  /\ UNCHANGED <<carried, counted, others>>

CountEnqueued(r) ==
  /\ Advances(r, "count", "done")
  /\ counted' = [counted EXCEPT !.enqueued = @ + 1]
  /\ UNCHANGED <<queued, carried, gossip, others>>

(* A full queue: an event of proof priority makes room for itself.         *)
FindFull(r) ==
  /\ Full
  /\ r \in Proof
  /\ Advances(r, "try", "drain")
  /\ UNCHANGED <<queued, carried, counted, gossip, others>>

(* A mutant: no room is made.                                              *)
DrainNone(r) ==
  Advances(r, "drain", "retry") /\ UNCHANGED <<queued, carried, counted, gossip, others>>

DrainOne(r) ==
  /\ IF queued = <<>>
     THEN /\ Advances(r, "drain", "retry")
          /\ UNCHANGED <<queued, carried, gossip>>
     ELSE /\ Advances(r, "drain", "record")
          /\ queued' = Tail(queued)
          /\ carried' = [carried EXCEPT ![r] = Head(queued)]
          /\ gossip' = IF r \in Session
                       THEN [gossip EXCEPT !.strayed = @ \cup {Head(queued)}] ELSE gossip
  /\ UNCHANGED <<counted, others>>

RecordHeld(t) ==
  /\ counted' = [counted EXCEPT !.recorded = @ \cup {carried[t]}]
  /\ carried' = [carried EXCEPT ![t] = NoOne]

(* A mutant: the event that makes room is thrown away.                     *)
DiscardDrained(r) ==
  /\ Advances(r, "record", "retry")
  /\ carried' = [carried EXCEPT ![r] = NoOne]
  /\ UNCHANGED <<queued, counted, gossip, others>>

RecordDrained(r) ==
  /\ Advances(r, "record", "retry")
  /\ RecordHeld(r)
  /\ UNCHANGED <<queued, gossip, others>>

Drop(r) ==
  /\ Full
  /\ \/ Advances(r, "retry", "done")
     \/ Advances(r, "try", "done") /\ r \notin Proof
  /\ counted' = [counted EXCEPT !.dropped = @ \cup {r}]
  /\ UNCHANGED <<queued, carried, gossip, others>>

-----------------------------------------------------------------------------
(* The worker: its select picks either case when both are ready.           *)
WorkerTakes ==
  /\ worker \in {"loop", "drain"} /\ queued # <<>>
  /\ worker' = IF worker = "loop" THEN "record" ELSE "drainRecord"
  /\ carried' = [carried EXCEPT ![NoOne] = Head(queued)]
  /\ queued' = Tail(queued)
  /\ UNCHANGED <<load, sender, counted, quit, flusher, log, caller, stop, gossip>>

WorkerRecords ==
  /\ worker \in {"record", "drainRecord"}
  /\ worker' = IF worker = "record" THEN "loop" ELSE "drain"
  /\ RecordHeld(NoOne)
  /\ UNCHANGED <<load, sender, queued, quit, flusher, log, caller, stop, gossip>>

(* A mutant: the worker leaves what is in the queue.                       *)
WorkerQuitsAtOnce ==
  /\ worker = "loop" /\ quit /\ worker' = "done"
  /\ UNCHANGED <<load, sender, queued, carried, counted, quit, flusher, log, caller,
                 stop, gossip>>

WorkerQuits ==
  /\ \/ worker = "loop" /\ quit /\ worker' = "drain"
     \/ worker = "drain" /\ queued = <<>> /\ worker' = "done"
  /\ UNCHANGED <<load, sender, queued, carried, counted, quit, flusher, log, caller,
                 stop, gossip>>

(* The periodic flush: a snapshot, then a line, which may fail.            *)
FlushBegins ==
  /\ flusher.at = "loop" /\ flusher.flushes < load.flushes
  /\ flusher' = [at |-> "write", snapshot |-> counted.recorded,
                 flushes |-> flusher.flushes + 1]
  /\ UNCHANGED <<load, sender, queued, carried, counted, quit, worker, log, caller,
                 stop, gossip>>

FlushWrites ==
  /\ flusher.at = "write"
  /\ log' \in {log, Append(log, flusher.snapshot)}
  /\ flusher' = [flusher EXCEPT !.at = "loop", !.snapshot = {}]
  /\ UNCHANGED <<load, sender, queued, carried, counted, quit, worker, caller, stop,
                 gossip>>

FlusherQuits ==
  /\ flusher.at = "loop" /\ quit
  /\ flusher' = [flusher EXCEPT !.at = "done"]
  /\ UNCHANGED <<load, sender, queued, carried, counted, quit, worker, log, caller,
                 stop, gossip>>

-----------------------------------------------------------------------------
(* Shutdown. The first caller does the work under sync.Once; the others    *)
(* wait for it, whatever their deadlines, and return nil.                  *)
CallerGoes(c, from, to) ==
  caller[c].at = from /\ caller' = [caller EXCEPT ![c].at = to]
rest == <<load, sender, queued, carried, counted, worker, flusher, gossip>>

CallShutdown(c) ==
  /\ c \in load.callers
  /\ CallerGoes(c, "idle", IF stop.by = NoOne THEN "server" ELSE "waits")
  /\ stop' = IF stop.by = NoOne THEN [stop EXCEPT !.by = c] ELSE stop
  /\ UNCHANGED <<quit, log, rest>>

DeadlinePasses ==
  /\ stop.by # NoOne /\ ~stop.expired
  /\ caller[stop.by].at \in {"server", "close", "workers"}
  /\ stop' = [stop EXCEPT !.expired = TRUE]
  /\ UNCHANGED <<quit, log, caller, rest>>

(* server.Shutdown returns when no request is being served, or with an     *)
(* error, which is only logged, at the deadline.                           *)
ServerStops(c) ==
  /\ CallerGoes(c, "server", "close")
  /\ \/ /\ \A r \in Http : sender[r] \in {"idle", "done"}
        /\ stop' = [stop EXCEPT !.drained = TRUE]
     \/ /\ stop.expired
        /\ UNCHANGED stop
  /\ UNCHANGED <<quit, log, rest>>

CloseQuit(c) ==
  /\ CallerGoes(c, "close", "workers")
  /\ quit' = TRUE
  /\ UNCHANGED <<log, stop, rest>>

(* A mutant: the deadline is not looked at.                                *)
WaitForever(c) ==
  /\ caller[c].at = "workers"
  /\ worker = "done" /\ flusher.at = "done"
  /\ caller' = [caller EXCEPT ![c].at = "snapshot", ![c].result = "nil"]
  /\ UNCHANGED <<quit, log, stop, rest>>

WaitForWorkers(c) ==
  /\ caller[c].at = "workers"
  /\ \/ /\ worker = "done" /\ flusher.at = "done"
        /\ caller' = [caller EXCEPT ![c].at = "snapshot", ![c].result = "nil"]
     \/ /\ stop.expired
        /\ caller' = [caller EXCEPT ![c].at = "snapshot", ![c].result = "timeout"]
  /\ UNCHANGED <<quit, log, stop, rest>>

TakeFinal(c) ==
  /\ CallerGoes(c, "snapshot", "write")
  /\ stop' = [stop EXCEPT !.final = counted.recorded]
  /\ UNCHANGED <<quit, log, rest>>

(* The last line may fail to be written, which is only logged.             *)
WriteFinal(c) ==
  /\ CallerGoes(c, "write", "returned")
  /\ \/ /\ log' = Append(log, stop.final)
        /\ stop' = [stop EXCEPT !.saved = TRUE]
     \/ UNCHANGED <<log, stop>>
  /\ UNCHANGED <<quit, rest>>

WaiterReturns(c) ==
  /\ caller[c].at = "waits"
  /\ stop.by # NoOne /\ caller[stop.by].at = "returned"
  /\ caller' = [caller EXCEPT ![c].at = "returned", ![c].result = "nil"]
  /\ UNCHANGED <<quit, log, stop, rest>>

Proceed(c) == \/ ServerStops(c) \/ CloseQuit(c) \/ WaitForWorkers(c)
              \/ TakeFinal(c) \/ WriteFinal(c) \/ WaiterReturns(c)

ShutdownNext ==
  \/ \E r \in Reporter : \/ BeginRequest(r) \/ Enqueue(r) \/ CountEnqueued(r)
                         \/ FindFull(r) \/ DrainOne(r) \/ RecordDrained(r) \/ Drop(r)
  \/ WorkerTakes \/ WorkerRecords \/ WorkerQuits
  \/ FlushBegins \/ FlushWrites \/ FlusherQuits
  \/ \E c \in Caller : CallShutdown(c) \/ Proceed(c)
  \/ DeadlinePasses

(* Deadlines pass and callers run on. Requests, sessions, the worker and   *)
(* the flush may hang.                                                     *)
ShutdownFairness ==
  /\ WF_shutdownVars(DeadlinePasses)
  /\ \A c \in Caller : WF_shutdownVars(Proceed(c))

ShutdownSpec == ShutdownInit /\ [][ShutdownNext]_shutdownVars /\ ShutdownFairness

-----------------------------------------------------------------------------
(* Every event that was accepted is counted and recorded once: it is in    *)
(* the queue, recorded, or in the hands of the worker or of a sender that  *)
(* made room for its own; the counter only lags behind the senders that    *)
(* have not come to it.                                                    *)
CountersHonest ==
  LET at(place) == {r \in Reporter : sender[r] = place}
      takers == {t \in Taker : carried[t] # NoOne}
      accepted == at("count") \cup (at("done") \ counted.dropped)
  IN  /\ counted.enqueued = Cardinality(at("done") \ counted.dropped)
      /\ accepted = Range(queued) \cup counted.recorded \cup {carried[t] : t \in takers}
      /\ Cardinality(accepted) =
           Len(queued) + Cardinality(counted.recorded) + Cardinality(takers)

(* An event of proof priority is dropped only when another sender took the *)
(* place that had been made for it.                                        *)
ProofDropIsContended == counted.dropped \cap Proof \subseteq gossip.contended

(* A Shutdown that drained the server and stopped its workers in time has  *)
(* put every HTTP request's event into the last line of the log, unless it *)
(* was dropped, or a WebSocket session, which nobody waits for, had taken  *)
(* it from the queue, or the line could not be written.                    *)
NothingLostOnCleanStop ==
  \A c \in Caller :
    /\ stop.by = c /\ caller[c].at = "returned"
    /\ caller[c].result = "nil" /\ stop.drained /\ stop.saved
    => {r \in Http : sender[r] = "done"} \ (counted.dropped \cup gossip.strayed)
         \subseteq Last(log)

(* No event disappears: not from the counters, not for no reason, and not  *)
(* from the log of a process that stopped in order.                        *)
EventsKept == CountersHonest /\ ProofDropIsContended /\ NothingLostOnCleanStop

(* Every call of Shutdown returns: requests, sessions and workers that     *)
(* hang do not keep it beyond the deadline of the first caller.            *)
ShutdownReturns ==
  \A c \in Caller : caller[c].at # "idle" ~> caller[c].at = "returned"
=============================================================================
