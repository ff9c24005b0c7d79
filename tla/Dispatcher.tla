------------------------------ MODULE Dispatcher ------------------------------
(***************************************************************************)
(* The telemetry of the WebSocket dispatcher                               *)
(* (src/internal/proxy/wsmitm_dispatcher.go): every socket counts for      *)
(* itself while it is served, and folds its counts into the dispatcher's   *)
(* when it ends; an observer takes snapshots, which add the live sockets   *)
(* to the dispatcher's counters, and compares two of them, as              *)
(* `codex recertify` does (src/cmd/slimference/codex_recert.go).           *)
(*                                                                         *)
(* The counters do not affect each other, so each behaviour follows one of *)
(* them: "frames" stands for what a session counts and "requests" for what *)
(* its Phase-F adapter counts.                                             *)
(***************************************************************************)
EXTENDS Integers, SequencesExt

CONSTANTS
  Socket,     \* the WebSocket connections
  RingLimit,  \* wssRecentSocketLifecycleLimit: 16 in the code
  MaxCount    \* bound: what one socket counts

ASSUME DispatcherAssumption ==
  /\ IsFiniteSet(Socket)
  /\ RingLimit \in Nat /\ MaxCount \in Nat

Counter == {"frames", "requests"}

(* A socket's way: its session is registered and served; Serve returns as  *)
(* soon as one of the two pumps stops; its counts are read; it is taken    *)
(* off the active ones, its frames are added, it is put into the ring of   *)
(* recent sockets, its requests are added.                                 *)
Stage == {"absent", "served", "ended", "removed", "counted", "listed", "gone"}

VARIABLES
  counter,  \* the counter followed; never changes
  stage,    \* per socket
  own,    \* per socket: what it has counted so far
  final,    \* per socket: what was read when it ended
  total,    \* the dispatcher's counter
  closed,   \* its counter of closed sockets
  recent,   \* the closed sockets, latest first
  view      \* the observer: what it has loaded, and its two snapshots

dispatcherVars == <<counter, stage, own, final, total, closed, recent, view>>

(* A snapshot: the counter, the sockets listed as active and as closed.   *)
(* The rest is history: what all sockets had counted when it began and     *)
(* when it ended, the sockets whose counts were between their removal and  *)
(* their addition when it began, and those that had counted after they     *)
(* ended.                                                                  *)
SnapshotType ==
  [count : Nat, active : SUBSET Socket, recent : Seq(Socket), closed : Nat,
   before : Nat, after : Nat, adrift : SUBSET Socket, late : SUBSET Socket]

DispatcherTypeOK ==
  /\ counter \in Counter
  /\ stage \in [Socket -> Stage]
  /\ own \in [Socket -> Nat] /\ final \in [Socket -> Nat]
  /\ total \in Nat
  /\ closed \in Nat
  /\ recent \in Seq(Socket)
  /\ view \in [locked : BOOLEAN, taken : Seq(SnapshotType)]

DispatcherInit ==
  /\ counter \in Counter
  /\ stage = [s \in Socket |-> "absent"]
  /\ own = [s \in Socket |-> 0] /\ final = [s \in Socket |-> 0]
  /\ total = 0
  /\ closed = 0
  /\ recent = <<>>
  /\ view = [locked |-> FALSE, taken |-> <<>>]

-----------------------------------------------------------------------------
(* The sockets. activeMu is held for one step of theirs at a time.         *)
Passes(s, from, to) == stage[s] = from /\ stage' = [stage EXCEPT ![s] = to]
Unlocked == ~view.locked

Register(s) ==
  /\ Unlocked
  /\ Passes(s, "absent", "served")
  /\ UNCHANGED <<counter, own, final, total, closed, recent, view>>

(* A pump passes a message on. The second pump outlives Serve until its    *)
(* connection is closed.                                                   *)
Handle(s) ==
  /\ stage[s] # "absent" /\ own[s] < MaxCount
  /\ own' = [own EXCEPT ![s] = @ + 1]
  /\ UNCHANGED <<counter, stage, final, total, closed, recent, view>>

(* Serve returns and the counts are read.                                  *)
End(s) ==
  /\ Passes(s, "served", "ended")
  /\ final' = [final EXCEPT ![s] = own[s]]
  /\ UNCHANGED <<counter, own, total, closed, recent, view>>

(* finishActiveWSMITMSession, from its first critical section on.          *)
Deregister(s) ==
  /\ Unlocked
  /\ Passes(s, "ended", "removed")
  /\ UNCHANGED <<counter, own, final, total, closed, recent, view>>

Add(s, c) == total' = IF counter = c THEN total + final[s] ELSE total

AddFrames(s) ==
  /\ Passes(s, "removed", "counted")
  /\ Add(s, "frames")
  /\ UNCHANGED <<counter, own, final, closed, recent, view>>

(* A mutant: the ring of recent sockets is not cut to its limit.           *)
RecordUnlimited(s) ==
  /\ Unlocked
  /\ Passes(s, "counted", "listed")
  /\ closed' = closed + 1
  /\ recent' = <<s>> \o recent
  /\ UNCHANGED <<counter, own, final, total, view>>

RecordLifecycle(s) ==
  /\ Unlocked
  /\ Passes(s, "counted", "listed")
  /\ closed' = closed + 1
  /\ LET longer == <<s>> \o recent
     IN  recent' = SubSeq(longer, 1, Min({Len(longer), RingLimit}))
  /\ UNCHANGED <<counter, own, final, total, view>>

AddRequests(s) ==
  /\ Passes(s, "listed", "gone")
  /\ Add(s, "requests")
  /\ UNCHANGED <<counter, own, final, closed, recent, view>>

-----------------------------------------------------------------------------
(* Snapshot, under activeMu: the counters first, then the live sockets,    *)
(* which go on counting, then the ring.                                    *)

(* Counts are summed as the number of what they count, which can be        *)
(* reasoned about where a fold cannot.                                     *)
Sum(counts, sockets) == Cardinality(UNION {{s} \X (1..counts[s]) : s \in sockets})
Handled == Sum(own, Socket)

(* A mutant: a socket stays among the active ones while it is folded in.   *)
ActiveLonger == {s \in Socket : stage[s] \notin {"absent", "gone"}}

Active == {s \in Socket : stage[s] \in {"served", "ended"}}

Adrift == {s \in Socket : stage[s] \in
            {"removed"} \cup (IF counter = "requests" THEN {"counted", "listed"} ELSE {})}
Late == {s \in Socket \ Active : own[s] # final[s]}

LoadCounters ==
  /\ Unlocked /\ Len(view.taken) < 2
  /\ view' = [locked |-> TRUE,
              taken |-> Append(view.taken,
                [count |-> total, active |-> {}, recent |-> <<>>,
                 closed |-> closed, before |-> Handled, after |-> Handled,
                 adrift |-> Adrift, late |-> Late])]
  /\ UNCHANGED <<counter, stage, own, final, total, closed, recent>>

AddActive ==
  /\ view.locked
  /\ LET loaded == Last(view.taken)
         taken == [loaded EXCEPT
           !.count = @ + Sum(own, Active),
           !.active = Active, !.recent = recent, !.after = Handled]
     IN  view' = [locked |-> FALSE,
                  taken |-> [view.taken EXCEPT ![Len(view.taken)] = taken]]
  /\ UNCHANGED <<counter, stage, own, final, total, closed, recent>>

DispatcherNext ==
  \/ \E s \in Socket : \/ Register(s) \/ End(s) \/ Deregister(s)
                       \/ AddFrames(s)
                       \/ RecordLifecycle(s) \/ AddRequests(s) \/ Handle(s)
  \/ LoadCounters \/ AddActive

DispatcherSpec == DispatcherInit /\ [][DispatcherNext]_dispatcherVars

-----------------------------------------------------------------------------
Snapshots ==
  {view.taken[i] : i \in 1..(Len(view.taken) - IF view.locked THEN 1 ELSE 0)}

(* No socket was being folded in, and none had counted after its end.      *)
Clean(snapshot) == snapshot.adrift = {} /\ snapshot.late = {}

(* A snapshot counts nothing twice: no more than was handled by its end.   *)
(* It also misses nothing handled before it began, unless a socket was     *)
(* then between its removal and the addition of its counts, or its second  *)
(* pump had outlived it.                                                   *)
SnapshotWithinTraffic ==
  \A snapshot \in Snapshots :
    /\ snapshot.count <= snapshot.after
    /\ Clean(snapshot) => snapshot.count >= snapshot.before

(* A snapshot lists a socket once, as active or as closed, never both; it  *)
(* lists the last sockets to close that the counter of closed sockets      *)
(* knows of; and the frames of those it lists are in its counts.           *)
ListedOnceAndCounted ==
  \A snapshot \in Snapshots :
    LET listed == Range(snapshot.recent)
    IN  /\ Cardinality(listed) = Len(snapshot.recent)
        /\ listed \cap snapshot.active = {}
        /\ Len(snapshot.recent) = Min({snapshot.closed, RingLimit})
        /\ counter = "frames" => snapshot.count >= Sum(final, listed)

(* A mutant: the snapshots are swapped.                                    *)
DeltaSwapped(before, after) == IF before >= after THEN before - after ELSE after

CounterDelta(before, after) == IF after >= before THEN after - before ELSE after

(* The difference of two snapshots, by which a recertification judges the  *)
(* run between them, is what was handled between them, up to what went on  *)
(* while they were taken, provided both were clean.                        *)
DeltaIsTraffic ==
  Len(view.taken) = 2 /\ ~view.locked =>
    LET pre == view.taken[1]
        post == view.taken[2]
    IN  Clean(pre) /\ Clean(post) =>
          CounterDelta(pre.count, post.count)
            \in (post.before - pre.after)..(post.after - pre.before)

(* A snapshot can be trusted in its counts, in its lists and as one of the *)
(* two that a recertification compares.                                    *)
SnapshotHonest == SnapshotWithinTraffic /\ ListedOnceAndCounted /\ DeltaIsTraffic
=============================================================================
