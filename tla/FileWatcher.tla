----------------------------- MODULE FileWatcher -----------------------------
(***************************************************************************)
(* The file watcher (src/internal/caching/file_watcher.go): the            *)
(* directories it tracks, the watches the operating system really keeps,   *)
(* the events it has not read, and one debounce timer per path.  Access    *)
(* times are ages in ticks of minutes.  Unwatch, which nothing calls, and  *)
(* Close, which ends the process's use of the cache, are left out.         *)
(***************************************************************************)
EXTENDS Files, Integers, FiniteSets

CONSTANTS
  MaxDirs,   \* maxWatchedDirs
  PruneAge   \* pruneMaxAge

ASSUME WatcherAssumption == MaxDirs \in Nat /\ PruneAge \in Nat

VARIABLES
  tracked,   \* trackedDirs: the directories and the age of their last access
  armed,     \* the directories the operating system watches
  unread,    \* per path: events in the channel
  debounce,  \* per path: its timer in debounceTimers, if any
  orphans,   \* per path: running timers that are no longer in the map
  fired,     \* per path: timer functions waiting for the lock
  calls      \* per path: onChange calls about to run

watcherVars == <<tracked, armed, unread, debounce, orphans, fired, calls>>
timerVars == <<debounce, orphans, fired, calls>>

WatcherInit ==
  /\ tracked = [d \in {} |-> 0]
  /\ armed = {}
  /\ unread = [p \in Path |-> 0]
  /\ debounce = [p \in Path |-> "none"]
  /\ orphans = [p \in Path |-> 0]
  /\ fired = [p \in Path |-> 0]
  /\ calls = [p \in Path |-> 0]

Touched(d) == [x \in DOMAIN tracked \cup {d} |-> IF x = d THEN 0 ELSE tracked[x]]
Refreshed(d) == IF d \in DOMAIN tracked THEN Touched(d) ELSE tracked

(* Mutant: a full table is no obstacle, the directory is not watched.      *)
WatchNoLimit(p) ==
  /\ tracked' = Touched(DirOf[p])
  /\ armed' = IF Cardinality(DOMAIN tracked) < MaxDirs THEN armed \cup {DirOf[p]} ELSE armed

(* Mutant: a tracked directory keeps its old access time.                  *)
WatchNoRefresh(p) ==
  /\ tracked' = IF Cardinality(DOMAIN tracked) < MaxDirs /\ ~(DirOf[p] \in DOMAIN tracked)
                  THEN Touched(DirOf[p]) ELSE tracked
  /\ armed' = armed \cup (DOMAIN tracked' \ DOMAIN tracked)

(* Watch, when it returns no error; the caller asks IsWatching.            *)
Watch(p) ==
  LET d == DirOf[p]
      room == Cardinality(DOMAIN tracked) < MaxDirs
  IN  /\ tracked' = IF d \in DOMAIN tracked \/ room THEN Touched(d) ELSE tracked
      /\ armed' = IF d \notin DOMAIN tracked /\ room THEN armed \cup {d} ELSE armed

(* The operating system refuses the watch.                                 *)
WatchFails(p) == /\ DirOf[p] \notin DOMAIN tracked
                 /\ Cardinality(DOMAIN tracked) < MaxDirs
                 /\ UNCHANGED <<tracked, armed>>

IsWatching(p) == DirOf[p] \in DOMAIN tracked

(* Mutant: a second event stops the timer and does not start it again.     *)
StopTimer(p) == debounce' = [debounce EXCEPT ![p] = IF @ = "none" THEN "running" ELSE "none"]

(* The timer of a path is created, or reset: that of a fired timer, whose  *)
(* function still waits for the lock, runs once more.                      *)
ResetTimer(p) == debounce' = [debounce EXCEPT ![p] = "running"]

(* run and scheduleDebounce.                                               *)
HandleEvent(p) ==
  /\ unread[p] > 0
  /\ unread' = [unread EXCEPT ![p] = @ - 1]
  /\ tracked' = Refreshed(DirOf[p])
  /\ ResetTimer(p)
  /\ UNCHANGED <<armed, orphans, fired, calls>>

TimerFires(p) ==
  /\ \/ /\ debounce[p] = "running"
        /\ debounce' = [debounce EXCEPT ![p] = "fired"]
        /\ UNCHANGED orphans
     \/ /\ orphans[p] > 0
        /\ orphans' = [orphans EXCEPT ![p] = @ - 1]
        /\ UNCHANGED debounce
  /\ fired' = [fired EXCEPT ![p] = @ + 1]
  /\ UNCHANGED <<tracked, armed, unread, calls>>

(* The timer's function takes its path out of the map, whatever timer is   *)
(* there by now.                                                           *)
ForgetTimer(p) ==
  /\ fired[p] > 0
  /\ fired' = [fired EXCEPT ![p] = @ - 1]
  /\ orphans' = [orphans EXCEPT ![p] = IF debounce[p] = "running" THEN @ + 1 ELSE @]
  /\ debounce' = [debounce EXCEPT ![p] = "none"]
  /\ calls' = [calls EXCEPT ![p] = @ + 1]
  /\ UNCHANGED <<tracked, armed, unread>>

(* pruneStale.                                                             *)
Prune ==
  LET kept == {d \in DOMAIN tracked : tracked[d] <= PruneAge}
  IN  /\ tracked' = [d \in kept |-> tracked[d]]
      /\ armed' = armed \ (DOMAIN tracked \ kept)
      /\ UNCHANGED <<unread, timerVars>>

(* A write is on its way to onChange.                                      *)
Pending(p) == \/ unread[p] > 0
              \/ debounce[p] = "running"
              \/ orphans[p] > 0
              \/ fired[p] > 0
              \/ calls[p] > 0

-----------------------------------------------------------------------------
WatcherTypeOK ==
  /\ DOMAIN tracked \subseteq Directory
  /\ tracked \in [DOMAIN tracked -> Nat]
  /\ Cardinality(DOMAIN tracked) <= MaxDirs
  /\ armed \subseteq DOMAIN tracked
  /\ debounce \in [Path -> {"none", "running", "fired"}]
  /\ \A f \in {unread, orphans, fired, calls} : f \in [Path -> Nat]
=============================================================================
