-------------------------- MODULE CacheInvalidation --------------------------
(***************************************************************************)
(* The response cache, the file watcher that invalidates it, and the HTTP  *)
(* requests that use them (src/internal/proxy/handler.go): concurrent      *)
(* requests look their answer up twice, by the original and by the         *)
(* compressed body, ask the upstream, watch the files the body mentions,   *)
(* store the answer and point the original body at it, one lock at a time. *)
(***************************************************************************)
EXTENDS ResponseCache, FileWatcher

CONSTANTS
  Request,          \* requests in flight at a time
  Mentions,         \* the paths an original body mentions
  Compress,         \* the keys an original body may compress to
  MaxWrites,        \* bound: writes to files
  MaxReplacements,  \* bound: directories removed and created anew
  MaxArrivals       \* bound: requests of the clients

ASSUME HandlerAssumption ==
  /\ Mentions \in [Orig -> SUBSET Path]
  /\ Compress \in [Orig -> SUBSET Key]
  /\ MaxWrites \in Nat /\ MaxReplacements \in Nat /\ MaxArrivals \in Nat

VARIABLES
  req,       \* per request: where it is, its original and its compressed key
  arrivals,  \* requests so far
  writes,    \* writes so far
  replaced   \* directories replaced behind the watcher's back

requestVars == <<req, arrivals>>
fileVars == <<writes, replaced>>
invalidationVars == <<cache, watcherVars, requestVars, fileVars>>

Step == {"done", "stageA", "stageB", "upstream", "watch", "store", "point"}
Requests == [at : Step \ {"done"}, orig : Orig, key : Key, todo : SUBSET Path]
Done == [at |-> "done"]

InvalidationInit ==
  /\ CacheInit
  /\ WatcherInit
  /\ req = [r \in Request |-> Done]
  /\ arrivals = 0
  /\ writes = 0
  /\ replaced = {}

-----------------------------------------------------------------------------
(* One request, one critical section at a time.                            *)

Moves(r, from, to) == /\ req[r].at = from
                      /\ req' = [req EXCEPT ![r] = IF to = "done" THEN Done
                                                   ELSE [@ EXCEPT !.at = to]]

Arrive(r) ==
  /\ req[r].at = "done"
  /\ arrivals < MaxArrivals
  /\ arrivals' = arrivals + 1
  /\ \E o \in Orig, k \in Key :
       /\ k \in Compress[o]
       /\ req' = [req EXCEPT ![r] = [at |-> "stageA", orig |-> o, key |-> k,
                                     todo |-> Mentions[o]]]
  /\ UNCHANGED <<cache, watcherVars, fileVars>>

(* GetByOriginal.                                                          *)
LookUpOriginal(r) ==
  LET o == req[r].orig
      k == cache.pointers[o]
      hit == Resolves(cache, o) /\ Live(cache, k)
  IN  /\ Moves(r, "stageA", IF hit THEN "done" ELSE "stageB")
      /\ cache' = IF Resolves(cache, o) THEN Looked(cache, k) ELSE cache
      /\ UNCHANGED <<watcherVars, arrivals, fileVars>>

(* The pipeline has run; Get.                                              *)
LookUpCompressed(r) ==
  /\ Moves(r, "stageB", IF Live(cache, req[r].key) THEN "done" ELSE "upstream")
  /\ cache' = Looked(cache, req[r].key)
  /\ UNCHANGED <<watcherVars, arrivals, fileVars>>

(* A complete answer with status 200, or anything else.                    *)
UpstreamAnswers(r) ==
  /\ \E to \in {"watch", "done"} : Moves(r, "upstream", to)
  /\ UNCHANGED <<cache, watcherVars, arrivals, fileVars>>

(* Watch and IsWatching for one path; without a watch nothing is stored.   *)
WatchPath(r) ==
  /\ req[r].at = "watch"
  /\ \E p \in req[r].todo :
       \/ /\ Watch(p)
          /\ req' = IF IsWatching(p)' THEN [req EXCEPT ![r].todo = @ \ {p}]
                                      ELSE [req EXCEPT ![r] = Done]
       \/ /\ WatchFails(p)
          /\ req' = [req EXCEPT ![r] = Done]
  /\ UNCHANGED <<cache, unread, timerVars, arrivals, fileVars>>

AllWatched(r) ==
  /\ Moves(r, "watch", "store")
  /\ req[r].todo = {}
  /\ UNCHANGED <<cache, watcherVars, arrivals, fileVars>>

(* Set.                                                                    *)
Store(r) ==
  /\ Moves(r, "store", "point")
  /\ cache' = Stored(cache, req[r].key,
                     [deps |-> Mentions[req[r].orig], age |-> 0, written |-> {}])
  /\ UNCHANGED <<watcherVars, arrivals, fileVars>>

Point(r) ==
  /\ Moves(r, "point", "done")
  /\ cache' = Pointed(cache, req[r].orig, req[r].key)
  /\ UNCHANGED <<watcherVars, arrivals, fileVars>>

-----------------------------------------------------------------------------
(* The watcher's goroutines, the janitor and the operator.                 *)

ReadEvent(p) == HandleEvent(p) /\ UNCHANGED <<cache, requestVars, fileVars>>
Fire(p) == TimerFires(p) /\ UNCHANGED <<cache, requestVars, fileVars>>
Forget(p) == ForgetTimer(p) /\ UNCHANGED <<cache, requestVars, fileVars>>

(* onChange, which is Invalidate.                                          *)
OnChange(p) ==
  /\ calls[p] > 0
  /\ calls' = [calls EXCEPT ![p] = @ - 1]
  /\ cache' = Invalidated(cache, p)
  /\ UNCHANGED <<tracked, armed, unread, debounce, orphans, fired, requestVars,
                 fileVars>>

PruneStale == /\ \E d \in DOMAIN tracked : tracked[d] > PruneAge
              /\ Prune
              /\ UNCHANGED <<cache, requestVars, fileVars>>

Cleanup == /\ \E k \in DOMAIN cache.entries : Expired(cache, k)
           /\ cache' = Cleaned(cache)
           /\ UNCHANGED <<watcherVars, requestVars, fileVars>>

FlushCaches == /\ cache.keys # << >>
               /\ cache' = [entries |-> Empty, keys |-> << >>, pointers |-> Empty]
               /\ UNCHANGED <<watcherVars, requestVars, fileVars>>

-----------------------------------------------------------------------------
(* Files and time.                                                         *)

Written(ps) ==
  cache' = [cache EXCEPT !.entries =
              [k \in DOMAIN @ |->
                 [@[k] EXCEPT !.written = cache.entries[k].written
                                            \cup (ps \cap cache.entries[k].deps)]]]

Notified(ps) ==
  unread' = [p \in Path |-> IF p \in ps /\ DirOf[p] \in armed
                              THEN unread[p] + 1 ELSE unread[p]]

WriteFile(p) ==
  /\ writes < MaxWrites
  /\ writes' = writes + 1
  /\ Written({p})
  /\ Notified({p})
  /\ UNCHANGED <<tracked, armed, timerVars, requestVars, replaced>>

(* A directory is removed with its files and created anew: the operating   *)
(* system reports the removal and drops its watch, trackedDirs keeps it.   *)
ReplaceDir(d) ==
  LET files == {p \in Path : DirOf[p] = d}
  IN  /\ Cardinality(replaced) < MaxReplacements
      /\ replaced' = replaced \cup {d}
      /\ Written(files)
      /\ Notified(files)
      /\ armed' = armed \ {d}
      /\ UNCHANGED <<tracked, timerVars, requestVars, writes>>

(* Minutes pass; a request takes less from its first Watch to its Set.     *)
(* Past its limit an age no longer matters.                                *)
Older(age, limit) == IF age > limit THEN age ELSE age + 1

Tick ==
  /\ \A r \in Request : req[r].at \notin {"watch", "store"}
  /\ cache' = [cache EXCEPT !.entries =
                 [k \in DOMAIN @ |-> [@[k] EXCEPT !.age = Older(cache.entries[k].age, TTL)]]]
  /\ tracked' = [d \in DOMAIN tracked |-> Older(tracked[d], PruneAge)]
  /\ UNCHANGED <<armed, unread, timerVars, requestVars, fileVars>>

Handle(r) == \/ LookUpOriginal(r) \/ LookUpCompressed(r) \/ UpstreamAnswers(r)
             \/ WatchPath(r) \/ AllWatched(r) \/ Store(r) \/ Point(r)

Report(p) == ReadEvent(p) \/ Fire(p) \/ Forget(p) \/ OnChange(p)

InvalidationNext ==
  \/ \E r \in Request : Arrive(r) \/ Handle(r)
  \/ \E p \in Path : Report(p) \/ WriteFile(p)
  \/ PruneStale \/ Cleanup \/ FlushCaches
  \/ \E d \in Directory : ReplaceDir(d)
  \/ Tick

InvalidationSpec == InvalidationInit /\ [][InvalidationNext]_invalidationVars

(* The watcher's loop and its timers run.                                  *)
WatcherFairness ==
  \A p \in Path : /\ WF_invalidationVars(ReadEvent(p)) /\ WF_invalidationVars(Fire(p))
                  /\ WF_invalidationVars(Forget(p)) /\ WF_invalidationVars(OnChange(p))

FairInvalidationSpec == InvalidationSpec /\ WatcherFairness

-----------------------------------------------------------------------------
(* Properties.                                                             *)

(* The watcher and the requests hold values of the type the code gives     *)
(* them; the watcher tracks at most MaxDirs directories, among them all    *)
(* that the operating system watches for it.                               *)
InvalidationTypeOK ==
  /\ WatcherTypeOK
  /\ req \in [Request -> Requests \cup {Done}]
  /\ arrivals \in 0 .. MaxArrivals
  /\ writes \in 0 .. MaxWrites
  /\ replaced \subseteq Directory

(* An entry outlives neither its watches nor its writes: as long as its    *)
(* lifetime is shorter than that of an idle watch, a live entry is watched,*)
(* and one that a file was written under is about to be invalidated, in    *)
(* spite of debouncing, pruning, full tables and timers that are reset     *)
(* after they fired.  A directory replaced by another is another matter.   *)
StaleIsPending ==
  TTL > 0 /\ TTL < PruneAge =>
    \A k \in DOMAIN cache.entries :
      ~Expired(cache, k) =>
        \A p \in cache.entries[k].deps : DirOf[p] \notin replaced =>
          /\ IsWatching(p)
          /\ p \in cache.entries[k].written => Pending(p)

(* The entries under which a watched file was written leave the cache,     *)
(* together (once writes pause: each one restarts the timer).              *)
StaleBy(p) == {k \in Key : Has(cache, k) /\ p \in cache.entries[k].written}

StaleEntriesLeave ==
  \A p \in Path : StaleBy(p) # {} /\ Pending(p) ~> StaleBy(p) = {}

(* What docs/documentation.md says of invalidation: a write invalidates    *)
(* every cache entry whose key was computed from a body mentioning that    *)
(* path.                                                                   *)
WritesInvalidate ==
  \A k \in DOMAIN cache.entries :
    ~Expired(cache, k) => \A p \in cache.entries[k].written : Pending(p)
=============================================================================
