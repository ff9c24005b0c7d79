-------------------------------- MODULE Recert --------------------------------
(***************************************************************************)
(* `codex recertify wss` (src/cmd/slimference/codex_recert.go): processes, *)
(* started by hand or in the background by the daemon, `codex run` and the *)
(* TUI, exclude each other by a lock file that a later one may take over   *)
(* when it looks stale, and record their outcome in a state file.          *)
(***************************************************************************)
EXTENDS Naturals, FiniteSets

CONSTANTS
  Runner,   \* the processes
  NoLock,   \* the lock file does not exist
  NoPid,    \* it holds no process id yet
  DeadPid   \* it holds the id of a process that no longer exists

Lock == [pid : Runner \cup {NoPid, DeadPid}, old : BOOLEAN]

ASSUME RecertAssumption ==
  {NoPid, DeadPid} \cap Runner = {} /\ NoPid # DeadPid /\ NoLock \notin Lock

VARIABLES
  lock,     \* the lock file: whose id it holds, whether it is 30 minutes old
  creator,  \* history: the process whose open file the lock is
  runner,   \* per process: where it is
  seen,     \* history: the processes that found the present file stale
  state,    \* the state file: the status and whether its backoff is running
  upsets    \* history: what has come in between

recertVars == <<lock, creator, runner, seen, state, upsets>>

(* What a process has to do next.                                          *)
Holding == {"sign", "begin", "work", "unlock"}
RunnerAt == {"idle", "open", "inspect", "remove"} \cup Holding
Holders == {p \in Runner : runner[p] \in Holding}

(* "slow": the lock of a live holder was 30 minutes old and was removed.   *)
(* "raced": a stale lock was removed and recreated between another's       *)
(* inspection and its removal. "crash": a process died. "unsaved": the     *)
(* state file could not be written.                                        *)
Upset == {"slow", "raced", "crash", "unsaved"}

RecertTypeOK ==
  /\ lock \in Lock \cup {NoLock}
  /\ creator \in Runner \cup {NoPid}
  /\ runner \in [Runner -> RunnerAt]
  /\ seen \in SUBSET Runner
  /\ state \in [status : {"none", "running", "passed", "failed"}, backoff : BOOLEAN]
  /\ upsets \in SUBSET Upset

RecertInit ==
  /\ lock = NoLock
  /\ creator = NoPid
  /\ runner = [p \in Runner |-> "idle"]
  /\ seen = {}
  /\ state = [status |-> "none", backoff |-> FALSE]
  /\ upsets = {}

Goes(p, from, to) == runner[p] = from /\ runner' = [runner EXCEPT ![p] = to]

-----------------------------------------------------------------------------
(* Starting: the backoff is looked at before the lock is.                  *)

(* By hand, --force ignores the backoff.                                   *)
AskByHand(p, force) ==
  /\ force \/ ~state.backoff
  /\ Goes(p, "idle", "open")
  /\ UNCHANGED <<lock, creator, seen, state, upsets>>

(* startCodexAutoRecert, for the daemon and the command line: not while    *)
(* the file says that another process is running.                          *)
AskAutomatically(p) == state.status # "running" /\ AskByHand(p, FALSE)

(* O_CREATE|O_EXCL.                                                        *)
CreateLock(p) ==
  /\ lock = NoLock
  /\ Goes(p, "open", "sign")
  /\ lock' = [pid |-> NoPid, old |-> FALSE]
  /\ creator' = p
  /\ seen' = {}
  /\ UNCHANGED <<state, upsets>>

LockExists(p) ==
  /\ lock # NoLock
  /\ Goes(p, "open", "inspect")
  /\ UNCHANGED <<lock, creator, seen, state, upsets>>

(* A mutant: a lock without an id is stale.                                *)
StaleUnsigned == lock # NoLock /\ (lock.old \/ lock.pid \in {NoPid, DeadPid})

(* staleCodexRecertLock: too old, or its process is gone. A file without   *)
(* an id is not stale, nor is one with one's own, nor one that has gone.   *)
Stale == lock # NoLock /\ (lock.old \/ lock.pid = DeadPid)

InspectLock(p) ==
  /\ Goes(p, "inspect", IF Stale THEN "remove" ELSE "idle")
  /\ seen' = IF Stale THEN seen \cup {p} ELSE seen
  /\ UNCHANGED <<lock, creator, state, upsets>>

(* os.Remove by name: whatever file is there now.                          *)
TakeOver(p) ==
  /\ Goes(p, "remove", "open")
  /\ lock' = NoLock
  /\ creator' = NoPid
  /\ seen' = {}
  /\ upsets' = upsets
       \cup (IF lock # NoLock /\ p \notin seen THEN {"raced"} ELSE {})
       \cup (IF p \in seen /\ lock.old /\ creator \in Holders THEN {"slow"} ELSE {})
  /\ UNCHANGED state

(* The id goes to the open file, which may no longer be the lock.          *)
SignLock(p) ==
  /\ Goes(p, "sign", "begin")
  /\ IF creator = p
     THEN lock' = [pid |-> p, old |-> FALSE] /\ seen' = {}
     ELSE UNCHANGED <<lock, seen>>
  /\ UNCHANGED <<creator, state, upsets>>

-----------------------------------------------------------------------------
(* The attempt. Errors of the state file are ignored.                      *)

Saves(status, backoff) ==
  \/ /\ state' = [status |-> status, backoff |-> backoff]
     /\ UNCHANGED upsets
  \/ /\ UNCHANGED state
     /\ upsets' = upsets \cup {"unsaved"}

BeginAttempt(p) ==
  /\ Goes(p, "begin", "work")
  /\ Saves("running", FALSE)
  /\ UNCHANGED <<lock, creator, seen>>

(* A mutant: an error ends the attempt without a record.                   *)
FinishUnrecorded(p) ==
  /\ Goes(p, "work", "unlock")
  /\ UNCHANGED <<lock, creator, seen, state, upsets>>

FinishAttempt(p) ==
  /\ Goes(p, "work", "unlock")
  /\ Saves("passed", FALSE) \/ Saves("failed", TRUE)
  /\ UNCHANGED <<lock, creator, seen>>

(* The deferred unlock removes the file whoever made it.                   *)
Unlock(p) ==
  /\ Goes(p, "unlock", "idle")
  /\ lock' = NoLock
  /\ creator' = NoPid
  /\ seen' = {}
  /\ UNCHANGED <<state, upsets>>

-----------------------------------------------------------------------------

(* The process dies; a later one with another id takes its place here.     *)
CrashRunner(p) ==
  /\ runner[p] # "idle"
  /\ runner' = [runner EXCEPT ![p] = "idle"]
  /\ lock' = IF lock # NoLock /\ lock.pid = p THEN [lock EXCEPT !.pid = DeadPid]
             ELSE lock
  /\ creator' = IF creator = p THEN NoPid ELSE creator
  /\ seen' = seen \ {p}
  /\ upsets' = upsets \cup {"crash"}
  /\ UNCHANGED state

LockAges ==
  /\ lock # NoLock /\ ~lock.old
  /\ lock' = [lock EXCEPT !.old = TRUE]
  /\ UNCHANGED <<creator, runner, seen, state, upsets>>

BackoffEnds ==
  /\ state.backoff
  /\ state' = [state EXCEPT !.backoff = FALSE]
  /\ UNCHANGED <<lock, creator, runner, seen, upsets>>

RecertNext ==
  \/ \E p \in Runner : \/ AskAutomatically(p)
                       \/ \E force \in BOOLEAN : AskByHand(p, force)
                       \/ CreateLock(p) \/ LockExists(p) \/ InspectLock(p)
                       \/ TakeOver(p) \/ SignLock(p)
                       \/ BeginAttempt(p) \/ FinishAttempt(p) \/ Unlock(p)
                       \/ CrashRunner(p)
  \/ LockAges \/ BackoffEnds

RecertSpec == RecertInit /\ [][RecertNext]_recertVars

-----------------------------------------------------------------------------
(* Two processes recertify at a time only after the lock of a slow one was *)
(* taken over as too old, or after two took over the same stale lock.      *)
OneRecertUnlessTakenOver ==
  Cardinality(Holders) <= 1 \/ upsets \cap {"slow", "raced"} # {}

(* A state file that says "running", which keeps automatic recertification *)
(* from starting, belongs to a process that is at work, unless one died or *)
(* could not write the file.                                               *)
RunningHasRunner ==
  state.status = "running" =>
    \/ \E p \in Runner : runner[p] = "work"
    \/ upsets \cap {"crash", "unsaved"} # {}

(* The lock keeps attempts apart, and the state tells whether there is one. *)
RecertHonest == OneRecertUnlessTakenOver /\ RunningHasRunner
=============================================================================
