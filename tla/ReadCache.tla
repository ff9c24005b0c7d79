------------------------------- MODULE ReadCache -------------------------------
(***************************************************************************)
(* The read cache (src/internal/readcache): what the model was last given  *)
(* of a file, kept per session in the memory of each process, written to   *)
(* disk behind its back, and used to send "unchanged" or a delta instead   *)
(* of the text. One session and one file; evaluations run in the daemon    *)
(* and in a helper, a process that lives for one evaluation.               *)
(***************************************************************************)
EXTENDS Naturals, FiniteSets

CONSTANTS
  Text,        \* what the file may contain
  Large,       \* texts too large to be kept inline
  NoText,
  Blank,       \* the hash of the empty string
  Evaluator,   \* goroutines that evaluate in the daemon
  Helper,      \* the helper's only evaluation
  Daemon,      \* the daemon's process; the helper's is Helper
  NoEntry,
  Emptied, Torn,  \* the session's file: just opened, or of two writers
  MaxReads,    \* bound: evaluations
  MaxUpsets    \* bound: failures, crashes, exits, prunes, flushes of the cache, evictions

(* What is known of the file (FileEntry). read: the text whose mtime the   *)
(* hook saw.                                                               *)
Known ==
  [hash : Text \cup {NoText, Blank}, cached : Text \cup {NoText},
   uri : Text \cup {NoText}, read : Text \cup {NoText}]
Nothing == [hash |-> NoText, cached |-> NoText, uri |-> NoText, read |-> NoText]

Entry == [known : Known, dirty : BOOLEAN, scheduled : BOOLEAN, version : Nat]
CleanEntry(known) == [known |-> known, dirty |-> FALSE, scheduled |-> FALSE, version |-> 0]

ASSUME ReadCacheAssumption ==
  /\ Large \subseteq Text /\ {NoText, Blank} \cap Text = {} /\ NoText # Blank
  /\ Helper \notin Evaluator /\ Daemon # Helper
  /\ NoEntry \notin Entry
  /\ MaxReads \in Nat /\ MaxUpsets \in Nat

VARIABLES
  disk,      \* the session's file
  mem,       \* per process: its entry of readCacheMemory
  sleepers,  \* per process: delayed flushes that have not begun
  flight,    \* flushes that have taken the state and write it
  eval,      \* per evaluation: where it is, and what it has found
  stored,    \* the texts the content archive holds
  mode,      \* what the helper runs, what the daemon is about to do
  told       \* history

readCacheVars == <<disk, mem, sleepers, flight, eval, stored, mode, told>>

CacheProcess == {Daemon, Helper}
Evaluation == Evaluator \cup {Helper}
ProcessOf(e) == IF e = Helper THEN Helper ELSE Daemon

(* by: "timer" after the delay, "caller" when somebody waits for it. lost: *)
(* what it has opened has been removed.                                    *)
Flight == [process : CacheProcess, known : Known, version : Nat,
           by : {"timer", "caller"}, at : {"open", "fill", "lost", "done"}]

Reply == {"full", "unchanged", "delta"}
Eval ==
  [at : {"idle", "read", "install", "decide", "flush", "reply"},
   text : Text \cup {NoText}, known : Known, reply : Reply,
   names : Text \cup {NoText}]
IdleEval ==
  [at |-> "idle", text |-> NoText, known |-> Nothing, reply |-> "full", names |-> NoText]

ReadCacheTypeOK ==
  /\ disk \in Known \cup {Emptied, Torn}
  /\ mem \in [CacheProcess -> Entry \cup {NoEntry}]
  /\ sleepers \in [CacheProcess -> Nat]
  /\ flight \in SUBSET Flight
  /\ eval \in [Evaluation -> Eval]
  /\ stored \in SUBSET Text
  /\ mode \in [helper : {"none", "hook", "wrapper"}, daemon : {"up", "clearing", "stopping"}]
  /\ told \in [given : SUBSET Text, evicted : SUBSET Text,
               last : Known, calls : Nat, upsets : Nat,
               kinds : SUBSET {"reinstalled", "overtaken", "foreign", "failed",
                               "cut", "cleared", "pruned", "mixed"}]

(* What an evaluation of the text leaves (updateObservedEntry).            *)
Observed(text, uri) ==
  [hash |-> text, uri |-> uri, read |-> NoText,
   cached |-> IF uri # NoText /\ text \in Large THEN NoText ELSE text]

(* The session is new, or was left by an earlier daemon.                   *)
ReadCacheInit ==
  /\ \E before \in SUBSET Text :
       /\ disk \in IF before = {} THEN {Nothing} ELSE {Observed(t, t) : t \in before}
       /\ stored = before
       /\ told = [given |-> before, evicted |-> {}, last |-> disk,
                  calls |-> 0, upsets |-> 0, kinds |-> {}]
  /\ mem = [p \in CacheProcess |-> NoEntry]
  /\ sleepers = [p \in CacheProcess |-> 0]
  /\ flight = {}
  /\ eval = [e \in Evaluation |-> IdleEval]
  /\ mode = [helper |-> "none", daemon |-> "up"]

-----------------------------------------------------------------------------
(* Loading: loadSessionCached.                                             *)

EvalAt(e, place) == eval[e].at = place
Upsets == told.upsets < MaxUpsets
Kinds(kind, happens) == IF happens THEN told.kinds \cup {kind} ELSE told.kinds

Begins(e, place, known) ==
  /\ EvalAt(e, "idle")
  /\ told.calls < MaxReads
  /\ eval' = [eval EXCEPT ![e] = [IdleEval EXCEPT !.at = place, !.known = known]]
  /\ told' = [told EXCEPT !.calls = @ + 1]
  /\ UNCHANGED <<disk, mem, sleepers, flight, stored>>

LoadHit(e) ==
  /\ mem[ProcessOf(e)] # NoEntry
  /\ Begins(e, "decide", mem[ProcessOf(e)].known)
  /\ UNCHANGED mode

LoadMiss(e) ==
  /\ mem[ProcessOf(e)] = NoEntry
  /\ Begins(e, "read", Nothing)
  /\ IF e = Helper
       THEN \E kind \in {"hook", "wrapper"} : mode' = [mode EXCEPT !.helper = kind]
       ELSE UNCHANGED mode

(* Without a state that can be parsed the text goes out as it is.          *)
ReadFails(e, text) ==
  /\ EvalAt(e, "read") /\ disk \in {Emptied, Torn}
  /\ eval' = [eval EXCEPT ![e].at = "reply", ![e].text = text]
  /\ UNCHANGED <<disk, mem, sleepers, flight, stored, mode, told>>

(* A mutant: a file that cannot be parsed is taken all the same.           *)
ReadUnchecked(e) ==
  /\ EvalAt(e, "read")
  /\ eval' = [eval EXCEPT ![e].at = "install", ![e].known = disk]
  /\ UNCHANGED <<disk, mem, sleepers, flight, stored, mode, told>>

ReadDisk(e) ==
  /\ EvalAt(e, "read") /\ disk \notin {Emptied, Torn}
  /\ eval' = [eval EXCEPT ![e].at = "install", ![e].known = disk]
  /\ UNCHANGED <<disk, mem, sleepers, flight, stored, mode, told>>

(* Whatever another evaluation has saved meanwhile is replaced.            *)
InstallEntry(e) ==
  LET p == ProcessOf(e)
  IN  /\ EvalAt(e, "install")
      /\ mem' = [mem EXCEPT ![p] = CleanEntry(eval[e].known)]
      /\ eval' = [eval EXCEPT ![e].at = "decide"]
      /\ told' = [told EXCEPT !.kinds =
                    Kinds("reinstalled", mem[p] # NoEntry /\ mem[p] # CleanEntry(eval[e].known))]
      /\ UNCHANGED <<disk, sleepers, flight, stored, mode>>

-----------------------------------------------------------------------------
(* Deciding, and SaveSessionAsync, which every decision ends with.         *)

Saved(p, known) ==
  LET old == IF mem[p] = NoEntry THEN CleanEntry(known) ELSE mem[p]
  IN  /\ mem' = [mem EXCEPT ![p] = [known |-> known, dirty |-> TRUE, scheduled |-> TRUE,
                                    version |-> old.version + 1]]
      /\ sleepers' = [sleepers EXCEPT ![p] = IF old.scheduled THEN @ ELSE @ + 1]

Observes(e) == e \in Evaluator \/ mode.helper = "wrapper"
Observing(e) == EvalAt(e, "decide") /\ Observes(e)
Hooking(e) == EvalAt(e, "decide") /\ ~Observes(e)

(* names: the text a delta starts from, or that of the URI of a reference. *)
Decides(e, text, known, reply, names) ==
  LET p == ProcessOf(e)
      unarchived == Observes(e) /\ known.uri = NoText
      mixed == known.uri \notin {NoText, known.hash}
  IN  /\ unarchived => Upsets
      /\ Saved(p, known)
      /\ eval' = [eval EXCEPT ![e].at = IF e = Helper /\ mode.helper = "wrapper"
                                          THEN "flush" ELSE "reply",
                              ![e].text = text, ![e].known = Nothing,
                              ![e].reply = reply, ![e].names = names]
      /\ told' = [told EXCEPT !.last = IF p = Daemon THEN known ELSE @,
                              !.upsets = IF unarchived THEN @ + 1 ELSE @,
                              !.kinds = Kinds("mixed", mixed)]
      /\ UNCHANGED <<disk, flight, mode>>

(* The archive keeps the text, or it fails and there is no URI.            *)
Archive(uri) == stored' = stored \cup ({uri} \ {NoText})

(* A mutant: whatever has a URI is taken for unchanged.                    *)
UnchangedIfArchived(known, text) == known.uri # NoText

Unchanged(known, text) == known.hash = text /\ known.uri # NoText

(* EvaluateObserved: recently edited, or given in full a few turns ago.    *)
FullPass(e, text) ==
  /\ Observing(e)
  /\ \E uri \in {text, NoText} :
       /\ Archive(uri)
       /\ Decides(e, text, Observed(text, uri), "full", NoText)

(* The reference is the URI that is stored with the hash.                  *)
ReferUnchanged(e, text) ==
  LET known == eval[e].known
  IN  /\ Observing(e)
      /\ Unchanged(known, text)
      /\ Decides(e, text, Observed(text, known.uri), "unchanged", known.uri)
      /\ UNCHANGED stored

(* A delta needs the old text, inline or in the archive, and the new one   *)
(* in the archive; one that is not shorter is not sent.                    *)
ReferChanged(e, text) ==
  LET known == eval[e].known
      old == IF known.cached # NoText THEN known.cached
             ELSE IF known.uri \in stored THEN known.uri ELSE NoText
  IN  /\ Observing(e)
      /\ ~Unchanged(known, text)
      /\ \E uri \in {text, NoText}, reply \in {"full", "delta"} :
           /\ Archive(uri)
           /\ reply = "delta" => uri # NoText /\ old \notin {NoText, text}
           /\ Decides(e, text, Observed(text, uri), reply,
                      IF reply = "delta" THEN old ELSE NoText)

(* Evaluate, by the hook that runs before a read, goes by the time of the  *)
(* last change, which a file that was only touched has new; the URI stays. *)
Stated(known, text, cached) ==
  [known EXCEPT !.read = text, !.cached = cached,
                !.hash = IF cached = NoText THEN Blank ELSE cached]

HookUnchanged(e, text) ==
  LET known == eval[e].known
      next == Stated(known, known.read, known.cached)
  IN  /\ Hooking(e)
      /\ known.read = text
      /\ Decides(e, text, next, "unchanged", NoText)
      /\ UNCHANGED stored

HookChanged(e, text) ==
  LET known == eval[e].known
      next == Stated(known, text, IF text \in Large THEN NoText ELSE text)
  IN  /\ Hooking(e)
      /\ \E reply \in {"full", "delta"} :
           /\ reply = "delta" => text \notin Large /\ known.cached \notin {NoText, text}
           /\ Decides(e, text, next, reply, IF reply = "delta" THEN known.cached ELSE NoText)
      /\ UNCHANGED stored

(* The statistics cannot be read or written (RecordDecision), which makes  *)
(* an error of a decision that is saved: the text goes out as it is, and a *)
(* wrapper does not flush.                                                 *)
RecordFails(e) ==
  /\ Upsets
  /\ \/ EvalAt(e, "flush")
     \/ EvalAt(e, "reply") /\ eval[e].reply # "full" /\ ~(e = Helper /\ mode.helper = "wrapper")
  /\ eval' = [eval EXCEPT ![e].at = "reply", ![e].reply = "full"]
  /\ told' = [told EXCEPT !.upsets = @ + 1]
  /\ UNCHANGED <<disk, mem, sleepers, flight, stored, mode>>

-----------------------------------------------------------------------------
(* Flushing: FlushSession.                                                 *)

Flights(p, by) == {f \in flight : f.process = p /\ f.by = by}

Takes(p, by) ==
  IF mem[p] = NoEntry \/ ~mem[p].dirty
    THEN /\ mem' = IF mem[p] = NoEntry THEN mem ELSE [mem EXCEPT ![p].scheduled = FALSE]
         /\ UNCHANGED <<flight, told>>
    ELSE /\ mem' = [mem EXCEPT ![p].dirty = FALSE, ![p].scheduled = FALSE]
         /\ flight' = flight \cup {[process |-> p, known |-> mem[p].known, by |-> by,
                                    version |-> mem[p].version, at |-> "open"]}
         /\ told' = [told EXCEPT !.kinds = Kinds("overtaken", flight # {})]

(* delayedFlushSession, after its 50 milliseconds.                         *)
TimerFlush(p) ==
  /\ sleepers[p] > 0
  /\ sleepers' = [sleepers EXCEPT ![p] = @ - 1]
  /\ Takes(p, "timer")
  /\ UNCHANGED <<disk, eval, stored, mode>>

(* A wrapper flushes before it prints; what has failed goes out in full.   *)
WrapperFlush ==
  /\ EvalAt(Helper, "flush")
  /\ Takes(Helper, "caller")
  /\ eval' = [eval EXCEPT ![Helper].at = "reply"]
  /\ UNCHANGED <<disk, sleepers, stored, mode>>

FlightGoes(f, place) == flight' = (flight \ {f}) \cup {[f EXCEPT !.at = place]}

OpenDisk(f) ==
  /\ f.at = "open"
  /\ disk' = Emptied
  /\ FlightGoes(f, "fill")
  /\ UNCHANGED <<mem, sleepers, eval, stored, mode, told>>

(* A file that another one has written since it was opened is left with   *)
(* this text, or with the end of the other's behind it.                    *)
FillDisk(f) ==
  /\ f.at = "fill"
  /\ disk' \in IF disk = Emptied THEN {f.known} ELSE {f.known, Torn}
  /\ FlightGoes(f, "done")
  /\ told' = [told EXCEPT !.kinds = Kinds("foreign", f.process = Helper)]
  /\ UNCHANGED <<mem, sleepers, eval, stored, mode>>

(* What is written to a file that has no name any more is not seen again.  *)
FillUnlinked(f) ==
  /\ f.at = "lost"
  /\ FlightGoes(f, "done")
  /\ UNCHANGED <<disk, mem, sleepers, eval, stored, mode, told>>

(* A mutant: without the version a later save is undone.                   *)
AnyVersion(f) == mem[f.process] # NoEntry

(* Only the revision that was written is marked clean.                     *)
SameVersion(f) == mem[f.process] # NoEntry /\ mem[f.process].version = f.version

FlushDone(f) ==
  /\ f.at = "done"
  /\ flight' = flight \ {f}
  /\ mem' = IF SameVersion(f)
              THEN [mem EXCEPT ![f.process] = [known |-> f.known, dirty |-> FALSE,
                                               scheduled |-> FALSE, version |-> @.version]]
              ELSE mem
  /\ UNCHANGED <<disk, sleepers, eval, stored, mode, told>>

(* A failed write makes the entry dirty again, and nobody tries again; a   *)
(* wrapper that waits for it prints the text.                              *)
FlushFails(f) ==
  /\ f.at \in {"open", "fill", "lost"} /\ Upsets
  /\ flight' = flight \ {f}
  /\ mem' = IF mem[f.process] = NoEntry THEN mem
            ELSE [mem EXCEPT ![f.process].dirty = TRUE]
  /\ eval' = IF f.process = Helper /\ f.by = "caller"
               THEN [eval EXCEPT ![Helper].reply = "full"] ELSE eval
  /\ told' = [told EXCEPT !.upsets = @ + 1, !.kinds = @ \cup {"failed"}]
  /\ UNCHANGED <<disk, sleepers, stored, mode>>

-----------------------------------------------------------------------------
(* Replies, and the ends of processes.                                     *)

(* A process takes everything of its own with it, writes included.         *)
Ends(p) ==
  /\ mode' = IF p = Helper THEN [mode EXCEPT !.helper = "none"]
             ELSE [mode EXCEPT !.daemon = "up"]
  /\ mem' = [mem EXCEPT ![p] = NoEntry]
  /\ sleepers' = [sleepers EXCEPT ![p] = 0]
  /\ flight' = {f \in flight : f.process # p}
Cut(p) ==
  \/ \E f \in flight : f.process = p /\ (f.at = "fill" \/ p = Daemon)
  \/ p = Daemon /\ mem[p] # NoEntry /\ mem[p].dirty

(* The text has been given: in full, by reference or as a delta.           *)
Answer(e) ==
  /\ EvalAt(e, "reply")
  /\ e = Helper => Flights(Helper, "caller") = {}
  /\ eval' = [eval EXCEPT ![e] = IdleEval]
  /\ IF e = Helper
       THEN /\ Ends(Helper)
            /\ told' = [told EXCEPT !.given = @ \cup {eval[e].text},
                                    !.kinds = Kinds("cut", Cut(Helper))]
       ELSE /\ told' = [told EXCEPT !.given = @ \cup {eval[e].text}]
            /\ UNCHANGED <<mem, sleepers, flight, mode>>
  /\ UNCHANGED <<disk, stored>>

Dies(p) ==
  LET own == {e \in Evaluation : ProcessOf(e) = p}
  IN  /\ Ends(p)
      /\ eval' = [e \in Evaluation |-> IF e \in own THEN IdleEval ELSE eval[e]]
      /\ told' = [told EXCEPT
           !.upsets = @ + 1,
           !.given = @ \cup ({eval[e].text : e \in own} \ {NoText}),
           !.kinds = Kinds("cut", Cut(p))]
      /\ UNCHANGED <<disk, stored>>

Crash(p) ==
  /\ Upsets /\ (p = Helper => mode.helper # "none")
  /\ Dies(p)

(* Shutdown flushes the directory, and the daemon exits.                   *)
ShutdownFlush ==
  /\ mode.daemon = "up" /\ Upsets
  /\ mode' = [mode EXCEPT !.daemon = "stopping"]
  /\ Takes(Daemon, "caller")
  /\ UNCHANGED <<disk, sleepers, eval, stored>>

DaemonExits ==
  /\ mode.daemon = "stopping" /\ Flights(Daemon, "caller") = {}
  /\ Dies(Daemon)

(* The file is removed; those that have it open write on.                  *)
Unlinks ==
  /\ disk' = Nothing
  /\ flight' = {IF f.at = "fill" THEN [f EXCEPT !.at = "lost"] ELSE f : f \in flight}

(* PruneSessions, after every 64th save of a process: what is older than   *)
(* 14 days, or not among the 500 newest. Nothing keeps a session from      *)
(* saving again between the look at the times and the removal.             *)
PruneDisk ==
  /\ disk # Nothing /\ Upsets
  /\ Unlinks
  /\ told' = [told EXCEPT !.upsets = @ + 1, !.kinds = @ \cup {"pruned"}]
  /\ UNCHANGED <<mem, sleepers, eval, stored, mode>>

(* Clear: an operator flushes the caches.                                  *)
ClearMemory ==
  /\ mode.daemon = "up" /\ Upsets
  /\ mode' = [mode EXCEPT !.daemon = "clearing"]
  /\ mem' = [mem EXCEPT ![Daemon] = NoEntry]
  /\ told' = [told EXCEPT !.upsets = @ + 1, !.kinds = @ \cup {"cleared"}]
  /\ UNCHANGED <<disk, sleepers, flight, eval, stored>>

ClearDisk ==
  /\ mode.daemon = "clearing"
  /\ mode' = [mode EXCEPT !.daemon = "up"]
  /\ Unlinks
  /\ UNCHANGED <<mem, sleepers, eval, stored, told>>

(* The archive's limits.                                                   *)
Evict(text) ==
  /\ text \in stored /\ Upsets
  /\ stored' = stored \ {text}
  /\ told' = [told EXCEPT !.upsets = @ + 1, !.evicted = @ \cup {text}]
  /\ UNCHANGED <<disk, mem, sleepers, flight, eval, mode>>

ReadCacheNext ==
  \/ \E e \in Evaluation :
       \/ LoadHit(e) \/ LoadMiss(e) \/ ReadDisk(e) \/ InstallEntry(e) \/ Answer(e)
       \/ RecordFails(e)
       \/ \E text \in Text :
            \/ ReadFails(e, text) \/ FullPass(e, text)
            \/ ReferUnchanged(e, text) \/ ReferChanged(e, text)
            \/ HookUnchanged(e, text) \/ HookChanged(e, text)
  \/ \E f \in flight :
       OpenDisk(f) \/ FillDisk(f) \/ FillUnlinked(f) \/ FlushDone(f) \/ FlushFails(f)
  \/ \E p \in CacheProcess : TimerFlush(p) \/ Crash(p)
  \/ WrapperFlush \/ ShutdownFlush \/ DaemonExits \/ PruneDisk \/ ClearMemory \/ ClearDisk
  \/ \E text \in Text : Evict(text)

ReadCacheSpec == ReadCacheInit /\ [][ReadCacheNext]_readCacheVars

-----------------------------------------------------------------------------
(* What is kept back from the model it knows, or can have. "unchanged" is  *)
(* said of a text it was given, or is being given by an evaluation at the  *)
(* same time, or would have been had that process not died; the reference  *)
(* names that text, unless the hook changed the hash and left the URI, and *)
(* the archive holds it, unless it was evicted. A delta starts from such a *)
(* text too.                                                               *)
KeptBackIsKnown ==
  \A e \in Evaluation :
    LET names == eval[e].names
        others == {eval[o].text : o \in Evaluation \ {e}}
        fair == told.given \cup others
    IN  EvalAt(e, "reply") =>
          /\ eval[e].reply = "unchanged" => eval[e].text \in fair
          /\ eval[e].reply = "unchanged" /\ Observes(e) =>
               \/ names = eval[e].text /\ names \in stored \cup told.evicted
               \/ "mixed" \in told.kinds
          /\ eval[e].reply = "delta" => names \in fair

(* Once the writes have come to rest the disk holds the daemon's last save *)
(* of the session, which its memory holds all the time, unless one of the  *)
(* accidents has come in between.                                          *)
SavesReachDisk ==
  mem[Daemon] # NoEntry =>
    /\ \/ mem[Daemon].known = told.last
       \/ told.kinds \cap {"reinstalled", "cleared", "pruned", "cut", "foreign", "overtaken"} # {}
    /\ sleepers[Daemon] = 0 /\ flight = {} /\ told.kinds \subseteq {"mixed"} =>
         ~mem[Daemon].dirty /\ disk = mem[Daemon].known

(* Both: the text that is kept back from the model, and the saves that     *)
(* later processes judge by.                                               *)
ReadCacheHonest == KeptBackIsKnown /\ SavesReachDisk
=============================================================================
