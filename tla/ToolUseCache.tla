---------------------------- MODULE ToolUseCache ----------------------------
(***************************************************************************)
(* The tool-use cache (src/internal/toolusecache/toolusecache.go): what    *)
(* the sockets of one session have to remember beyond a reconnect, the     *)
(* keys of the reads that were collapsed and the calls of tools, in memory *)
(* and, written behind by goroutines, in a file.  Memory is locked for one *)
(* step at a time: a merge, a load that missed and a flush each put back   *)
(* what they took out or read some steps before.                           *)
(***************************************************************************)
EXTENDS Naturals, FiniteSets

CONSTANTS
  Key, NoKey,       \* what is remembered; the ids' order is that of numbers
  Adapter,          \* the adapters of the session's sockets
  Flusher,          \* the goroutines of delayedFlush, as many as it takes
  Unloaded,         \* memory holds nothing of the session
  NoFile,           \* there is no such file
  Truncated, Mixed, \* a file just opened; one that two have written at a time
  MaxKeys,          \* MaxEntriesPerSession
  MaxCacheCalls,    \* bound: calls of Load and MergeAsync, no more than flushers
  MaxAccidents      \* bound: crashes, failed writes, flushed and pruned caches

ASSUME ToolUseAssumption ==
  /\ Key \subseteq Nat /\ NoKey \notin Key
  /\ IsFiniteSet(Adapter) /\ IsFiniteSet(Flusher)
  /\ MaxCacheCalls \in 0..Cardinality(Flusher)
  /\ MaxKeys \in Nat \ {0} /\ MaxAccidents \in Nat
  /\ NoFile \notin {Truncated, Mixed} /\ Truncated # Mixed
  /\ \A keys \in SUBSET Key : keys \notin {NoFile, Truncated, Mixed}
  /\ Unloaded \notin [keys : SUBSET Key, dirty : BOOLEAN, scheduled : BOOLEAN]

VARIABLES
  remembered, \* the memoryEntry of the session
  useFile,    \* the session's file
  adapter,    \* per adapter: the call it executes
  flush,      \* per goroutine: the flush it executes
  clearing,   \* a Clear is between memory and disk
  account     \* history: what is owed, and what has gone wrong

toolVars == <<remembered, useFile, adapter, flush, clearing, account>>

Clean(keys) == [keys |-> keys, dirty |-> FALSE, scheduled |-> FALSE]
MemoryEntry == [keys : SUBSET Key, dirty : BOOLEAN, scheduled : BOOLEAN]
UseFile == {NoFile, Truncated, Mixed} \cup SUBSET Key

(* base: the entries it has found. stale: memory was written since then.   *)
AdapterCall == [at : {"idle", "missed", "remember", "merge"}, key : Key \cup {NoKey},
                base : SUBSET Key, stale : BOOLEAN]
NoAdapterCall == [at |-> "idle", key |-> NoKey, base |-> {}, stale |-> FALSE]

(* linked: the file it has open has not been removed.                      *)
FlushCall == [at : {"off", "asleep", "open", "fill", "remember"}, base : SUBSET Key,
              stale : BOOLEAN, linked : BOOLEAN]
NoFlush == [at |-> "off", base |-> {}, stale |-> FALSE, linked |-> TRUE]

(* merged: the keys of MergeAsync calls that returned, since the last      *)
(* Clear or crash, and not dropped by the cap or pruned with the file.     *)
(* "overtaken": memory was overwritten with what had been taken from an    *)
(* older one. "crowded": two flushes at a time. "unsaved": a write failed. *)
(* "removed": the file was removed under the memory, or a flush that a     *)
(* Clear has outrun failed and left the file truncated.                    *)
Account == [merged : SUBSET Key,
            kinds : SUBSET {"overtaken", "crowded", "unsaved", "removed"},
            calls : Nat, accidents : Nat]

ToolUseTypeOK ==
  /\ remembered \in {Unloaded} \cup MemoryEntry
  /\ useFile \in UseFile
  /\ remembered # Unloaded => Cardinality(remembered.keys) <= MaxKeys
  /\ adapter \in [Adapter -> AdapterCall]
  /\ flush \in [Flusher -> FlushCall]
  /\ clearing \in BOOLEAN
  /\ account \in Account

ToolUseInit ==
  /\ remembered = Unloaded /\ useFile = NoFile
  /\ adapter = [a \in Adapter |-> NoAdapterCall]
  /\ flush = [f \in Flusher |-> NoFlush]
  /\ clearing = FALSE
  /\ account = [merged |-> {}, kinds |-> {}, calls |-> 0, accidents |-> 0]

-----------------------------------------------------------------------------
(* Whoever writes memory makes what the others have taken from it stale.   *)

AdaptersStale == [a \in Adapter |->
  IF adapter[a].at = "idle" THEN adapter[a] ELSE [adapter[a] EXCEPT !.stale = TRUE]]
FlushesStale == [f \in Flusher |->
  IF flush[f].at \in {"off", "asleep"} THEN flush[f] ELSE [flush[f] EXCEPT !.stale = TRUE]]

Noting(kind, happens) == IF happens THEN account.kinds \cup {kind} ELSE account.kinds
Mishap == account.accidents < MaxAccidents

(* Load found the entries; it returns, or MergeAsync goes on.              *)
Found(a, key, keys, stale) ==
  IF key = NoKey THEN NoAdapterCall
  ELSE [at |-> "merge", key |-> key, base |-> keys, stale |-> stale]

(* Load, for NoKey (hydrateCollapsedKeys, hydrateToolUses), or MergeAsync. *)
CallCache(a, key) ==
  /\ adapter[a].at = "idle" /\ account.calls < MaxCacheCalls
  /\ adapter' = [adapter EXCEPT ![a] =
       IF remembered = Unloaded THEN [NoAdapterCall EXCEPT !.at = "missed", !.key = key]
       ELSE Found(a, key, remembered.keys, FALSE)]
  /\ account' = [account EXCEPT !.calls = @ + 1]
  /\ UNCHANGED <<remembered, useFile, flush, clearing>>

(* A file that cannot be parsed is an error, for a merge too.              *)
ReadUseFile(a) ==
  LET call == adapter[a]
  IN  /\ call.at = "missed"
      /\ adapter' = [adapter EXCEPT ![a] =
           CASE useFile = NoFile -> Found(a, call.key, {}, call.stale)
             [] useFile \in {Truncated, Mixed} -> NoAdapterCall
             [] OTHER -> [call EXCEPT !.at = "remember", !.base = useFile]]
      /\ UNCHANGED <<remembered, useFile, flush, clearing, account>>

RememberLoaded(a) ==
  LET call == adapter[a]
  IN  /\ call.at = "remember"
      /\ remembered' = Clean(call.base)
      /\ adapter' = [AdaptersStale EXCEPT ![a] = Found(a, call.key, call.base, FALSE)]
      /\ flush' = FlushesStale
      /\ account' = [account EXCEPT !.kinds = Noting("overtaken", call.stale)]
      /\ UNCHANGED <<useFile, clearing>>

(* Beyond the limit the lowest ids are dropped.                            *)
Capped(keys) ==
  {k \in keys : Cardinality({j \in keys : j >= k}) <= MaxKeys}

(* A mutant: the overlay takes the place of the entries.                   *)
MergedAlone(base, key) == {key}
MergedEntries(base, key) == Capped(base \cup {key})

(* A mutant: an entry in memory is taken to have its flush.                *)
ScheduledIfKnown == remembered # Unloaded
AlreadyScheduled == remembered # Unloaded /\ remembered.scheduled

PutMerged(a) ==
  LET call == adapter[a]
      all == call.base \cup {call.key}
      idle == CHOOSE f \in Flusher : flush[f].at = "off"
  IN  /\ call.at = "merge"
      /\ remembered' = [keys |-> MergedEntries(call.base, call.key),
                         dirty |-> TRUE, scheduled |-> TRUE]
      /\ adapter' = [AdaptersStale EXCEPT ![a] = NoAdapterCall]
      /\ flush' = IF AlreadyScheduled THEN FlushesStale
                  ELSE [FlushesStale EXCEPT ![idle].at = "asleep"]
      /\ account' = [account EXCEPT
           !.merged = (@ \cup {call.key}) \ (all \ Capped(all)),
           !.kinds = Noting("overtaken", call.stale)]
      /\ UNCHANGED <<useFile, clearing>>

-----------------------------------------------------------------------------
(* delayedFlush, FlushSession                                              *)

UnderWay == {f \in Flusher : flush[f].at \notin {"off", "asleep"}}

FindClean(f) ==
  /\ flush[f].at = "asleep"
  /\ remembered # Unloaded => ~remembered.dirty
  /\ flush' = [flush EXCEPT ![f] = NoFlush]
  /\ remembered' = IF remembered = Unloaded THEN Unloaded
                   ELSE [remembered EXCEPT !.scheduled = FALSE]
  /\ UNCHANGED <<useFile, adapter, clearing, account>>

TakeDirty(f) ==
  /\ flush[f].at = "asleep"
  /\ remembered # Unloaded /\ remembered.dirty
  /\ flush' = [flush EXCEPT ![f] = [NoFlush EXCEPT !.at = "open", !.base = remembered.keys]]
  /\ remembered' = [remembered EXCEPT !.dirty = FALSE, !.scheduled = FALSE]
  /\ account' = [account EXCEPT !.kinds = Noting("crowded", UnderWay # {})]
  /\ UNCHANGED <<useFile, adapter, clearing>>

(* os.WriteFile truncates the file, then fills it.                         *)
OpenUseFile(f) ==
  /\ flush[f].at = "open"
  /\ useFile' = Truncated
  /\ flush' = [flush EXCEPT ![f].at = "fill"]
  /\ UNCHANGED <<remembered, adapter, clearing, account>>

Written(keys) == IF useFile = Truncated THEN {keys} ELSE {keys, Mixed}

FillUseFile(f) ==
  /\ flush[f].at = "fill"
  /\ useFile' \in IF flush[f].linked THEN Written(flush[f].base) ELSE {useFile}
  /\ flush' = [flush EXCEPT ![f].at = "remember"]
  /\ UNCHANGED <<remembered, adapter, clearing, account>>

(* rememberClean: a new memoryEntry, whatever has come in the meantime.    *)
RememberFlushed(f) ==
  /\ flush[f].at = "remember"
  /\ remembered' = Clean(flush[f].base)
  /\ flush' = [FlushesStale EXCEPT ![f] = NoFlush]
  /\ adapter' = AdaptersStale
  /\ account' = [account EXCEPT !.kinds = Noting("overtaken", flush[f].stale)]
  /\ UNCHANGED <<useFile, clearing>>

(* A mutant: what could not be saved is clean.                             *)
SaveFailsCleanly(f) ==
  /\ flush[f].at \in {"open", "fill"} /\ Mishap
  /\ flush' = [flush EXCEPT ![f] = NoFlush]
  /\ account' = [account EXCEPT !.accidents = @ + 1]
  /\ UNCHANGED <<remembered, useFile, adapter, clearing>>

(* It is dirty again, but only another merge starts another flush.         *)
UseSaveFails(f) ==
  /\ flush[f].at \in {"open", "fill"} /\ Mishap
  /\ flush' = [flush EXCEPT ![f] = NoFlush]
  /\ remembered' = IF remembered = Unloaded THEN Unloaded
                   ELSE [remembered EXCEPT !.dirty = TRUE]
  /\ account' = [account EXCEPT !.accidents = @ + 1,
       !.kinds = @ \cup {"unsaved"} \cup (IF remembered = Unloaded THEN {"removed"} ELSE {})]
  /\ UNCHANGED <<useFile, adapter, clearing>>

-----------------------------------------------------------------------------
(* Clear, Prune and the end of the process.                                *)

ClearRemembered ==
  /\ ~clearing /\ Mishap
  /\ clearing' = TRUE
  /\ remembered' = Unloaded
  /\ adapter' = AdaptersStale /\ flush' = FlushesStale
  /\ account' = [account EXCEPT !.accidents = @ + 1, !.merged = {}]
  /\ UNCHANGED useFile

Unlinked == [f \in Flusher |->
  IF flush[f].at = "fill" THEN [flush[f] EXCEPT !.linked = FALSE] ELSE flush[f]]

ClearUseFile ==
  /\ clearing /\ clearing' = FALSE
  /\ useFile' = NoFile /\ flush' = Unlinked
  /\ account' = [account EXCEPT !.kinds = Noting("removed",
       \/ remembered # Unloaded
       \/ \E f \in Flusher : flush[f].at \in {"fill", "remember"}
       \/ \E a \in Adapter : adapter[a].at = "remember")]
  /\ UNCHANGED <<remembered, adapter>>

(* The file is one of the oldest beyond the limit of sessions. What memory *)
(* does not hold goes with it.                                             *)
PruneFile ==
  /\ useFile # NoFile /\ Mishap
  /\ useFile' = NoFile /\ flush' = Unlinked
  /\ account' = [account EXCEPT !.accidents = @ + 1, !.kinds = @ \cup {"removed"},
       !.merged = IF remembered = Unloaded THEN {} ELSE @]
  /\ UNCHANGED <<remembered, adapter, clearing>>

(* Nothing flushes at the end: what is only in memory is lost.             *)
ProcessEnds ==
  /\ Mishap
  /\ remembered' = Unloaded /\ clearing' = FALSE
  /\ adapter' = [a \in Adapter |-> NoAdapterCall]
  /\ flush' = [f \in Flusher |-> NoFlush]
  /\ account' = [account EXCEPT !.accidents = @ + 1, !.kinds = {},
       !.merged = IF useFile \in {NoFile, Truncated, Mixed} THEN {} ELSE useFile]
  /\ UNCHANGED useFile

ToolUseNext ==
  \/ \E a \in Adapter :
       \/ \E key \in Key \cup {NoKey} : CallCache(a, key)
       \/ ReadUseFile(a) \/ RememberLoaded(a) \/ PutMerged(a)
  \/ \E f \in Flusher :
       \/ FindClean(f) \/ TakeDirty(f) \/ OpenUseFile(f) \/ FillUseFile(f)
       \/ RememberFlushed(f) \/ UseSaveFails(f)
  \/ ClearRemembered \/ ClearUseFile \/ PruneFile \/ ProcessEnds

ToolUseSpec == ToolUseInit /\ [][ToolUseNext]_toolVars

-----------------------------------------------------------------------------
Without(kinds) == account.kinds \cap kinds = {}

(* A key whose MergeAsync has returned is in memory, or, when memory holds *)
(* nothing yet, in the file.                                               *)
KeysKept ==
  account.merged # {} =>
    account.merged \subseteq IF remembered = Unloaded THEN useFile ELSE remembered.keys

(* What is clean and not being written is what a restart will find.        *)
CleanIsSaved ==
  /\ remembered # Unloaded /\ ~remembered.dirty
  /\ UnderWay = {}
  => useFile = remembered.keys

(* What is dirty has a flush to come.                                      *)
DirtyIsScheduled ==
  remembered # Unloaded /\ remembered.dirty => \E f \in Flusher : flush[f].at = "asleep"

(* The cache keeps what it was given, in memory and, but for the flush     *)
(* delay, beyond the process, as long as none of its steps has overtaken   *)
(* another and no file was removed, and it writes what it has to, as long  *)
(* as no write has failed.                                                 *)
KeptInOrder ==
  /\ Without({"overtaken"}) => KeysKept
  /\ Without({"overtaken", "crowded", "removed"}) => CleanIsSaved
  /\ Without({"unsaved"}) => DirtyIsScheduled

(* What the comment on MergeAsync says (toolusecache.go:132): the entries  *)
(* it has merged can be loaded at once in the same process.                *)
MergedIsLoaded == remembered # Unloaded => account.merged \subseteq remembered.keys
=============================================================================
