---------------------------- MODULE Storage_proofs ----------------------------
(***************************************************************************)
(* Proofs about what the program keeps of the texts it has seen.           *)
(***************************************************************************)
EXTENDS ToolUseCache, ContentArchive, ChunkDedup, SequenceTheorems, FiniteSetTheorems, TLAPS

(* Sets of keys within the cap.                                            *)
SmallSet == {keys \in SUBSET Key : IsFiniteSet(keys) /\ Cardinality(keys) <= MaxKeys}

LEMMA SmallSets ==
  /\ {} \in SmallSet
  /\ \A keys \in SmallSet : keys \subseteq Key /\ keys \notin {NoFile, Truncated, Mixed}
<1>1. IsFiniteSet({}) /\ Cardinality({}) = 0
  BY FS_EmptySet
<1>2. {} \in SmallSet
  BY <1>1, ToolUseAssumption DEF SmallSet
<1>3. ASSUME NEW keys \in SmallSet
      PROVE  keys \subseteq Key /\ keys \notin {NoFile, Truncated, Mixed}
  BY ToolUseAssumption DEF SmallSet
<1> QED
  BY <1>2, <1>3

(* A finite set of numbers has a least one: the smallest of the sets of    *)
(* those below one of them is empty.                                       *)
LEMMA LeastNumber ==
  ASSUME NEW S \in SUBSET Nat, IsFiniteSet(S), S # {}
  PROVE  \E least \in S : \A k \in S : least <= k
<1> DEFINE below(k) == {j \in S : j < k}
           T == {below(k) : k \in S}
<1>1. T \subseteq FiniteSubsetsOf(S)
  <2>1. ASSUME NEW k \in S
        PROVE  below(k) \in FiniteSubsetsOf(S)
    <3>1. below(k) \in SUBSET S
      OBVIOUS
    <3>2. IsFiniteSet(below(k))
      BY <3>1, FS_Subset
    <3> QED
      BY <3>1, <3>2 DEF FiniteSubsetsOf
  <2> QED
    BY <2>1
<1>2. T # {}
  OBVIOUS
<1>3. PICK first \in T : \A other \in T : ~(<<other, first>> \in StrictSubsetOrdering(S))
  BY <1>1, <1>2, FS_StrictSubsetOrderingWellFounded, WFMin
<1>4. PICK least \in S : first = below(least)
  OBVIOUS
<1>5. ASSUME NEW k \in S, k < least
      PROVE  FALSE
  <2>1. below(k) \in T
    OBVIOUS
  <2>2. below(k) \subseteq below(least)
    <3>1. ASSUME NEW j \in S, j < k
          PROVE  j < least
      <4>1. j \in Nat /\ k \in Nat /\ least \in Nat
        OBVIOUS
      <4> QED
        BY <1>5, <3>1, <4>1
    <3> QED
      BY <3>1
  <2>3. k \in below(least) /\ k \notin below(k)
    BY <1>5
  <2>4. below(k) \in SUBSET S /\ below(least) \in SUBSET S
    OBVIOUS
  <2>5. <<below(k), below(least)>> \in StrictSubsetOrdering(S)
    BY <2>2, <2>3, <2>4 DEF StrictSubsetOrdering
  <2> QED
    BY <1>3, <1>4, <2>1, <2>5
<1> QED
  BY <1>5

(* What the cap leaves fits it: the least key it leaves has no more than   *)
(* MaxKeys keys that are not less.                                         *)
LEMMA CappedFits ==
  ASSUME NEW keys \in SUBSET Key, IsFiniteSet(keys)
  PROVE  Capped(keys) \subseteq keys /\ Capped(keys) \in SmallSet
<1>1. Capped(keys) \subseteq keys
  BY DEF Capped
<1>2. IsFiniteSet(Capped(keys))
  BY <1>1, FS_Subset
<1>3. Cardinality(Capped(keys)) <= MaxKeys
  <2>1. CASE Capped(keys) = {}
    BY <2>1, FS_EmptySet, ToolUseAssumption
  <2>2. CASE Capped(keys) # {}
    <3>1. Capped(keys) \in SUBSET Nat
      BY <1>1, ToolUseAssumption
    <3>2. PICK least \in Capped(keys) : \A k \in Capped(keys) : least <= k
      BY <1>2, <2>2, <3>1, LeastNumber
    <3> DEFINE upper == {j \in keys : j >= least}
    <3>3. upper \subseteq keys /\ Cardinality(upper) <= MaxKeys
      BY <3>2 DEF Capped
    <3>4. Capped(keys) \subseteq upper
      BY <1>1, <3>1, <3>2
    <3>5. IsFiniteSet(upper)
      BY <3>3, FS_Subset
    <3>6. Cardinality(Capped(keys)) <= Cardinality(upper)
      BY <3>4, <3>5, FS_Subset
    <3>7. Cardinality(Capped(keys)) \in Nat /\ Cardinality(upper) \in Nat
      BY <1>2, <3>5, FS_CardinalityType
    <3> QED
      BY <3>3, <3>6, <3>7, ToolUseAssumption
  <2> QED
    BY <2>1, <2>2
<1> QED
  BY <1>1, <1>2, <1>3 DEF SmallSet

LEMMA MergedFits ==
  ASSUME NEW base \in SmallSet, NEW key \in Key
  PROVE  /\ MergedEntries(base, key) \in SmallSet
         /\ MergedEntries(base, key) = Capped(base \cup {key})
<1>1. base \cup {key} \in SUBSET Key
  BY DEF SmallSet
<1>2. IsFiniteSet(base \cup {key})
  BY FS_AddElement DEF SmallSet
<1> QED
  BY <1>1, <1>2, CappedFits DEF MergedEntries

-----------------------------------------------------------------------------
(* The types, with every set of keys within the cap.                       *)
SmallEntry == [keys : SmallSet, dirty : BOOLEAN, scheduled : BOOLEAN]
AdapterPlace == {"idle", "missed", "remember", "merge"}
FlushPlace == {"off", "asleep", "open", "fill", "remember"}
SmallCall ==
  [at : AdapterPlace, key : Key \cup {NoKey}, base : SmallSet, stale : BOOLEAN]
SmallFlush == [at : FlushPlace, base : SmallSet, stale : BOOLEAN, linked : BOOLEAN]

CacheTypes ==
  /\ remembered \in {Unloaded} \cup SmallEntry
  /\ useFile \in {NoFile, Truncated, Mixed} \cup SmallSet
  /\ adapter \in [Adapter -> SmallCall]
  /\ \A a \in Adapter : adapter[a].at = "merge" => adapter[a].key # NoKey
  /\ flush \in [Flusher -> SmallFlush]
  /\ clearing \in BOOLEAN
  /\ account \in Account

(* Every flush that is not over was begun by a merge, every merge is or    *)
(* was a call: there are no more of them than calls.                       *)
BusyFlushers == {f \in Flusher : flush[f].at # "off"}
CallingAdapters == {a \in Adapter : adapter[a].at # "idle"}
Counted ==
  /\ Cardinality(BusyFlushers) + Cardinality(CallingAdapters) <= account.calls
  /\ account.calls <= MaxCacheCalls

(* A flush is scheduled only while a goroutine sleeps before it, and what  *)
(* is dirty is scheduled until a write fails.                              *)
Scheduling ==
  remembered # Unloaded =>
    /\ remembered.scheduled => \E f \in Flusher : flush[f].at = "asleep"
    /\ remembered.dirty /\ "unsaved" \notin account.kinds => remembered.scheduled

(* What a flush or a call has taken, and nobody has written memory since,  *)
(* is what memory still holds; where it held nothing, nothing is owed but  *)
(* what the call has found in the file.                                    *)
FreshFlushes ==
  \A f \in UnderWay :
    ~flush[f].stale => remembered # Unloaded /\ flush[f].base = remembered.keys
FreshCalls ==
  \A a \in Adapter : ~adapter[a].stale =>
    /\ adapter[a].at = "missed" => remembered = Unloaded
    /\ adapter[a].at = "remember" =>
         remembered = Unloaded /\ account.merged \subseteq adapter[a].base
    /\ adapter[a].at = "merge" =>
         IF remembered = Unloaded THEN account.merged = {}
         ELSE adapter[a].base = remembered.keys

(* Keys that memory does not hold are owed only after a restart, before    *)
(* anything else has begun.                                                *)
Keeping ==
  /\ "overtaken" \notin account.kinds /\ remembered # Unloaded =>
       account.merged \subseteq remembered.keys
  /\ remembered = Unloaded /\ account.merged # {} =>
       /\ useFile \in SmallSet /\ account.merged \subseteq useFile /\ ~clearing
       /\ \A f \in Flusher : flush[f].at = "off"

(* A flush that is alone finds the file as it left it.                     *)
Saving ==
  account.kinds \cap {"overtaken", "crowded", "removed"} = {} =>
    /\ \A f, g \in UnderWay : f = g
    /\ \A f \in Flusher : flush[f].at \in {"open", "fill"} => flush[f].linked
    /\ \A f \in Flusher : flush[f].at = "fill" => useFile = Truncated
    /\ \A f \in Flusher : flush[f].at = "remember" => useFile = flush[f].base
    /\ \A a \in Adapter :
         adapter[a].at = "remember" /\ ~adapter[a].stale /\ UnderWay = {} =>
           useFile = adapter[a].base
    /\ CleanIsSaved

CacheInv ==
  /\ CacheTypes /\ Counted /\ Scheduling /\ FreshFlushes /\ FreshCalls
  /\ Keeping /\ Saving

LEMMA EntryFacts ==
  /\ Unloaded \notin SmallEntry
  /\ \A keys \in SmallSet : Clean(keys) \in SmallEntry /\ Clean(keys) # Unloaded
<1>1. SmallEntry \subseteq [keys : SUBSET Key, dirty : BOOLEAN, scheduled : BOOLEAN]
  BY SmallSets DEF SmallEntry
<1>2. ASSUME NEW keys \in SmallSet
      PROVE  Clean(keys) \in SmallEntry
  BY DEF Clean, SmallEntry
<1> QED
  BY <1>1, <1>2, ToolUseAssumption

(* Staleness changes nothing else.                                         *)
LEMMA StaleFacts ==
  ASSUME CacheTypes
  PROVE  /\ AdaptersStale \in [Adapter -> SmallCall]
         /\ \A a \in Adapter :
              /\ AdaptersStale[a].at = adapter[a].at
              /\ AdaptersStale[a].key = adapter[a].key
              /\ AdaptersStale[a].base = adapter[a].base
              /\ ~AdaptersStale[a].stale => adapter[a].at = "idle"
         /\ FlushesStale \in [Flusher -> SmallFlush]
         /\ \A f \in Flusher :
              /\ FlushesStale[f].at = flush[f].at
              /\ FlushesStale[f].base = flush[f].base
              /\ FlushesStale[f].linked = flush[f].linked
              /\ ~FlushesStale[f].stale => flush[f].at \in {"off", "asleep"}
<1>1. ASSUME NEW a \in Adapter
      PROVE  /\ AdaptersStale[a] \in SmallCall
             /\ AdaptersStale[a].at = adapter[a].at
             /\ AdaptersStale[a].key = adapter[a].key
             /\ AdaptersStale[a].base = adapter[a].base
             /\ ~AdaptersStale[a].stale => adapter[a].at = "idle"
  <2>1. adapter[a] \in SmallCall
    BY DEF CacheTypes
  <2> QED
    BY <2>1 DEF AdaptersStale, SmallCall
<1>2. ASSUME NEW f \in Flusher
      PROVE  /\ FlushesStale[f] \in SmallFlush
             /\ FlushesStale[f].at = flush[f].at
             /\ FlushesStale[f].base = flush[f].base
             /\ FlushesStale[f].linked = flush[f].linked
             /\ ~FlushesStale[f].stale => flush[f].at \in {"off", "asleep"}
  <2>1. flush[f] \in SmallFlush
    BY DEF CacheTypes
  <2> QED
    BY <2>1 DEF FlushesStale, SmallFlush
<1> QED
  BY <1>1, <1>2 DEF AdaptersStale, FlushesStale

LEMMA UnlinkedFacts ==
  ASSUME CacheTypes
  PROVE  /\ Unlinked \in [Flusher -> SmallFlush]
         /\ \A f \in Flusher :
              /\ Unlinked[f].at = flush[f].at
              /\ Unlinked[f].base = flush[f].base
              /\ Unlinked[f].stale = flush[f].stale
              /\ flush[f].at # "fill" => Unlinked[f].linked = flush[f].linked
<1>1. ASSUME NEW f \in Flusher
      PROVE  /\ Unlinked[f] \in SmallFlush
             /\ Unlinked[f].at = flush[f].at
             /\ Unlinked[f].base = flush[f].base
             /\ Unlinked[f].stale = flush[f].stale
             /\ flush[f].at # "fill" => Unlinked[f].linked = flush[f].linked
  <2>1. flush[f] \in SmallFlush
    BY DEF CacheTypes
  <2> QED
    BY <2>1 DEF Unlinked, SmallFlush
<1> QED
  BY <1>1 DEF Unlinked

-----------------------------------------------------------------------------
(* The types, action by action.                                            *)
LEMMA CallTypes ==
  ASSUME CacheTypes, NEW a \in Adapter, NEW key \in Key \cup {NoKey}, CallCache(a, key)
  PROVE  CacheTypes'
<1> USE DEF CacheTypes
<1>1. adapter[a] \in SmallCall /\ {} \in SmallSet
  BY SmallSets
<1>2. PICK call : adapter' = [adapter EXCEPT ![a] = call]
                  /\ call = IF remembered = Unloaded
                              THEN [NoAdapterCall EXCEPT !.at = "missed", !.key = key]
                              ELSE Found(a, key, remembered.keys, FALSE)
  BY DEF CallCache
<1>3. call \in SmallCall /\ (call.at = "merge" => call.key # NoKey)
  BY <1>1, <1>2 DEF NoAdapterCall, Found, SmallCall, AdapterPlace, SmallEntry
<1>4. account' \in Account
  BY DEF CallCache, Account
<1> QED
  BY <1>2, <1>3, <1>4 DEF CallCache

LEMMA ReadTypes ==
  ASSUME CacheTypes, NEW a \in Adapter, ReadUseFile(a)
  PROVE  CacheTypes'
<1> USE DEF CacheTypes
<1>1. adapter[a] \in SmallCall /\ {} \in SmallSet
  BY SmallSets
<1>2. PICK call : adapter' = [adapter EXCEPT ![a] = call]
                  /\ call = CASE useFile = NoFile -> Found(a, adapter[a].key, {}, adapter[a].stale)
                              [] useFile \in {Truncated, Mixed} -> NoAdapterCall
                              [] OTHER -> [adapter[a] EXCEPT !.at = "remember", !.base = useFile]
  BY DEF ReadUseFile
<1>3. call \in SmallCall /\ (call.at = "merge" => call.key # NoKey)
  <2>1. CASE useFile = NoFile
    <3>1. call = Found(a, adapter[a].key, {}, adapter[a].stale)
      BY <1>2, <2>1, ToolUseAssumption
    <3> QED
      BY <1>1, <3>1 DEF Found, NoAdapterCall, SmallCall, AdapterPlace
  <2>2. CASE useFile \in {Truncated, Mixed}
    <3>1. call = NoAdapterCall
      BY <1>2, <2>2, ToolUseAssumption
    <3> QED
      BY <1>1, <3>1 DEF NoAdapterCall, SmallCall, AdapterPlace
  <2>3. CASE useFile \notin {NoFile, Truncated, Mixed}
    <3>1. call = [adapter[a] EXCEPT !.at = "remember", !.base = useFile]
      BY <1>2, <2>3
    <3> QED
      BY <1>1, <2>3, <3>1 DEF SmallCall, AdapterPlace
  <2> QED
    BY <2>1, <2>2, <2>3
<1> QED
  BY <1>2, <1>3 DEF ReadUseFile

LEMMA RememberTypes ==
  ASSUME CacheTypes, NEW a \in Adapter, RememberLoaded(a)
  PROVE  CacheTypes'
<1>1. adapter[a] \in SmallCall /\ {} \in SmallSet
  BY SmallSets DEF CacheTypes
<1> DEFINE call == Found(a, adapter[a].key, adapter[a].base, FALSE)
<1>2. adapter' = [AdaptersStale EXCEPT ![a] = call]
  BY DEF RememberLoaded
<1>3. call \in SmallCall /\ (call.at = "merge" => call.key # NoKey)
  BY <1>1 DEF Found, NoAdapterCall, SmallCall, AdapterPlace
<1> HIDE DEF call
<1>4. adapter' \in [Adapter -> SmallCall]
  BY <1>2, <1>3, StaleFacts
<1>5. \A b \in Adapter : adapter'[b].at = "merge" => adapter'[b].key # NoKey
  BY <1>2, <1>3, StaleFacts DEF CacheTypes
<1>6. remembered' \in SmallEntry
  BY <1>1, EntryFacts DEF RememberLoaded, SmallCall
<1>7. flush' \in [Flusher -> SmallFlush]
  BY StaleFacts DEF RememberLoaded
<1>8. account' \in Account
  BY DEF CacheTypes, RememberLoaded, Account, Noting
<1> QED
  BY <1>4, <1>5, <1>6, <1>7, <1>8 DEF CacheTypes, RememberLoaded

LEMMA PutTypes ==
  ASSUME CacheTypes, NEW a \in Adapter, PutMerged(a)
  PROVE  CacheTypes'
<1>1. adapter[a] \in SmallCall /\ {} \in SmallSet
  BY SmallSets DEF CacheTypes
<1>2. adapter' = [AdaptersStale EXCEPT ![a] = NoAdapterCall]
  BY DEF PutMerged
<1>3. NoAdapterCall \in SmallCall /\ NoAdapterCall.at # "merge"
  BY <1>1 DEF NoAdapterCall, SmallCall, AdapterPlace
<1>4. adapter' \in [Adapter -> SmallCall]
  BY <1>2, <1>3, StaleFacts
<1>5. \A b \in Adapter : adapter'[b].at = "merge" => adapter'[b].key # NoKey
  BY <1>2, <1>3, StaleFacts DEF CacheTypes
<1>6. adapter[a].base \in SmallSet /\ adapter[a].key \in Key
  BY <1>1 DEF SmallCall, CacheTypes, PutMerged
<1>7. remembered' \in SmallEntry
  BY <1>6, MergedFits DEF PutMerged, SmallEntry
<1>8. flush' \in [Flusher -> SmallFlush]
  <2>1. PICK idle : flush' = FlushesStale \/ flush' = [FlushesStale EXCEPT ![idle].at = "asleep"]
    BY DEF PutMerged
  <2>2. FlushesStale \in [Flusher -> SmallFlush]
    BY StaleFacts
  <2> QED
    BY <2>1, <2>2 DEF SmallFlush, FlushPlace
<1>9. account' \in Account
  BY <1>6 DEF CacheTypes, PutMerged, Account, Noting
<1> QED
  BY <1>4, <1>5, <1>7, <1>8, <1>9 DEF CacheTypes, PutMerged

LEMMA FlushTypes ==
  ASSUME CacheTypes, NEW f \in Flusher,
         \/ FindClean(f) \/ TakeDirty(f) \/ OpenUseFile(f) \/ FillUseFile(f)
         \/ RememberFlushed(f) \/ UseSaveFails(f)
  PROVE  CacheTypes'
<1>1. flush[f] \in SmallFlush /\ flush \in [Flusher -> SmallFlush] /\ {} \in SmallSet
  BY SmallSets DEF CacheTypes
<1>2. NoFlush \in SmallFlush
  BY <1>1 DEF NoFlush, SmallFlush, FlushPlace
<1>3. CASE FindClean(f)
  BY <1>1, <1>2, <1>3 DEF CacheTypes, FindClean, SmallEntry
<1>4. CASE TakeDirty(f)
  <2>1. remembered \in SmallEntry
    BY <1>4 DEF TakeDirty, CacheTypes
  <2>2. [NoFlush EXCEPT !.at = "open", !.base = remembered.keys] \in SmallFlush
    BY <1>2, <2>1 DEF SmallFlush, SmallEntry, FlushPlace, NoFlush
  <2>3. remembered' \in SmallEntry
    BY <1>4, <2>1 DEF TakeDirty, SmallEntry
  <2>4. account' \in Account
    BY <1>4 DEF CacheTypes, TakeDirty, Account, Noting
  <2> QED
    BY <1>1, <1>4, <2>2, <2>3, <2>4 DEF CacheTypes, TakeDirty
<1>5. CASE OpenUseFile(f)
  BY <1>1, <1>5 DEF CacheTypes, OpenUseFile, SmallFlush, FlushPlace
<1>6. CASE FillUseFile(f)
  <2>1. useFile' \in {NoFile, Truncated, Mixed} \cup SmallSet
    BY <1>1, <1>6 DEF CacheTypes, FillUseFile, Written, SmallFlush
  <2>2. flush' \in [Flusher -> SmallFlush]
    BY <1>1, <1>6 DEF FillUseFile, SmallFlush, FlushPlace
  <2> QED
    BY <1>6, <2>1, <2>2 DEF CacheTypes, FillUseFile
<1>7. CASE RememberFlushed(f)
  <2>1. remembered' \in SmallEntry
    BY <1>1, <1>7, EntryFacts DEF RememberFlushed, SmallFlush
  <2>2. flush' \in [Flusher -> SmallFlush]
    BY <1>2, <1>7, StaleFacts DEF RememberFlushed
  <2>3. adapter' \in [Adapter -> SmallCall]
    BY <1>7, StaleFacts DEF RememberFlushed
  <2>4. \A b \in Adapter : adapter'[b].at = "merge" => adapter'[b].key # NoKey
    BY <1>7, StaleFacts DEF RememberFlushed, CacheTypes
  <2>5. account' \in Account
    BY <1>7 DEF CacheTypes, RememberFlushed, Account, Noting
  <2> QED
    BY <1>7, <2>1, <2>2, <2>3, <2>4, <2>5 DEF CacheTypes, RememberFlushed
<1>8. CASE UseSaveFails(f)
  <2>1. remembered' \in {Unloaded} \cup SmallEntry
    BY <1>8 DEF CacheTypes, UseSaveFails, SmallEntry
  <2>2. account' \in Account
    <3>1. account \in Account
      BY DEF CacheTypes
    <3>2. PICK n \in Nat : n = account.accidents + 1
      BY <3>1 DEF Account
    <3>3. account' = [account EXCEPT !.accidents = n, !.kinds = @ \cup {"unsaved"} \cup (IF remembered = Unloaded THEN {"removed"} ELSE {})]
      BY <1>8, <3>2 DEF UseSaveFails
    <3> QED
      BY <3>1, <3>3 DEF Account
  <2> QED
    BY <1>1, <1>2, <1>8, <2>1, <2>2 DEF CacheTypes, UseSaveFails
<1> QED
  BY <1>3, <1>4, <1>5, <1>6, <1>7, <1>8

LEMMA EndTypes ==
  ASSUME CacheTypes,
         ClearRemembered \/ ClearUseFile \/ PruneFile \/ ProcessEnds
  PROVE  CacheTypes'
<1>1. flush \in [Flusher -> SmallFlush] /\ {} \in SmallSet
  BY SmallSets DEF CacheTypes
<1>2. Unlinked \in [Flusher -> SmallFlush]
  BY UnlinkedFacts
<1>3. CASE ClearRemembered
  <2>1. account' \in Account
    <3>1. account \in Account
      BY DEF CacheTypes
    <3>2. PICK n \in Nat : n = account.accidents + 1
      BY <3>1 DEF Account
    <3>3. account' = [account EXCEPT !.accidents = n, !.merged = {}]
      BY <1>3, <3>2 DEF ClearRemembered
    <3> QED
      BY <3>1, <3>3 DEF Account
  <2>2. \A b \in Adapter : adapter'[b].at = "merge" => adapter'[b].key # NoKey
    BY <1>3, StaleFacts DEF ClearRemembered, CacheTypes
  <2> QED
    BY <1>3, <2>1, <2>2, StaleFacts DEF CacheTypes, ClearRemembered
<1>4. CASE ClearUseFile
  <2>1. account' \in Account
    BY <1>4 DEF CacheTypes, ClearUseFile, Account, Noting
  <2> QED
    BY <1>2, <1>4, <2>1 DEF CacheTypes, ClearUseFile
<1>5. CASE PruneFile
  <2>1. account' \in Account
    <3>1. account \in Account
      BY DEF CacheTypes
    <3>2. PICK n \in Nat : n = account.accidents + 1
      BY <3>1 DEF Account
    <3>3. account' = [account EXCEPT !.accidents = n, !.kinds = @ \cup {"removed"},
                             !.merged = IF remembered = Unloaded THEN {} ELSE @]
      BY <1>5, <3>2 DEF PruneFile
    <3> QED
      BY <3>1, <3>3 DEF Account
  <2> QED
    BY <1>2, <1>5, <2>1 DEF CacheTypes, PruneFile
<1>6. CASE ProcessEnds
  <2>1. NoAdapterCall \in SmallCall /\ NoAdapterCall.at # "merge" /\ NoFlush \in SmallFlush
    BY <1>1 DEF NoAdapterCall, NoFlush, SmallCall, SmallFlush, AdapterPlace, FlushPlace
  <2>2. account' \in Account
    <3>1. account \in Account
      BY DEF CacheTypes
    <3>2. PICK n \in Nat : n = account.accidents + 1
      BY <3>1 DEF Account
    <3>3. account' = [account EXCEPT !.accidents = n, !.kinds = {},
                             !.merged = IF useFile \in {NoFile, Truncated, Mixed} THEN {} ELSE useFile]
      BY <1>6, <3>2 DEF ProcessEnds
    <3> QED
      BY <3>1, <3>3, SmallSets DEF Account, CacheTypes
  <2> QED
    BY <1>6, <2>1, <2>2 DEF CacheTypes, ProcessEnds
<1> QED
  BY <1>3, <1>4, <1>5, <1>6

-----------------------------------------------------------------------------
LEMMA OneMore ==
  ASSUME NEW S, IsFiniteSet(S), NEW x
  PROVE  IsFiniteSet(S \cup {x}) /\ Cardinality(S \cup {x}) <= Cardinality(S) + 1
<1>1. IsFiniteSet(S \cup {x})
  BY FS_AddElement
<1>2. Cardinality(S) \in Nat
  BY FS_CardinalityType
<1>3. Cardinality(S \cup {x}) = Cardinality(S) \/ Cardinality(S \cup {x}) = Cardinality(S) + 1
  BY FS_AddElement
<1> QED
  BY <1>1, <1>2, <1>3

LEMMA CountsAreNumbers ==
  /\ IsFiniteSet(BusyFlushers) /\ Cardinality(BusyFlushers) \in Nat
  /\ IsFiniteSet(CallingAdapters) /\ Cardinality(CallingAdapters) \in Nat
<1>1. BusyFlushers \in SUBSET Flusher /\ CallingAdapters \in SUBSET Adapter
  BY DEF BusyFlushers, CallingAdapters
<1>2. IsFiniteSet(BusyFlushers) /\ IsFiniteSet(CallingAdapters)
  BY <1>1, FS_Subset, ToolUseAssumption
<1> QED
  BY <1>2, FS_CardinalityType

(* A merge that has to start a flush finds a goroutine for it: not all are *)
(* busy, since the merge itself is a call that has started none.           *)
LEMMA FreeFlusher ==
  ASSUME CacheTypes, Counted, NEW a \in Adapter, adapter[a].at # "idle"
  PROVE  \E f \in Flusher : flush[f].at = "off"
<1>1. SUFFICES ASSUME \A f \in Flusher : flush[f].at # "off"
               PROVE  FALSE
  OBVIOUS
<1>2. BusyFlushers = Flusher
  BY <1>1 DEF BusyFlushers
<1>3. CallingAdapters # {}
  BY DEF CallingAdapters
<1>4. Cardinality(CallingAdapters) # 0
  BY <1>3, CountsAreNumbers, FS_EmptySet
<1>5. account.calls \in Nat
  BY DEF CacheTypes, Account
<1>6. Cardinality(Flusher) \in Nat
  BY FS_CardinalityType, ToolUseAssumption
<1> QED
  BY <1>2, <1>4, <1>5, <1>6, CountsAreNumbers, ToolUseAssumption DEF Counted

(* No more goroutines, no more calls.                                      *)
LEMMA CountKept ==
  ASSUME CacheTypes, Counted, account'.calls = account.calls,
         BusyFlushers' \subseteq BusyFlushers, CallingAdapters' \subseteq CallingAdapters
  PROVE  Counted'
<1>1. Cardinality(BusyFlushers') <= Cardinality(BusyFlushers) /\ Cardinality(BusyFlushers') \in Nat
  BY CountsAreNumbers, FS_Subset, FS_CardinalityType
<1>2. /\ Cardinality(CallingAdapters') <= Cardinality(CallingAdapters)
      /\ Cardinality(CallingAdapters') \in Nat
  BY CountsAreNumbers, FS_Subset, FS_CardinalityType
<1>3. account.calls \in Nat
  BY DEF CacheTypes, Account
<1> QED
  BY <1>1, <1>2, <1>3, CountsAreNumbers DEF Counted

LEMMA CallCounted ==
  ASSUME CacheTypes, Counted,
         NEW a \in Adapter, NEW key \in Key \cup {NoKey}, CallCache(a, key)
  PROVE  Counted'
<1>1. BusyFlushers' = BusyFlushers
  BY DEF CallCache, BusyFlushers
<1>2. CallingAdapters' \subseteq CallingAdapters \cup {a}
  BY DEF CallCache, CallingAdapters, CacheTypes
<1>3. /\ IsFiniteSet(CallingAdapters \cup {a})
      /\ Cardinality(CallingAdapters \cup {a}) <= Cardinality(CallingAdapters) + 1
  BY CountsAreNumbers, OneMore
<1>4. /\ Cardinality(CallingAdapters') <= Cardinality(CallingAdapters \cup {a})
      /\ Cardinality(CallingAdapters') \in Nat
      /\ Cardinality(CallingAdapters \cup {a}) \in Nat
  BY <1>2, <1>3, FS_Subset, FS_CardinalityType
<1>5. account.calls \in Nat /\ account.calls < MaxCacheCalls
      /\ account'.calls = account.calls + 1
  BY DEF CacheTypes, Account, CallCache
<1>6. MaxCacheCalls \in Nat
  BY FS_CardinalityType, ToolUseAssumption
<1> QED
  BY <1>1, <1>3, <1>4, <1>5, <1>6, CountsAreNumbers DEF Counted

LEMMA PutCounted ==
  ASSUME CacheTypes, Counted, NEW a \in Adapter, PutMerged(a)
  PROVE  Counted'
<1>1. PICK idle : BusyFlushers' \subseteq BusyFlushers \cup {idle}
  <2>1. PICK idle : flush' = FlushesStale \/ flush' = [FlushesStale EXCEPT ![idle].at = "asleep"]
    BY DEF PutMerged
  <2>2. \A f \in Flusher : f # idle => flush'[f].at = flush[f].at
    BY <2>1, StaleFacts
  <2> QED
    BY <2>2 DEF BusyFlushers
<1>2. a \in CallingAdapters /\ CallingAdapters' \subseteq CallingAdapters \ {a}
  <2>1. \A b \in Adapter : b # a => adapter'[b].at = adapter[b].at
    BY StaleFacts DEF PutMerged
  <2>2. adapter'[a].at = "idle" /\ adapter[a].at = "merge"
    BY StaleFacts DEF PutMerged, NoAdapterCall
  <2> QED
    BY <2>1, <2>2 DEF CallingAdapters
<1>3. /\ Cardinality(BusyFlushers') <= Cardinality(BusyFlushers) + 1
      /\ Cardinality(BusyFlushers') \in Nat
  <2>1. /\ IsFiniteSet(BusyFlushers \cup {idle})
        /\ Cardinality(BusyFlushers \cup {idle}) <= Cardinality(BusyFlushers) + 1
    BY CountsAreNumbers, OneMore
  <2>2. /\ Cardinality(BusyFlushers') <= Cardinality(BusyFlushers \cup {idle})
        /\ Cardinality(BusyFlushers') \in Nat
        /\ Cardinality(BusyFlushers \cup {idle}) \in Nat
    BY <1>1, <2>1, FS_Subset, FS_CardinalityType
  <2> QED
    BY <2>1, <2>2, CountsAreNumbers
<1>4. /\ Cardinality(CallingAdapters') <= Cardinality(CallingAdapters) - 1
      /\ Cardinality(CallingAdapters') \in Nat
  <2>1. /\ IsFiniteSet(CallingAdapters \ {a})
        /\ Cardinality(CallingAdapters \ {a}) = Cardinality(CallingAdapters) - 1
    BY <1>2, CountsAreNumbers, FS_RemoveElement
  <2>2. /\ Cardinality(CallingAdapters') <= Cardinality(CallingAdapters \ {a})
        /\ Cardinality(CallingAdapters') \in Nat
        /\ Cardinality(CallingAdapters \ {a}) \in Nat
    BY <1>2, <2>1, FS_Subset, FS_CardinalityType
  <2> QED
    BY <2>1, <2>2, CountsAreNumbers
<1>5. account.calls \in Nat /\ account'.calls = account.calls
  BY DEF CacheTypes, Account, PutMerged
<1> QED
  BY <1>3, <1>4, <1>5, CountsAreNumbers DEF Counted

LEMMA OtherCounted ==
  ASSUME CacheTypes, Counted,
         \/ \E a \in Adapter : ReadUseFile(a) \/ RememberLoaded(a)
         \/ \E f \in Flusher :
              \/ FindClean(f) \/ TakeDirty(f) \/ OpenUseFile(f) \/ FillUseFile(f)
              \/ RememberFlushed(f) \/ UseSaveFails(f)
         \/ ClearRemembered \/ ClearUseFile \/ PruneFile \/ ProcessEnds
  PROVE  Counted'
<1>1. ASSUME NEW a \in Adapter, ReadUseFile(a)
      PROVE  Counted'
  <2>1. BusyFlushers' = BusyFlushers /\ account'.calls = account.calls
    BY <1>1 DEF ReadUseFile, BusyFlushers
  <2>2. a \in CallingAdapters /\ \A b \in Adapter : b # a => adapter'[b] = adapter[b]
    BY <1>1 DEF ReadUseFile, CallingAdapters, CacheTypes
  <2>3. CallingAdapters' \subseteq CallingAdapters
    BY <2>2 DEF CallingAdapters
  <2> QED
    BY <2>1, <2>3, CountKept
<1>2. ASSUME NEW a \in Adapter, RememberLoaded(a)
      PROVE  Counted'
  <2>1. BusyFlushers' = BusyFlushers /\ account'.calls = account.calls
    BY <1>2, StaleFacts DEF RememberLoaded, BusyFlushers, CacheTypes, Account
  <2>2. a \in CallingAdapters /\ \A b \in Adapter : b # a => adapter'[b].at = adapter[b].at
    BY <1>2, StaleFacts DEF RememberLoaded, CallingAdapters, CacheTypes
  <2>3. CallingAdapters' \subseteq CallingAdapters
    BY <2>2 DEF CallingAdapters
  <2> QED
    BY <2>1, <2>3, CountKept
<1>3. ASSUME NEW f \in Flusher,
             \/ FindClean(f) \/ TakeDirty(f) \/ OpenUseFile(f) \/ FillUseFile(f)
             \/ RememberFlushed(f) \/ UseSaveFails(f)
      PROVE  Counted'
  <2>1. account'.calls = account.calls
    BY <1>3 DEF FindClean, TakeDirty, OpenUseFile, FillUseFile, RememberFlushed, UseSaveFails,
                CacheTypes, Account
  <2>2. CallingAdapters' = CallingAdapters
    BY <1>3, StaleFacts DEF FindClean, TakeDirty, OpenUseFile, FillUseFile, RememberFlushed,
                UseSaveFails, CallingAdapters
  <2>3. f \in BusyFlushers /\ \A g \in Flusher : g # f => flush'[g].at = flush[g].at
    BY <1>3, StaleFacts DEF FindClean, TakeDirty, OpenUseFile, FillUseFile, RememberFlushed,
                UseSaveFails, BusyFlushers, CacheTypes
  <2>4. BusyFlushers' \subseteq BusyFlushers
    BY <2>3 DEF BusyFlushers
  <2> QED
    BY <2>1, <2>2, <2>4, CountKept
<1>4. ASSUME ClearRemembered \/ ClearUseFile \/ PruneFile \/ ProcessEnds
      PROVE  Counted'
  <2>1. account'.calls = account.calls
    BY <1>4 DEF ClearRemembered, ClearUseFile, PruneFile, ProcessEnds, CacheTypes, Account
  <2>2. \A a \in Adapter : adapter'[a].at \in {adapter[a].at, "idle"}
    <3>1. CASE ClearRemembered
      BY <3>1, StaleFacts DEF ClearRemembered
    <3>2. CASE ClearUseFile \/ PruneFile
      BY <3>2 DEF ClearUseFile, PruneFile
    <3>3. CASE ProcessEnds
      BY <3>3 DEF ProcessEnds, NoAdapterCall
    <3> QED
      BY <1>4, <3>1, <3>2, <3>3
  <2>3. \A f \in Flusher : flush'[f].at \in {flush[f].at, "off"}
    <3>1. CASE ClearRemembered
      BY <3>1, StaleFacts DEF ClearRemembered
    <3>2. CASE ClearUseFile \/ PruneFile
      BY <3>2, UnlinkedFacts DEF ClearUseFile, PruneFile
    <3>3. CASE ProcessEnds
      BY <3>3 DEF ProcessEnds, NoFlush
    <3> QED
      BY <1>4, <3>1, <3>2, <3>3
  <2>4. BusyFlushers' \subseteq BusyFlushers
    BY <2>3 DEF BusyFlushers
  <2>5. CallingAdapters' \subseteq CallingAdapters
    BY <2>2 DEF CallingAdapters
  <2> QED
    BY <2>1, <2>4, <2>5, CountKept
<1> QED
  BY <1>1, <1>2, <1>3, <1>4

-----------------------------------------------------------------------------
(* What the steps of a call keep.                                          *)
CacheGoal == Scheduling /\ FreshFlushes /\ FreshCalls /\ Keeping /\ Saving

LEMMA CallStep ==
  ASSUME CacheInv, NEW a \in Adapter, NEW key \in Key \cup {NoKey}, CallCache(a, key)
  PROVE  CacheGoal'
<1>1. /\ remembered' = remembered /\ useFile' = useFile /\ flush' = flush
      /\ clearing' = clearing /\ UnderWay' = UnderWay
      /\ account'.kinds = account.kinds /\ account'.merged = account.merged
  BY DEF CallCache, UnderWay, CacheInv, CacheTypes, Account
<1>2. \A b \in Adapter : b # a => adapter'[b] = adapter[b]
  BY DEF CallCache, CacheInv, CacheTypes
<1>3. /\ adapter'[a].at = "missed" => remembered = Unloaded
      /\ adapter'[a].at # "remember"
      /\ adapter'[a].at = "merge" => remembered # Unloaded /\ adapter'[a].base = remembered.keys
  BY DEF CallCache, CacheInv, CacheTypes, Found, NoAdapterCall
<1>4. Scheduling' /\ FreshFlushes' /\ Keeping'
  BY <1>1 DEF CacheInv, Scheduling, FreshFlushes, Keeping
<1>5. FreshCalls'
  BY <1>1, <1>2, <1>3 DEF CacheInv, FreshCalls
<1>6. Saving'
  BY <1>1, <1>2, <1>3 DEF CacheInv, Saving, CleanIsSaved
<1> QED
  BY <1>4, <1>5, <1>6 DEF CacheGoal

LEMMA ReadStep ==
  ASSUME CacheInv, NEW a \in Adapter, ReadUseFile(a)
  PROVE  CacheGoal'
<1>1. /\ remembered' = remembered /\ useFile' = useFile /\ flush' = flush
      /\ clearing' = clearing /\ UnderWay' = UnderWay /\ account' = account
  BY DEF ReadUseFile, UnderWay
<1>2. \A b \in Adapter : b # a => adapter'[b] = adapter[b]
  BY DEF ReadUseFile, CacheInv, CacheTypes
<1>3. adapter[a] \in SmallCall /\ adapter[a].at = "missed"
  BY DEF ReadUseFile, CacheInv, CacheTypes
<1>4. \/ adapter'[a].at = "idle"
      \/ /\ useFile = NoFile /\ adapter'[a].at = "merge" /\ adapter'[a].base = {}
         /\ adapter'[a].stale = adapter[a].stale
      \/ /\ useFile \in SmallSet /\ adapter'[a].at = "remember" /\ adapter'[a].base = useFile
         /\ adapter'[a].stale = adapter[a].stale
  <2>1. PICK call : adapter' = [adapter EXCEPT ![a] = call]
                    /\ call = CASE useFile = NoFile -> Found(a, adapter[a].key, {}, adapter[a].stale)
                                [] useFile \in {Truncated, Mixed} -> NoAdapterCall
                                [] OTHER -> [adapter[a] EXCEPT !.at = "remember", !.base = useFile]
    BY DEF ReadUseFile
  <2>2. adapter'[a] = call
    BY <2>1 DEF CacheInv, CacheTypes
  <2>3. CASE useFile = NoFile
    <3>1. call = Found(a, adapter[a].key, {}, adapter[a].stale)
      BY <2>1, <2>3, ToolUseAssumption
    <3>2. CASE adapter[a].key = NoKey
      BY <2>2, <3>1, <3>2 DEF Found, NoAdapterCall
    <3>3. CASE adapter[a].key # NoKey
      <4>1. adapter'[a] = [at |-> "merge", key |-> adapter[a].key, base |-> {},
                           stale |-> adapter[a].stale]
        BY <2>2, <3>1, <3>3 DEF Found
      <4> QED
        BY <2>3, <4>1
    <3> QED
      BY <3>2, <3>3
  <2>4. CASE useFile \in {Truncated, Mixed}
    <3>1. call = NoAdapterCall
      BY <2>1, <2>4, ToolUseAssumption
    <3> QED
      BY <2>2, <3>1 DEF NoAdapterCall
  <2>5. CASE useFile \notin {NoFile, Truncated, Mixed}
    <3>1. call = [adapter[a] EXCEPT !.at = "remember", !.base = useFile]
      BY <2>1, <2>5
    <3> QED
      BY <1>3, <2>2, <2>5, <3>1 DEF SmallCall, CacheInv, CacheTypes
  <2> QED
    BY <2>3, <2>4, <2>5
<1>5. ~adapter[a].stale => remembered = Unloaded
  BY <1>3 DEF CacheInv, FreshCalls
<1>6. remembered = Unloaded => account.merged = {} \/ account.merged \subseteq useFile
  BY DEF CacheInv, Keeping
<1>7. remembered = Unloaded /\ useFile = NoFile => account.merged = {}
  BY SmallSets DEF CacheInv, Keeping
<1>8. Scheduling' /\ FreshFlushes' /\ Keeping'
  BY <1>1 DEF CacheInv, Scheduling, FreshFlushes, Keeping
<1>9. FreshCalls'
  BY <1>1, <1>2, <1>4, <1>5, <1>6, <1>7 DEF CacheInv, FreshCalls
<1>10. Saving'
  BY <1>1, <1>2, <1>4 DEF CacheInv, Saving, CleanIsSaved
<1> QED
  BY <1>8, <1>9, <1>10 DEF CacheGoal

LEMMA RememberStep ==
  ASSUME CacheInv, NEW a \in Adapter, RememberLoaded(a)
  PROVE  CacheGoal'
<1> DEFINE base == adapter[a].base
<1>1. adapter[a] \in SmallCall /\ adapter[a].at = "remember" /\ base \in SmallSet
  BY DEF RememberLoaded, CacheInv, CacheTypes, SmallCall
<1>2. /\ remembered' # Unloaded /\ remembered'.keys = base
      /\ remembered'.dirty = FALSE /\ remembered'.scheduled = FALSE
  BY <1>1, EntryFacts DEF RememberLoaded, Clean
<1>3. /\ useFile' = useFile /\ clearing' = clearing
      /\ account'.merged = account.merged
      /\ account'.kinds = account.kinds \cup (IF adapter[a].stale THEN {"overtaken"} ELSE {})
  BY DEF RememberLoaded, CacheInv, CacheTypes, Account, Noting
<1>4. \A b \in Adapter : b # a => (~adapter'[b].stale => adapter'[b].at = "idle")
  BY StaleFacts DEF RememberLoaded, CacheInv
<1>5. adapter'[a].at \in {"idle", "merge"} /\ (adapter'[a].at = "merge" => adapter'[a].base = base)
  BY StaleFacts DEF RememberLoaded, CacheInv, Found, NoAdapterCall
<1>6. \A f \in Flusher : /\ flush'[f].at = flush[f].at /\ flush'[f].base = flush[f].base
                         /\ flush'[f].linked = flush[f].linked
                         /\ ~flush'[f].stale => flush[f].at \in {"off", "asleep"}
  BY StaleFacts DEF RememberLoaded, CacheInv
<1>7. UnderWay' = UnderWay
  BY <1>6 DEF UnderWay
<1> HIDE DEF base
<1>8. Scheduling'
  BY <1>2 DEF Scheduling
<1>9. FreshFlushes'
  BY <1>6, <1>7 DEF FreshFlushes, UnderWay
<1>10. FreshCalls'
  BY <1>2, <1>4, <1>5 DEF FreshCalls
<1>11. ~adapter[a].stale => account.merged \subseteq base
  BY <1>1 DEF CacheInv, FreshCalls, base
<1>12. Keeping'
  BY <1>2, <1>3, <1>11 DEF Keeping
<1>13. Saving'
  <2>1. SUFFICES ASSUME account'.kinds \cap {"overtaken", "crowded", "removed"} = {}
                 PROVE  /\ \A f, g \in UnderWay' : f = g
                        /\ \A f \in Flusher : flush'[f].at \in {"open", "fill"} => flush'[f].linked
                        /\ \A f \in Flusher : flush'[f].at = "fill" => useFile' = Truncated
                        /\ \A f \in Flusher : flush'[f].at = "remember" =>
                             useFile' = flush'[f].base
                        /\ \A b \in Adapter :
                             adapter'[b].at = "remember" /\ ~adapter'[b].stale /\ UnderWay' = {} =>
                               useFile' = adapter'[b].base
                        /\ UnderWay' = {} => useFile' = remembered'.keys
    BY DEF Saving, CleanIsSaved
  <2>2. account.kinds \cap {"overtaken", "crowded", "removed"} = {} /\ ~adapter[a].stale
    BY <1>1, <1>3, <2>1 DEF SmallCall
  <2>3. UnderWay = {} => useFile = base
    BY <1>1, <2>2 DEF CacheInv, Saving, base
  <2> QED
    BY <1>2, <1>3, <1>4, <1>5, <1>6, <1>7, <2>2, <2>3 DEF CacheInv, Saving
<1> QED
  BY <1>8, <1>9, <1>10, <1>12, <1>13 DEF CacheGoal

LEMMA PutStep ==
  ASSUME CacheInv, NEW a \in Adapter, PutMerged(a)
  PROVE  CacheGoal'
<1> DEFINE base == adapter[a].base
           key == adapter[a].key
<1>1. adapter[a] \in SmallCall /\ adapter[a].at = "merge" /\ base \in SmallSet /\ key \in Key
  BY DEF PutMerged, CacheInv, CacheTypes, SmallCall
<1>2. /\ remembered'.keys = Capped(base \cup {key})
      /\ remembered'.dirty = TRUE /\ remembered'.scheduled = TRUE
  BY <1>1, MergedFits DEF PutMerged
<1>3. remembered' # Unloaded
  <2>1. MergedEntries(base, key) \in SmallSet
    BY <1>1, MergedFits
  <2>2. remembered' = [keys |-> MergedEntries(base, key), dirty |-> TRUE, scheduled |-> TRUE]
    BY DEF PutMerged
  <2>3. remembered' \in SmallEntry
    BY <2>1, <2>2 DEF SmallEntry
  <2> QED
    BY <2>3, EntryFacts
<1>4. /\ useFile' = useFile /\ clearing' = clearing
      /\ account'.merged =
           (account.merged \cup {key}) \ ((base \cup {key}) \ Capped(base \cup {key}))
      /\ account'.kinds = account.kinds \cup (IF adapter[a].stale THEN {"overtaken"} ELSE {})
  BY DEF PutMerged, CacheInv, CacheTypes, Account, Noting
<1>5. \A b \in Adapter : ~adapter'[b].stale => adapter'[b].at = "idle"
  BY StaleFacts DEF PutMerged, CacheInv, NoAdapterCall
<1>6. \E f \in Flusher : flush'[f].at = "asleep"
  <2>1. CASE AlreadyScheduled
    <3>1. \E f \in Flusher : flush[f].at = "asleep"
      BY <2>1 DEF AlreadyScheduled, CacheInv, Scheduling
    <3>2. flush' = FlushesStale
      BY <2>1 DEF PutMerged
    <3> QED
      BY <3>1, <3>2, StaleFacts DEF CacheInv
  <2>2. CASE ~AlreadyScheduled
    <3> DEFINE idle == CHOOSE f \in Flusher : flush[f].at = "off"
    <3>1. idle \in Flusher
      BY <1>1, FreeFlusher DEF CacheInv
    <3>2. flush' = [FlushesStale EXCEPT ![idle].at = "asleep"]
      BY <2>2 DEF PutMerged
    <3> HIDE DEF idle
    <3>3. flush'[idle].at = "asleep"
      BY <3>1, <3>2, StaleFacts DEF CacheInv, SmallFlush
    <3> QED
      BY <3>1, <3>3
  <2> QED
    BY <2>1, <2>2
<1>7. \A f \in Flusher :
        \/ /\ flush'[f].at = flush[f].at /\ flush'[f].base = flush[f].base
           /\ flush'[f].linked = flush[f].linked
           /\ ~flush'[f].stale => flush[f].at \in {"off", "asleep"}
        \/ flush[f].at = "off" /\ flush'[f].at = "asleep"
  <2>1. CASE AlreadyScheduled
    <3>1. flush' = FlushesStale
      BY <2>1 DEF PutMerged
    <3> QED
      BY <3>1, StaleFacts DEF CacheInv
  <2>2. CASE ~AlreadyScheduled
    <3> DEFINE idle == CHOOSE f \in Flusher : flush[f].at = "off"
    <3>1. idle \in Flusher /\ flush[idle].at = "off"
      BY <1>1, FreeFlusher DEF CacheInv
    <3>2. flush' = [FlushesStale EXCEPT ![idle].at = "asleep"]
      BY <2>2 DEF PutMerged
    <3> HIDE DEF idle
    <3>3. flush'[idle].at = "asleep"
      BY <3>1, <3>2, StaleFacts DEF CacheInv, SmallFlush
    <3>4. \A f \in Flusher : f # idle => flush'[f] = FlushesStale[f]
      BY <3>2, StaleFacts DEF CacheInv
    <3> QED
      BY <3>1, <3>3, <3>4, StaleFacts DEF CacheInv
  <2> QED
    BY <2>1, <2>2
<1>8. UnderWay' = UnderWay
  BY <1>7 DEF UnderWay
<1> HIDE DEF base, key
<1>9. Scheduling'
  BY <1>2, <1>6 DEF Scheduling
<1>10. FreshFlushes'
  BY <1>7, <1>8 DEF FreshFlushes, UnderWay
<1>11. FreshCalls'
  BY <1>5 DEF FreshCalls
<1>12. Keeping'
  <2>1. SUFFICES ASSUME "overtaken" \notin account'.kinds
                 PROVE  account'.merged \subseteq remembered'.keys
    BY <1>3 DEF Keeping
  <2>2. "overtaken" \notin account.kinds /\ ~adapter[a].stale
    BY <1>1, <1>4, <2>1 DEF SmallCall
  <2>3. account.merged \subseteq base
    <3>1. IF remembered = Unloaded THEN account.merged = {} ELSE base = remembered.keys
      BY <1>1, <2>2 DEF CacheInv, FreshCalls, base
    <3> QED
      BY <2>2, <3>1 DEF CacheInv, Keeping
  <2> QED
    BY <1>2, <1>4, <2>3
<1>13. Saving'
  <2>1. SUFFICES ASSUME account'.kinds \cap {"overtaken", "crowded", "removed"} = {}
                 PROVE  /\ \A f, g \in UnderWay' : f = g
                        /\ \A f \in Flusher : flush'[f].at \in {"open", "fill"} => flush'[f].linked
                        /\ \A f \in Flusher : flush'[f].at = "fill" => useFile' = Truncated
                        /\ \A f \in Flusher : flush'[f].at = "remember" =>
                             useFile' = flush'[f].base
    BY <1>2, <1>5 DEF Saving, CleanIsSaved
  <2>2. account.kinds \cap {"overtaken", "crowded", "removed"} = {}
    BY <1>4, <2>1
  <2> QED
    BY <1>4, <1>7, <1>8, <2>2 DEF CacheInv, Saving
<1> QED
  BY <1>9, <1>10, <1>11, <1>12, <1>13 DEF CacheGoal

(* What the steps of a flush keep.                                         *)
LEMMA FindCleanStep ==
  ASSUME CacheInv, NEW f \in Flusher, FindClean(f)
  PROVE  CacheGoal'
<1>1. /\ useFile' = useFile /\ adapter' = adapter /\ clearing' = clearing
      /\ account' = account
  BY DEF FindClean
<1>2. flush[f].at = "asleep" /\ flush'[f].at = "off"
  BY DEF FindClean, CacheInv, CacheTypes, NoFlush
<1>3. \A g \in Flusher : g # f => flush'[g] = flush[g]
  BY DEF FindClean, CacheInv, CacheTypes
<1>4. UnderWay' = UnderWay
  BY <1>2, <1>3 DEF UnderWay
<1>5. remembered' = Unloaded <=> remembered = Unloaded
  <2>1. CASE remembered # Unloaded
    <3>1. remembered \in SmallEntry /\ remembered' = [remembered EXCEPT !.scheduled = FALSE]
      BY <2>1 DEF FindClean, CacheInv, CacheTypes
    <3>2. remembered' \in SmallEntry
      BY <3>1 DEF SmallEntry
    <3> QED
      BY <2>1, <3>2, EntryFacts
  <2> QED
    BY <2>1 DEF FindClean
<1>6. remembered # Unloaded =>
        /\ remembered'.keys = remembered.keys /\ remembered'.dirty = FALSE
        /\ remembered'.scheduled = FALSE /\ remembered.dirty = FALSE
  BY DEF FindClean, CacheInv, CacheTypes, SmallEntry
<1>7. Scheduling'
  BY <1>5, <1>6 DEF Scheduling
<1>8. FreshFlushes'
  BY <1>3, <1>4, <1>5, <1>6, <1>2 DEF CacheInv, FreshFlushes, UnderWay
<1>9. FreshCalls'
  BY <1>1, <1>5, <1>6 DEF CacheInv, FreshCalls
<1>10. Keeping'
  BY <1>1, <1>2, <1>3, <1>5, <1>6 DEF CacheInv, Keeping
<1>11. Saving'
  BY <1>1, <1>2, <1>3, <1>4, <1>5, <1>6 DEF CacheInv, Saving, CleanIsSaved
<1> QED
  BY <1>7, <1>8, <1>9, <1>10, <1>11 DEF CacheGoal

LEMMA TakeStep ==
  ASSUME CacheInv, NEW f \in Flusher, TakeDirty(f)
  PROVE  CacheGoal'
<1>1. /\ useFile' = useFile /\ adapter' = adapter /\ clearing' = clearing
      /\ account'.merged = account.merged
      /\ account'.kinds = account.kinds \cup (IF UnderWay # {} THEN {"crowded"} ELSE {})
  BY DEF TakeDirty, CacheInv, CacheTypes, Account, Noting
<1>2. /\ flush[f].at = "asleep" /\ flush'[f].at = "open"
      /\ flush'[f].base = remembered.keys /\ flush'[f].linked = TRUE
  BY DEF TakeDirty, CacheInv, CacheTypes, NoFlush
<1>3. \A g \in Flusher : g # f => flush'[g] = flush[g]
  BY DEF TakeDirty, CacheInv, CacheTypes
<1>4. UnderWay' = UnderWay \cup {f}
  BY <1>2, <1>3 DEF UnderWay
<1>5. /\ remembered # Unloaded /\ remembered' # Unloaded
      /\ remembered'.keys = remembered.keys /\ remembered'.dirty = FALSE
      /\ remembered'.scheduled = FALSE
  <2>1. /\ remembered # Unloaded /\ remembered \in SmallEntry
        /\ remembered' = [remembered EXCEPT !.dirty = FALSE, !.scheduled = FALSE]
    BY DEF TakeDirty, CacheInv, CacheTypes
  <2>2. remembered' \in SmallEntry
    BY <2>1 DEF SmallEntry
  <2> QED
    BY <2>1, <2>2, EntryFacts DEF SmallEntry
<1>6. Scheduling'
  BY <1>5 DEF Scheduling
<1>7. FreshFlushes'
  BY <1>2, <1>3, <1>4, <1>5 DEF CacheInv, FreshFlushes, UnderWay
<1>8. FreshCalls'
  BY <1>1, <1>5 DEF CacheInv, FreshCalls
<1>9. Keeping'
  BY <1>1, <1>5 DEF CacheInv, Keeping
<1>10. Saving'
  <2>1. SUFFICES ASSUME account'.kinds \cap {"overtaken", "crowded", "removed"} = {}
                 PROVE  /\ \A g, h \in UnderWay' : g = h
                        /\ \A g \in Flusher : flush'[g].at \in {"open", "fill"} => flush'[g].linked
                        /\ \A g \in Flusher : flush'[g].at = "fill" => useFile' = Truncated
                        /\ \A g \in Flusher : flush'[g].at = "remember" =>
                             useFile' = flush'[g].base
    BY <1>4 DEF Saving, CleanIsSaved
  <2>2. account.kinds \cap {"overtaken", "crowded", "removed"} = {} /\ UnderWay = {}
    BY <1>1, <2>1
  <2> QED
    BY <1>1, <1>2, <1>3, <1>4, <2>2 DEF CacheInv, Saving
<1> QED
  BY <1>6, <1>7, <1>8, <1>9, <1>10 DEF CacheGoal

LEMMA OpenStep ==
  ASSUME CacheInv, NEW f \in Flusher, OpenUseFile(f)
  PROVE  CacheGoal'
<1>1. /\ useFile' = Truncated /\ adapter' = adapter /\ clearing' = clearing
      /\ account' = account /\ remembered' = remembered
  BY DEF OpenUseFile
<1>2. /\ flush[f].at = "open" /\ flush'[f].at = "fill"
      /\ flush'[f].base = flush[f].base /\ flush'[f].stale = flush[f].stale
      /\ flush'[f].linked = flush[f].linked
  BY DEF OpenUseFile, CacheInv, CacheTypes, SmallFlush
<1>3. \A g \in Flusher : g # f => flush'[g] = flush[g]
  BY DEF OpenUseFile, CacheInv, CacheTypes
<1>4. UnderWay' = UnderWay /\ f \in UnderWay
  BY <1>2, <1>3 DEF UnderWay
<1>5. Scheduling'
  BY <1>1, <1>2, <1>3 DEF CacheInv, Scheduling
<1>6. FreshFlushes'
  BY <1>1, <1>2, <1>3, <1>4 DEF CacheInv, FreshFlushes, UnderWay
<1>7. FreshCalls'
  BY <1>1 DEF CacheInv, FreshCalls
<1>8. Keeping'
  BY <1>1, <1>2 DEF CacheInv, Keeping
<1>9. Saving'
  BY <1>1, <1>2, <1>3, <1>4 DEF CacheInv, Saving, CleanIsSaved, UnderWay
<1> QED
  BY <1>5, <1>6, <1>7, <1>8, <1>9 DEF CacheGoal

LEMMA FillStep ==
  ASSUME CacheInv, NEW f \in Flusher, FillUseFile(f)
  PROVE  CacheGoal'
<1>1. /\ adapter' = adapter /\ clearing' = clearing
      /\ account' = account /\ remembered' = remembered
  BY DEF FillUseFile
<1>2. /\ flush[f].at = "fill" /\ flush'[f].at = "remember"
      /\ flush'[f].base = flush[f].base /\ flush'[f].stale = flush[f].stale
  BY DEF FillUseFile, CacheInv, CacheTypes, SmallFlush
<1>3. \A g \in Flusher : g # f => flush'[g] = flush[g]
  BY DEF FillUseFile, CacheInv, CacheTypes
<1>4. UnderWay' = UnderWay /\ f \in UnderWay
  BY <1>2, <1>3 DEF UnderWay
<1>5. useFile = Truncated /\ flush[f].linked => useFile' = flush[f].base
  BY DEF FillUseFile, Written
<1>6. Scheduling'
  BY <1>1, <1>2, <1>3 DEF CacheInv, Scheduling
<1>7. FreshFlushes'
  BY <1>1, <1>2, <1>3, <1>4 DEF CacheInv, FreshFlushes, UnderWay
<1>8. FreshCalls'
  BY <1>1 DEF CacheInv, FreshCalls
<1>9. Keeping'
  BY <1>1, <1>2 DEF CacheInv, Keeping
<1>10. Saving'
  BY <1>1, <1>2, <1>3, <1>4, <1>5 DEF CacheInv, Saving, CleanIsSaved, UnderWay
<1> QED
  BY <1>6, <1>7, <1>8, <1>9, <1>10 DEF CacheGoal

LEMMA FlushedStep ==
  ASSUME CacheInv, NEW f \in Flusher, RememberFlushed(f)
  PROVE  CacheGoal'
<1> DEFINE base == flush[f].base
<1>1. flush[f] \in SmallFlush /\ flush[f].at = "remember" /\ base \in SmallSet /\ f \in UnderWay
  BY DEF RememberFlushed, CacheInv, CacheTypes, SmallFlush, UnderWay
<1>2. /\ remembered' # Unloaded /\ remembered'.keys = base
      /\ remembered'.dirty = FALSE /\ remembered'.scheduled = FALSE
  BY <1>1, EntryFacts DEF RememberFlushed, Clean
<1>3. /\ useFile' = useFile /\ clearing' = clearing
      /\ account'.merged = account.merged
      /\ account'.kinds = account.kinds \cup (IF flush[f].stale THEN {"overtaken"} ELSE {})
  BY DEF RememberFlushed, CacheInv, CacheTypes, Account, Noting
<1>4. \A a \in Adapter : ~adapter'[a].stale => adapter'[a].at = "idle"
  BY StaleFacts DEF RememberFlushed, CacheInv
<1>5. flush'[f].at = "off"
  BY StaleFacts DEF RememberFlushed, CacheInv, NoFlush
<1>6. \A g \in Flusher : g # f =>
        /\ flush'[g].at = flush[g].at /\ flush'[g].base = flush[g].base
        /\ flush'[g].linked = flush[g].linked
        /\ ~flush'[g].stale => flush[g].at \in {"off", "asleep"}
  BY StaleFacts DEF RememberFlushed, CacheInv
<1>7. UnderWay' = UnderWay \ {f}
  BY <1>5, <1>6 DEF UnderWay
<1> HIDE DEF base
<1>8. Scheduling'
  BY <1>2 DEF Scheduling
<1>9. FreshFlushes'
  BY <1>5, <1>6, <1>7 DEF FreshFlushes, UnderWay
<1>10. FreshCalls'
  BY <1>4 DEF FreshCalls
<1>11. Keeping'
  <2>1. SUFFICES ASSUME "overtaken" \notin account'.kinds
                 PROVE  account'.merged \subseteq remembered'.keys
    BY <1>2 DEF Keeping
  <2>2. "overtaken" \notin account.kinds /\ ~flush[f].stale
    BY <1>1, <1>3, <2>1 DEF SmallFlush
  <2>3. remembered # Unloaded /\ base = remembered.keys
    BY <1>1, <2>2 DEF CacheInv, FreshFlushes, base
  <2> QED
    BY <1>2, <1>3, <2>2, <2>3 DEF CacheInv, Keeping
<1>12. Saving'
  <2>1. SUFFICES ASSUME account'.kinds \cap {"overtaken", "crowded", "removed"} = {}
                 PROVE  /\ \A g, h \in UnderWay' : g = h
                        /\ \A g \in Flusher : flush'[g].at \in {"open", "fill"} => flush'[g].linked
                        /\ \A g \in Flusher : flush'[g].at = "fill" => useFile' = Truncated
                        /\ \A g \in Flusher : flush'[g].at = "remember" =>
                             useFile' = flush'[g].base
                        /\ useFile' = remembered'.keys
    BY <1>4 DEF Saving, CleanIsSaved
  <2>2. account.kinds \cap {"overtaken", "crowded", "removed"} = {}
    BY <1>3, <2>1
  <2>3. useFile = base
    BY <1>1, <2>2 DEF CacheInv, Saving, base
  <2> QED
    BY <1>2, <1>3, <1>5, <1>6, <1>7, <2>2, <2>3 DEF CacheInv, Saving
<1> QED
  BY <1>8, <1>9, <1>10, <1>11, <1>12 DEF CacheGoal

LEMMA FailStep ==
  ASSUME CacheInv, NEW f \in Flusher, UseSaveFails(f)
  PROVE  CacheGoal'
<1>1. /\ useFile' = useFile /\ adapter' = adapter /\ clearing' = clearing
      /\ account'.merged = account.merged
      /\ account'.kinds =
           account.kinds \cup {"unsaved"} \cup (IF remembered = Unloaded THEN {"removed"} ELSE {})
  BY DEF UseSaveFails, CacheInv, CacheTypes, Account
<1>2. flush[f].at \in {"open", "fill"} /\ flush'[f].at = "off"
  BY DEF UseSaveFails, CacheInv, CacheTypes, NoFlush
<1>3. \A g \in Flusher : g # f => flush'[g] = flush[g]
  BY DEF UseSaveFails, CacheInv, CacheTypes
<1>4. UnderWay' = UnderWay \ {f} /\ f \in UnderWay
  BY <1>2, <1>3 DEF UnderWay
<1>5. remembered' = Unloaded <=> remembered = Unloaded
  <2>1. CASE remembered # Unloaded
    <3>1. remembered \in SmallEntry /\ remembered' = [remembered EXCEPT !.dirty = TRUE]
      BY <2>1 DEF UseSaveFails, CacheInv, CacheTypes
    <3>2. remembered' \in SmallEntry
      BY <3>1 DEF SmallEntry
    <3> QED
      BY <2>1, <3>2, EntryFacts
  <2> QED
    BY <2>1 DEF UseSaveFails
<1>6. remembered # Unloaded =>
        /\ remembered'.keys = remembered.keys /\ remembered'.dirty = TRUE
        /\ remembered'.scheduled = remembered.scheduled
  BY DEF UseSaveFails, CacheInv, CacheTypes, SmallEntry
<1>7. Scheduling'
  BY <1>1, <1>2, <1>3, <1>5, <1>6 DEF CacheInv, Scheduling
<1>8. FreshFlushes'
  BY <1>2, <1>3, <1>4, <1>5, <1>6 DEF CacheInv, FreshFlushes, UnderWay
<1>9. FreshCalls'
  BY <1>1, <1>5, <1>6 DEF CacheInv, FreshCalls
<1>10. Keeping'
  BY <1>1, <1>2, <1>5, <1>6 DEF CacheInv, Keeping
<1>11. Saving'
  <2>1. SUFFICES ASSUME account'.kinds \cap {"overtaken", "crowded", "removed"} = {}
                 PROVE  /\ \A g, h \in UnderWay' : g = h
                        /\ \A g \in Flusher : flush'[g].at \in {"open", "fill"} => flush'[g].linked
                        /\ \A g \in Flusher : flush'[g].at = "fill" => useFile' = Truncated
                        /\ \A g \in Flusher : flush'[g].at = "remember" =>
                             useFile' = flush'[g].base
                        /\ \A a \in Adapter : adapter'[a].at = "remember" => adapter'[a].stale
                        /\ remembered' = Unloaded \/ remembered'.dirty
    BY DEF Saving, CleanIsSaved
  <2>2. account.kinds \cap {"overtaken", "crowded", "removed"} = {} /\ remembered # Unloaded
    BY <1>1, <2>1
  <2>3. \A a \in Adapter : adapter[a].at = "remember" => adapter[a].stale
    BY <2>2 DEF CacheInv, FreshCalls
  <2> QED
    BY <1>1, <1>2, <1>3, <1>4, <1>6, <2>2, <2>3 DEF CacheInv, Saving
<1> QED
  BY <1>7, <1>8, <1>9, <1>10, <1>11 DEF CacheGoal

(* What Clear, Prune and the end of the process keep.                      *)
LEMMA ClearStep ==
  ASSUME CacheInv, ClearRemembered
  PROVE  CacheGoal'
<1>1. /\ remembered' = Unloaded /\ useFile' = useFile
      /\ account'.merged = {} /\ account'.kinds = account.kinds
  BY DEF ClearRemembered, CacheInv, CacheTypes, Account
<1>2. \A a \in Adapter : ~adapter'[a].stale => adapter'[a].at = "idle"
  BY StaleFacts DEF ClearRemembered, CacheInv
<1>3. \A f \in Flusher :
        /\ flush'[f].at = flush[f].at /\ flush'[f].base = flush[f].base
        /\ flush'[f].linked = flush[f].linked
        /\ ~flush'[f].stale => flush[f].at \in {"off", "asleep"}
  BY StaleFacts DEF ClearRemembered, CacheInv
<1>4. UnderWay' = UnderWay
  BY <1>3 DEF UnderWay
<1>5. Scheduling' /\ FreshCalls' /\ Keeping'
  BY <1>1, <1>2 DEF Scheduling, FreshCalls, Keeping
<1>6. FreshFlushes'
  BY <1>3, <1>4 DEF FreshFlushes, UnderWay
<1>7. Saving'
  BY <1>1, <1>2, <1>3, <1>4 DEF CacheInv, Saving, CleanIsSaved
<1> QED
  BY <1>5, <1>6, <1>7 DEF CacheGoal

LEMMA RemoveStep ==
  ASSUME CacheInv, ClearUseFile \/ PruneFile
  PROVE  CacheGoal'
<1>1. /\ remembered' = remembered /\ useFile' = NoFile /\ adapter' = adapter
  BY DEF ClearUseFile, PruneFile
<1>2. \A f \in Flusher :
        /\ flush'[f].at = flush[f].at /\ flush'[f].base = flush[f].base
        /\ flush'[f].stale = flush[f].stale
        /\ flush[f].at # "fill" => flush'[f].linked = flush[f].linked
  BY UnlinkedFacts DEF ClearUseFile, PruneFile, CacheInv
<1>3. UnderWay' = UnderWay
  BY <1>2 DEF UnderWay
<1>4. /\ "overtaken" \in account.kinds <=> "overtaken" \in account'.kinds
      /\ "unsaved" \in account.kinds <=> "unsaved" \in account'.kinds
      /\ account.kinds \subseteq account'.kinds
      /\ account'.merged \subseteq account.merged
      /\ \/ "removed" \in account'.kinds
         \/ /\ remembered = Unloaded
            /\ \A f \in Flusher : flush[f].at \notin {"fill", "remember"}
            /\ \A a \in Adapter : adapter[a].at # "remember"
  <2>1. account \in Account
    BY DEF CacheInv, CacheTypes
  <2>2. CASE ClearUseFile
    BY <2>1, <2>2 DEF ClearUseFile, Account, Noting
  <2>3. CASE PruneFile
    <3>1. /\ account'.kinds = account.kinds \cup {"removed"}
          /\ account'.merged = IF remembered = Unloaded THEN {} ELSE account.merged
      BY <2>1, <2>3 DEF PruneFile, Account
    <3> QED
      BY <3>1
  <2> QED
    BY <2>2, <2>3
<1>5. remembered = Unloaded => account'.merged = {}
  <2>1. CASE ClearUseFile
    BY <1>4, <2>1 DEF ClearUseFile, CacheInv, Keeping
  <2>2. CASE PruneFile
    BY <2>2 DEF PruneFile, CacheInv, CacheTypes, Account
  <2> QED
    BY <2>1, <2>2
<1>6. Scheduling'
  BY <1>1, <1>2, <1>4 DEF CacheInv, Scheduling
<1>7. FreshFlushes'
  BY <1>1, <1>2, <1>3 DEF CacheInv, FreshFlushes, UnderWay
<1>8. FreshCalls'
  BY <1>1, <1>4, <1>5 DEF CacheInv, FreshCalls
<1>9. Keeping'
  BY <1>1, <1>4, <1>5 DEF CacheInv, Keeping
<1>10. Saving'
  <2>1. SUFFICES ASSUME account'.kinds \cap {"overtaken", "crowded", "removed"} = {}
                 PROVE  /\ \A g, h \in UnderWay' : g = h
                        /\ \A g \in Flusher : flush'[g].at \in {"open", "fill"} => flush'[g].linked
                        /\ \A g \in Flusher : flush'[g].at \notin {"fill", "remember"}
                        /\ \A a \in Adapter : adapter'[a].at # "remember"
                        /\ remembered' = Unloaded
    BY DEF Saving, CleanIsSaved
  <2>2. account.kinds \cap {"overtaken", "crowded", "removed"} = {}
    BY <1>4, <2>1
  <2> QED
    BY <1>1, <1>2, <1>3, <1>4, <2>1, <2>2 DEF CacheInv, Saving
<1> QED
  BY <1>6, <1>7, <1>8, <1>9, <1>10 DEF CacheGoal

LEMMA RestartStep ==
  ASSUME CacheInv, ProcessEnds
  PROVE  CacheGoal'
<1>1. /\ remembered' = Unloaded /\ useFile' = useFile /\ clearing' = FALSE
      /\ account'.kinds = {}
      /\ account'.merged = IF useFile \in {NoFile, Truncated, Mixed} THEN {} ELSE useFile
  BY DEF ProcessEnds, CacheInv, CacheTypes, Account
<1>2. \A a \in Adapter : adapter'[a].at = "idle"
  BY DEF ProcessEnds, NoAdapterCall
<1>3. \A f \in Flusher : flush'[f].at = "off"
  BY DEF ProcessEnds, NoFlush
<1>4. UnderWay' = {}
  BY <1>3 DEF UnderWay
<1>5. Scheduling' /\ FreshFlushes' /\ FreshCalls'
  BY <1>1, <1>2, <1>4 DEF Scheduling, FreshFlushes, FreshCalls
<1>6. Keeping'
  BY <1>1, <1>3 DEF CacheInv, CacheTypes, Keeping
<1>7. Saving'
  BY <1>1, <1>2, <1>3, <1>4 DEF Saving, CleanIsSaved
<1> QED
  BY <1>5, <1>6, <1>7 DEF CacheGoal

LEMMA CacheInitial == ToolUseInit => CacheInv
<1> SUFFICES ASSUME ToolUseInit PROVE CacheInv
  OBVIOUS
<1> USE DEF ToolUseInit
<1>1. CacheTypes
  BY SmallSets DEF CacheTypes, NoAdapterCall, NoFlush, SmallCall, SmallFlush,
                   AdapterPlace, FlushPlace, Account
<1>2. BusyFlushers = {} /\ CallingAdapters = {} /\ UnderWay = {}
  BY DEF BusyFlushers, CallingAdapters, UnderWay, NoAdapterCall, NoFlush
<1>3. MaxCacheCalls \in Nat
  BY FS_CardinalityType, ToolUseAssumption
<1>4. Counted
  BY <1>2, <1>3, FS_EmptySet DEF Counted
<1>5. Scheduling /\ FreshFlushes /\ FreshCalls /\ Keeping /\ Saving
  BY <1>2 DEF Scheduling, FreshFlushes, FreshCalls, Keeping, Saving, CleanIsSaved,
              NoAdapterCall, NoFlush
<1> QED
  BY <1>1, <1>4, <1>5 DEF CacheInv

LEMMA CacheStep == CacheInv /\ [ToolUseNext]_toolVars => CacheInv'
<1> SUFFICES ASSUME CacheInv, [ToolUseNext]_toolVars
             PROVE  CacheInv'
  OBVIOUS
<1>1. CacheTypes /\ Counted
  BY DEF CacheInv
<1>2. ASSUME NEW a \in Adapter, NEW key \in Key \cup {NoKey}, CallCache(a, key)
      PROVE  CacheInv'
  BY <1>1, <1>2, CallTypes, CallCounted, CallStep DEF CacheInv, CacheGoal
<1>3. ASSUME NEW a \in Adapter, ReadUseFile(a)
      PROVE  CacheInv'
  BY <1>1, <1>3, ReadTypes, OtherCounted, ReadStep DEF CacheInv, CacheGoal
<1>4. ASSUME NEW a \in Adapter, RememberLoaded(a)
      PROVE  CacheInv'
  BY <1>1, <1>4, RememberTypes, OtherCounted, RememberStep DEF CacheInv, CacheGoal
<1>5. ASSUME NEW a \in Adapter, PutMerged(a)
      PROVE  CacheInv'
  BY <1>1, <1>5, PutTypes, PutCounted, PutStep DEF CacheInv, CacheGoal
<1>6. ASSUME NEW f \in Flusher,
             \/ FindClean(f) \/ TakeDirty(f) \/ OpenUseFile(f) \/ FillUseFile(f)
             \/ RememberFlushed(f) \/ UseSaveFails(f)
      PROVE  CacheInv'
  <2>1. CacheTypes' /\ Counted'
    BY <1>1, <1>6, FlushTypes, OtherCounted
  <2>2. CacheGoal'
    BY <1>6, FindCleanStep, TakeStep, OpenStep, FillStep, FlushedStep, FailStep
  <2> QED
    BY <2>1, <2>2 DEF CacheInv, CacheGoal
<1>7. ASSUME ClearRemembered \/ ClearUseFile \/ PruneFile \/ ProcessEnds
      PROVE  CacheInv'
  <2>1. CacheTypes' /\ Counted'
    BY <1>1, <1>7, EndTypes, OtherCounted
  <2>2. CacheGoal'
    BY <1>7, ClearStep, RemoveStep, RestartStep
  <2> QED
    BY <2>1, <2>2 DEF CacheInv, CacheGoal
<1>8. CASE UNCHANGED toolVars
  <2> USE <1>8 DEF toolVars
  <2>1. CacheTypes' /\ Counted'
    BY <1>1 DEF CacheTypes, Counted, BusyFlushers, CallingAdapters
  <2>2. CacheGoal'
    BY DEF CacheInv, CacheGoal, Scheduling, FreshFlushes, FreshCalls, Keeping, Saving,
           CleanIsSaved, UnderWay
  <2> QED
    BY <2>1, <2>2 DEF CacheInv, CacheGoal
<1> QED
  BY <1>2, <1>3, <1>4, <1>5, <1>6, <1>7, <1>8 DEF ToolUseNext

(* The tool-use cache's variables keep their types, and what memory holds  *)
(* never exceeds MaxEntriesPerSession, for any number of sockets and       *)
(* goroutines.                                                             *)
THEOREM ToolUseTypeCorrect == ToolUseSpec => []ToolUseTypeOK
<1>1. CacheInv => ToolUseTypeOK
  <2> SUFFICES ASSUME CacheInv PROVE ToolUseTypeOK
    OBVIOUS
  <2>1. CacheTypes
    BY DEF CacheInv
  <2>2. remembered \in {Unloaded} \cup MemoryEntry
    BY <2>1 DEF CacheTypes, SmallEntry, SmallSet, MemoryEntry
  <2>3. remembered # Unloaded => Cardinality(remembered.keys) <= MaxKeys
    BY <2>1 DEF CacheTypes, SmallEntry, SmallSet
  <2>4. useFile \in UseFile
    BY <2>1 DEF CacheTypes, SmallSet, UseFile
  <2>5. adapter \in [Adapter -> AdapterCall]
    <3>1. SmallCall \subseteq AdapterCall
      BY SmallSets DEF SmallCall, AdapterCall, AdapterPlace
    <3> QED
      BY <2>1, <3>1 DEF CacheTypes
  <2>6. flush \in [Flusher -> FlushCall]
    <3>1. SmallFlush \subseteq FlushCall
      BY SmallSets DEF SmallFlush, FlushCall, FlushPlace
    <3> QED
      BY <2>1, <3>1 DEF CacheTypes
  <2> QED
    BY <2>1, <2>2, <2>3, <2>4, <2>5, <2>6 DEF ToolUseTypeOK, CacheTypes
<1> QED
  BY <1>1, CacheInitial, CacheStep, PTL DEF ToolUseSpec

(* Merged keys stay in memory, clean entries are on disk and dirty ones    *)
(* have a flush to come, until a step overtakes another, a file is removed *)
(* or a write fails (MergeAsync, delayedFlush, rememberClean).             *)
THEOREM ToolUseKeepsInOrder == ToolUseSpec => []KeptInOrder
<1>1. CacheInv => KeptInOrder
  <2> SUFFICES ASSUME CacheInv PROVE KeptInOrder
    OBVIOUS
  <2>1. Without({"overtaken"}) => KeysKept
    BY DEF CacheInv, Keeping, Without, KeysKept
  <2>2. Without({"overtaken", "crowded", "removed"}) => CleanIsSaved
    BY DEF CacheInv, Saving, Without
  <2>3. Without({"unsaved"}) => DirtyIsScheduled
    BY DEF CacheInv, Scheduling, Without, DirtyIsScheduled
  <2> QED
    BY <2>1, <2>2, <2>3 DEF KeptInOrder
<1> QED
  BY <1>1, CacheInitial, CacheStep, PTL DEF ToolUseSpec

-----------------------------------------------------------------------------
(* The list of blocks: each is in it at most once.                         *)
NoRepeats(s) == \A i, j \in DOMAIN s : s[i] = s[j] => i = j

LEMMA RemoveOne ==
  ASSUME NEW S, NEW s \in Seq(S), NoRepeats(s), NEW i \in DOMAIN s
  PROVE  /\ RemoveAt(s, i) \in Seq(S)
         /\ NoRepeats(RemoveAt(s, i))
         /\ ToSet(RemoveAt(s, i)) = ToSet(s) \ {s[i]}
<1> DEFINE n == Len(s)
           low == SubSeq(s, 1, i - 1)
           high == SubSeq(s, i + 1, n)
           r == RemoveAt(s, i)
<1>1. /\ n \in Nat /\ DOMAIN s = 1..n /\ i \in 1..n
      /\ \A k \in 1..n : s[k] \in S
  BY LenProperties, ElementOfSeq
<1>2. /\ low \in Seq(S) /\ Len(low) = i - 1
      /\ \A k \in 1..(i - 1) : low[k] = s[k]
  <2>1. 1 \in Int /\ i - 1 \in Int /\ \A k \in 1..(i - 1) : s[k] \in S
    BY <1>1
  <2> HIDE DEF n
  <2>2. /\ low \in Seq(S) /\ Len(low) = IF 1 <= i - 1 THEN i - 1 - 1 + 1 ELSE 0
        /\ \A k \in 1..(i - 1 - 1 + 1) : low[k] = s[1 + k - 1]
    BY <2>1, SubSeqProperties
  <2> QED
    BY <1>1, <2>2
<1>3. /\ high \in Seq(S) /\ Len(high) = n - i
      /\ \A k \in 1..(n - i) : high[k] = s[i + k]
  <2>1. i + 1 \in Int /\ n \in Int /\ \A k \in (i + 1)..n : s[k] \in S
    BY <1>1
  <2>2. /\ high \in Seq(S) /\ Len(high) = IF i + 1 <= n THEN n - (i + 1) + 1 ELSE 0
        /\ \A k \in 1..(n - (i + 1) + 1) : high[k] = s[(i + 1) + k - 1]
    BY <2>1, SubSeqProperties
  <2> HIDE DEF n
  <2> QED
    BY <1>1, <2>2
<1>4. r = low \o high
  BY DEF RemoveAt
<1> HIDE DEF n, low, high, r
<1>5. /\ r \in Seq(S) /\ Len(r) = n - 1
      /\ \A k \in 1..(n - 1) : r[k] = IF k <= i - 1 THEN low[k] ELSE high[k - (i - 1)]
  <2>1. /\ r \in Seq(S) /\ Len(r) = Len(low) + Len(high)
        /\ \A k \in 1..(Len(low) + Len(high)) :
             r[k] = IF k <= Len(low) THEN low[k] ELSE high[k - Len(low)]
    BY <1>2, <1>3, <1>4, ConcatProperties
  <2>2. Len(low) = i - 1 /\ Len(low) + Len(high) = n - 1
    BY <1>1, <1>2, <1>3
  <2> QED
    BY <2>1, <2>2
<1>6. \A k \in 1..(n - 1) : r[k] = IF k < i THEN s[k] ELSE s[k + 1]
  <2>1. ASSUME NEW k \in 1..(n - 1)
        PROVE  r[k] = IF k < i THEN s[k] ELSE s[k + 1]
    <3>1. CASE k < i
      <4>1. k <= i - 1 /\ k \in 1..(i - 1)
        BY <1>1, <3>1
      <4> QED
        BY <1>2, <1>5, <3>1, <4>1
    <3>2. CASE ~(k < i)
      <4>1. ~(k <= i - 1) /\ k - (i - 1) \in 1..(n - i) /\ i + (k - (i - 1)) = k + 1
        BY <1>1, <3>2
      <4> QED
        BY <1>3, <1>5, <3>2, <4>1
    <3> QED
      BY <3>1, <3>2
  <2> QED
    BY <2>1
<1>7. DOMAIN r = 1..(n - 1)
  BY <1>5, LenProperties
<1>8. NoRepeats(r)
  <2>1. ASSUME NEW j \in 1..(n - 1), NEW k \in 1..(n - 1), r[j] = r[k]
        PROVE  j = k
    <3> DEFINE J == IF j < i THEN j ELSE j + 1
               K == IF k < i THEN k ELSE k + 1
    <3>1. J \in 1..n /\ K \in 1..n
      BY <1>1
    <3>2. s[J] = s[K]
      BY <1>6, <2>1
    <3>3. J = K
      BY <1>1, <3>1, <3>2 DEF NoRepeats
    <3> QED
      BY <1>1, <3>3
  <2> QED
    BY <1>7, <2>1 DEF NoRepeats
<1>9. ToSet(r) = ToSet(s) \ {s[i]}
  <2>1. ASSUME NEW x \in ToSet(r)
        PROVE  x \in ToSet(s) /\ x # s[i]
    <3>1. PICK k \in 1..(n - 1) : x = r[k]
      BY <1>7 DEF ToSet
    <3> DEFINE K == IF k < i THEN k ELSE k + 1
    <3>2. K \in 1..n /\ K # i /\ x = s[K]
      BY <1>1, <1>6, <3>1
    <3> HIDE DEF K
    <3> QED
      BY <1>1, <3>2 DEF ToSet, NoRepeats
  <2>2. ASSUME NEW x \in ToSet(s), x # s[i]
        PROVE  x \in ToSet(r)
    <3>1. PICK k \in 1..n : x = s[k]
      BY <1>1 DEF ToSet
    <3>2. k # i
      BY <2>2, <3>1
    <3> DEFINE K == IF k < i THEN k ELSE k - 1
    <3>3. K \in 1..(n - 1) /\ (IF K < i THEN K ELSE K + 1) = k
      BY <1>1, <3>2
    <3>4. x = r[K]
      BY <1>6, <3>1, <3>3
    <3> HIDE DEF K
    <3> QED
      BY <1>7, <3>3, <3>4 DEF ToSet
  <2> QED
    BY <2>1, <2>2
<1> QED
  BY <1>5, <1>8, <1>9 DEF r

LEMMA OrderButFacts ==
  ASSUME order \in Seq(Block), NoRepeats(order), NEW b
  PROVE  /\ OrderBut(b) \in Seq(Block)
         /\ NoRepeats(OrderBut(b))
         /\ ToSet(OrderBut(b)) = ToSet(order) \ {b}
<1>1. CASE b \in ToSet(order)
  <2> DEFINE i == CHOOSE i \in DOMAIN order : order[i] = b
  <2>1. i \in DOMAIN order /\ order[i] = b
    BY <1>1 DEF ToSet
  <2>2. OrderBut(b) = RemoveAt(order, i)
    BY <1>1 DEF OrderBut
  <2> HIDE DEF i
  <2> QED
    BY <2>1, <2>2, RemoveOne
<1>2. CASE b \notin ToSet(order)
  BY <1>2 DEF OrderBut
<1> QED
  BY <1>1, <1>2

LEMMA AppendFacts ==
  ASSUME NEW S, NEW s \in Seq(S), NoRepeats(s), NEW e \in S, e \notin ToSet(s)
  PROVE  /\ Append(s, e) \in Seq(S)
         /\ NoRepeats(Append(s, e))
         /\ ToSet(Append(s, e)) = ToSet(s) \cup {e}
<1> DEFINE a == Append(s, e)
           n == Len(s)
<1>1. /\ a \in Seq(S) /\ Len(a) = n + 1 /\ a[n + 1] = e
      /\ \A i \in 1..n : a[i] = s[i]
  BY AppendProperties
<1>2. n \in Nat /\ DOMAIN s = 1..n /\ DOMAIN a = 1..(n + 1)
  BY <1>1, LenProperties
<1>3. \A i \in 1..n : s[i] # e
  BY <1>2 DEF ToSet
<1>4. \A i \in 1..(n + 1) : i \in 1..n \/ i = n + 1
  BY <1>2
<1>5. 1..n \subseteq 1..(n + 1) /\ n + 1 \in 1..(n + 1)
  BY <1>2
<1> HIDE DEF a, n
<1>6. NoRepeats(a)
  BY <1>1, <1>2, <1>3, <1>4 DEF NoRepeats
<1>7. ToSet(a) = ToSet(s) \cup {e}
  BY <1>1, <1>2, <1>4, <1>5 DEF ToSet
<1> QED
  BY <1>1, <1>6, <1>7 DEF a

LEMMA NewestFacts ==
  ASSUME order \in Seq(Block), NoRepeats(order), NEW b \in Block
  PROVE  /\ Newest(b) \in Seq(Block)
         /\ NoRepeats(Newest(b))
         /\ ToSet(Newest(b)) = ToSet(order) \cup {b}
<1>1. /\ OrderBut(b) \in Seq(Block) /\ NoRepeats(OrderBut(b))
      /\ ToSet(OrderBut(b)) = ToSet(order) \ {b}
  BY OrderButFacts
<1>2. b \notin ToSet(OrderBut(b))
  BY <1>1
<1> HIDE DEF OrderBut
<1>3. /\ Newest(b) \in Seq(Block) /\ NoRepeats(Newest(b))
      /\ ToSet(Newest(b)) = ToSet(OrderBut(b)) \cup {b}
  BY <1>1, <1>2, AppendFacts DEF Newest
<1> QED
  BY <1>1, <1>3

(* A list without repetitions is as long as its set is large.              *)
LEMMA LengthIsCardinality ==
  ASSUME NEW S, NEW s \in Seq(S), NoRepeats(s)
  PROVE  IsFiniteSet(ToSet(s)) /\ Cardinality(ToSet(s)) = Len(s)
<1>1. Len(s) \in Nat /\ DOMAIN s = 1..Len(s) /\ s \in [1..Len(s) -> S]
  BY LenProperties
<1>2. s \in [1..Len(s) -> ToSet(s)]
  BY <1>1 DEF ToSet
<1>3. s \in Bijection(1..Len(s), ToSet(s))
  BY <1>1, <1>2 DEF Bijection, Injection, Surjection, IsInjective, ToSet, NoRepeats
<1>4. ExistsBijection(1..Len(s), ToSet(s))
  BY <1>3 DEF ExistsBijection
<1>5. IsFiniteSet(ToSet(s))
  BY <1>1, <1>4, FS_NatBijection
<1> QED
  BY <1>1, <1>4, <1>5, FS_CountingElements

-----------------------------------------------------------------------------
(* The sweep's list: what stays after it is within the limit.              *)
LEMMA EmptyFits == Fits(<<>>)
<1>1. Len(<<>>) = 0
  BY EmptySeq
<1> DEFINE s == <<>>
           of == CHOOSE of : of = [i \in 0..Len(s) |->
             IF i = 0 THEN 0
             ELSE of[i - 1] + (IF file[Payload(s[i])] = "whole" THEN Size[s[i]] ELSE 0)]
<1>2. of[0] = 0
  <2> DEFINE zero == [i \in 0..0 |-> 0]
  <2>1. zero = [i \in 0..Len(s) |->
             IF i = 0 THEN 0
             ELSE zero[i - 1] + (IF file[Payload(s[i])] = "whole" THEN Size[s[i]] ELSE 0)]
    BY <1>1
  <2>2. of = [i \in 0..Len(s) |->
             IF i = 0 THEN 0
             ELSE of[i - 1] + (IF file[Payload(s[i])] = "whole" THEN Size[s[i]] ELSE 0)]
    BY <2>1
  <2>3. 0 \in 0..Len(s)
    BY <1>1
  <2> HIDE DEF of
  <2> QED
    BY <2>2, <2>3
<1>3. Bytes(<<>>) = 0
  BY <1>1, <1>2 DEF Bytes
<1> QED
  BY <1>1, <1>3, ArchiveAssumption DEF Fits

LEMMA DoomedFacts ==
  ASSUME order \in Seq(Block), NoRepeats(order)
  PROVE  /\ Doomed \in Seq(Block)
         /\ IsFiniteSet(ToSet(order) \ ToSet(Doomed))
         /\ Cardinality(ToSet(order) \ ToSet(Doomed)) <= MaxEntries
<1> DEFINE n == Len(order)
           fitting == {i \in 1..(n + 1) : Fits(From(order, i))}
           Good(i) == /\ Fits(From(order, i))
                      /\ \A j \in 1..(i - 1) : ~Fits(From(order, j))
           kept == CHOOSE i \in 1..(n + 1) : Good(i)
<1>1. n \in Nat /\ DOMAIN order = 1..n /\ \A i \in 1..n : order[i] \in Block
  BY LenProperties, ElementOfSeq
<1>2. kept \in 1..(n + 1) /\ Fits(From(order, kept))
  <2>1. From(order, n + 1) = <<>>
    BY <1>1, SubSeqEmpty DEF From
  <2>2. n + 1 \in fitting
    BY <1>1, <2>1, EmptyFits
  <2>3. fitting \in SUBSET Nat /\ IsFiniteSet(fitting)
    <3>1. fitting \in SUBSET (1..(n + 1)) /\ 1..(n + 1) \in SUBSET Nat
      BY <1>1
    <3>2. IsFiniteSet(1..(n + 1))
      BY <1>1, FS_Interval
    <3> HIDE DEF fitting
    <3> QED
      BY <3>1, <3>2, FS_Subset
  <2>4. PICK i \in fitting : \A k \in fitting : i <= k
    <3> HIDE DEF fitting
    <3> QED
      BY <2>2, <2>3, LeastNumber
  <2>5. i \in 1..(n + 1) /\ Good(i)
    BY <1>1, <2>4
  <2> HIDE DEF Good
  <2>6. kept \in 1..(n + 1) /\ Good(kept)
    BY <2>5
  <2> QED
    BY <2>6 DEF Good
<1>3. Doomed = SubSeq(order, 1, kept - 1)
  BY DEF Doomed, FirstKept
<1> HIDE DEF kept, fitting
<1>4. /\ Doomed \in Seq(Block) /\ Len(Doomed) = kept - 1
      /\ \A i \in 1..(kept - 1) : Doomed[i] = order[i]
  <2>1. \A i \in 1..(kept - 1) : order[i] \in Block
    BY <1>1, <1>2
  <2>2. /\ Doomed \in Seq(Block) /\ Len(Doomed) = IF 1 <= kept - 1 THEN kept - 1 - 1 + 1 ELSE 0
        /\ \A i \in 1..(kept - 1 - 1 + 1) : Doomed[i] = order[1 + i - 1]
    <3>1. kept - 1 \in Int /\ 1 \in Int
      BY <1>1, <1>2
    <3> HIDE DEF n
    <3> QED
      BY <1>3, <2>1, <3>1, SubSeqProperties
  <2> HIDE DEF n
  <2> QED
    BY <1>1, <1>2, <2>2
<1>5. n - kept + 1 <= MaxEntries /\ n - kept + 1 \in Nat
  <2>1. Len(From(order, kept)) = IF kept <= n THEN n - kept + 1 ELSE 0
    <3>1. kept \in Int /\ n \in Int /\ \A i \in kept..n : order[i] \in Block
      BY <1>1, <1>2
    <3> HIDE DEF n
    <3>2. From(order, kept) = SubSeq(order, kept, n)
      BY DEF From, n
    <3> QED
      BY <3>1, <3>2, SubSeqProperties
  <2>2. Len(From(order, kept)) <= MaxEntries
    BY <1>2 DEF Fits
  <2> HIDE DEF n
  <2> QED
    BY <1>1, <1>2, <2>1, <2>2, ArchiveAssumption
<1> DEFINE rest == ToSet(order) \ ToSet(Doomed)
           idx == kept..n
           pick == [i \in idx |-> order[i]]
<1>6. rest \subseteq {order[i] : i \in idx}
  <2>1. ASSUME NEW i \in 1..n, order[i] \notin ToSet(Doomed)
        PROVE  i \in idx
    <3>1. DOMAIN Doomed = 1..(kept - 1)
      BY <1>4, LenProperties
    <3>2. i \notin 1..(kept - 1)
      BY <1>4, <2>1, <3>1 DEF ToSet
    <3> HIDE DEF n
    <3> QED
      BY <1>1, <1>2, <3>2
  <2> QED
    BY <1>1, <2>1 DEF ToSet
<1>7. /\ IsFiniteSet(idx) /\ Cardinality(idx) = n - kept + 1
  <2> HIDE DEF n
  <2>1. IsFiniteSet(kept..n) /\ Cardinality(kept..n) = IF kept > n THEN 0 ELSE n - kept + 1
    <3>1. kept \in Int /\ n \in Int
      BY <1>1, <1>2
    <3> QED
      BY <3>1, FS_Interval
  <2> QED
    BY <1>1, <1>2, <2>1
<1> DEFINE image == {order[i] : i \in idx}
<1>8. pick \in Surjection(idx, image)
  BY DEF Surjection
<1> HIDE DEF idx, pick, image, n
<1>9. IsFiniteSet(image) /\ Cardinality(image) <= Cardinality(idx)
  BY <1>7, <1>8, FS_Surjection
<1>10. rest \in SUBSET image
  BY <1>6 DEF image
<1> HIDE DEF rest
<1>11. IsFiniteSet(rest) /\ Cardinality(rest) <= Cardinality(image)
  BY <1>9, <1>10, FS_Subset
<1>12. Cardinality(rest) \in Nat /\ Cardinality(image) \in Nat
  BY <1>9, <1>11, FS_CardinalityType
<1> QED
  BY <1>4, <1>5, <1>7, <1>9, <1>11, <1>12, ArchiveAssumption DEF rest

-----------------------------------------------------------------------------
(* Calls and their files.                                                  *)
NotOnBlock == {"idle", "expanded"}
Shapes ==
  \A w \in Archiver :
    /\ archiver[w].phase = "lost" => archiver[w].at \in {"payload", "meta"}
    /\ archiver[w].block = NoBlock <=> archiver[w].at \in NotOnBlock
    /\ archiver[w].at = "unlink" => archiver[w].doomed # <<>>

(* A block on which no two have clashed. Nobody removes it while another   *)
(* archives it. Its payload is whole before its metadata is written and as *)
(* long as they are there, and the metadata of what a call has returned or *)
(* is about to return is there until it is evicted.                        *)
PayloadFirst(b) ==
  Archived(b) \/ (\E w \in Archiver : BlockOf(w) = b /\ ArchiverAt(w, "meta")) =>
    \/ file[Payload(b)] = "whole"
    \/ \E w \in Archiver :
         BlockOf(w) = b /\ ArchiverAt(w, "payload") /\ archiver[w].phase = "fill"
Promised(b) == b \in past.handed \/ \E w \in Archiver : BlockOf(w) = b /\ ~Archiving(w, b)
MetaKept(b) ==
  b \notin past.evicted /\ Promised(b) =>
    \/ Archived(b)
    \/ \E w \in Archiver :
         BlockOf(w) = b /\ ArchiverAt(w, "meta") /\ archiver[w].phase = "fill"
BlockInv(b) ==
  /\ \A w, v \in Archiver : ~(Removing(w, b) /\ Archiving(v, b))
  /\ \A w \in Archiver : Archiving(w, b) => archiver[w].phase # "lost"
  /\ \A w \in Archiver : Removing(w, b) => file[Meta(b)] = "none"
  /\ PayloadFirst(b)
  /\ MetaKept(b)

(* The blocks that a call has still to sweep for.                          *)
Due(w) ==
  IF archiver[w].at \in {"payload", "meta", "stats", "archived", "list"} THEN {BlockOf(w)}
  ELSE IF archiver[w].at \in {"sweep", "unlink"} THEN ToSet(archiver[w].doomed) ELSE {}
Excess == ToSet(order) \ (past.unswept \cup UNION {Due(w) : w \in Archiver})
Within == IsFiniteSet(Excess) /\ Cardinality(Excess) <= MaxEntries

ArchiveTypes ==
  ArchiveTypeOK /\ Shapes /\ NoRepeats(order) /\ IsFiniteSet(past.unswept)

ArchiveInv == ArchiveTypes /\ Within /\ \A b \in Block : b \notin past.clash => BlockInv(b)

LEMMA FileFacts ==
  /\ Stats \in ArchiveFile
  /\ \A b \in Block : /\ Payload(b) \in ArchiveFile /\ Meta(b) \in ArchiveFile
                      /\ Payload(b) # Stats /\ Meta(b) # Stats
  /\ \A b, c \in Block : /\ Payload(b) # Meta(c)
                         /\ Payload(b) = Payload(c) => b = c
                         /\ Meta(b) = Meta(c) => b = c
  BY ArchiveAssumption DEF ArchiveFile, Payload, Meta, Stats

LEMMA TargetFacts ==
  ASSUME ArchiveTypes, NEW w \in Archiver
  PROVE  /\ TargetFile(w) \in ArchiveFile
         /\ \A b \in Block :
              /\ TargetFile(w) = Payload(b) <=> BlockOf(w) = b /\ ArchiverAt(w, "payload")
              /\ TargetFile(w) = Meta(b) <=> BlockOf(w) = b /\ ArchiverAt(w, "meta")
<1>1. archiver[w] \in ArchiverState
  BY DEF ArchiveTypes, ArchiveTypeOK
<1>2. archiver[w].at \in {"payload", "meta"} => archiver[w].block \in Block
  BY <1>1 DEF ArchiveTypes, Shapes, ArchiverState, NotOnBlock
<1>3. CASE archiver[w].at = "payload"
  <2>1. TargetFile(w) = Payload(BlockOf(w))
    BY <1>3 DEF TargetFile, FileOf, BlockOf
  <2> QED
    BY <1>2, <1>3, <2>1, FileFacts DEF BlockOf, ArchiverAt
<1>4. CASE archiver[w].at = "meta"
  <2>1. TargetFile(w) = Meta(BlockOf(w))
    BY <1>4 DEF TargetFile, FileOf, BlockOf
  <2> QED
    BY <1>2, <1>4, <2>1, FileFacts DEF BlockOf, ArchiverAt
<1>5. CASE archiver[w].at \notin {"payload", "meta"}
  <2>1. TargetFile(w) = Stats
    BY <1>5 DEF TargetFile, FileOf
  <2> QED
    BY <1>5, <2>1, FileFacts DEF BlockOf, ArchiverAt
<1> QED
  BY <1>3, <1>4, <1>5

(* What a removal does to the calls: their files may get lost.             *)
LEMMA UnlinkFacts ==
  ASSUME NEW f \in ArchiveFile, NEW states \in [Archiver -> ArchiverState],
         file \in [ArchiveFile -> Held], Unlink(f, states)
  PROVE  /\ file' = [file EXCEPT ![f] = "none"]
         /\ archiver' \in [Archiver -> ArchiverState]
         /\ \A v \in Archiver :
              /\ archiver'[v].at = states[v].at
              /\ archiver'[v].block = states[v].block
              /\ archiver'[v].doomed = states[v].doomed
              /\ archiver'[v].swept = states[v].swept
              /\ \/ archiver'[v].phase = states[v].phase
                 \/ /\ archiver'[v].phase = "lost" /\ states[v].phase = "fill"
                    /\ FileOf(states[v]) = f
<1>1. \A v \in Archiver : states[v] \in ArchiverState
  OBVIOUS
<1>2. \A v \in Archiver :
        archiver'[v] = IF states[v].phase = "fill" /\ FileOf(states[v]) = f
                         THEN [states[v] EXCEPT !.phase = "lost"] ELSE states[v]
  BY DEF Unlink
<1>3. ASSUME NEW v \in Archiver
      PROVE  /\ archiver'[v] \in ArchiverState
             /\ archiver'[v].at = states[v].at
             /\ archiver'[v].block = states[v].block
             /\ archiver'[v].doomed = states[v].doomed
             /\ archiver'[v].swept = states[v].swept
             /\ \/ archiver'[v].phase = states[v].phase
                \/ /\ archiver'[v].phase = "lost" /\ states[v].phase = "fill"
                   /\ FileOf(states[v]) = f
  <2>1. states[v] \in ArchiverState
    BY <1>1
  <2>2. CASE states[v].phase = "fill" /\ FileOf(states[v]) = f
    <3>1. archiver'[v] = [states[v] EXCEPT !.phase = "lost"]
      BY <1>2, <2>2
    <3> HIDE DEF FileOf
    <3> QED
      BY <2>1, <2>2, <3>1 DEF ArchiverState
  <2>3. CASE ~(states[v].phase = "fill" /\ FileOf(states[v]) = f)
    <3>1. archiver'[v] = states[v]
      BY <1>2, <2>3
    <3> QED
      BY <2>1, <3>1
  <2> QED
    BY <2>2, <2>3
<1>4. archiver' \in [Archiver -> ArchiverState]
  BY <1>3 DEF Unlink
<1> QED
  BY <1>3, <1>4 DEF Unlink

LEMMA GoesFacts ==
  ASSUME ArchiveTypes, NEW w \in Archiver, NEW place \in ArchiverPlace, ArchiverGoes(w, place)
  PROVE  /\ archiver' \in [Archiver -> ArchiverState]
         /\ archiver'[w].at = place /\ archiver'[w].phase = "open"
         /\ archiver'[w].block = archiver[w].block
         /\ archiver'[w].doomed = archiver[w].doomed
         /\ \A v \in Archiver : v # w => archiver'[v] = archiver[v]
<1>1. archiver[w] \in ArchiverState /\ archiver \in [Archiver -> ArchiverState]
  BY DEF ArchiveTypes, ArchiveTypeOK
<1>2. archiver' = [archiver EXCEPT ![w] = [archiver[w] EXCEPT !.at = place, !.phase = "open"]]
  BY <1>1 DEF ArchiverGoes
<1>3. [archiver[w] EXCEPT !.at = place, !.phase = "open"] \in ArchiverState
  BY <1>1 DEF ArchiverState
<1>4. archiver'[w] = [archiver[w] EXCEPT !.at = place, !.phase = "open"]
  BY <1>1, <1>2
<1>5. /\ archiver' \in [Archiver -> ArchiverState]
      /\ \A v \in Archiver : v # w => archiver'[v] = archiver[v]
  BY <1>1, <1>2, <1>3
<1> QED
  BY <1>1, <1>4, <1>5 DEF ArchiverState

LEMMA IdleFacts ==
  /\ IdleArchiver \in ArchiverState
  /\ IdleArchiver.at = "idle" /\ IdleArchiver.block = NoBlock
  /\ IdleArchiver.phase = "open" /\ IdleArchiver.doomed = <<>>
<1>1. <<>> \in Seq(Block)
  BY EmptySeq
<1> QED
  BY <1>1 DEF IdleArchiver, ArchiverState, ArchiverPlace

LEMMA EndsFacts ==
  ASSUME ArchiveTypes, NEW w \in Archiver, CallEnds(w)
  PROVE  /\ archiver' \in [Archiver -> ArchiverState]
         /\ archiver'[w].at = "idle" /\ archiver'[w].phase = "open"
         /\ archiver'[w].block = NoBlock
         /\ \A v \in Archiver : v # w => archiver'[v] = archiver[v]
<1>1. archiver \in [Archiver -> ArchiverState]
  BY DEF ArchiveTypes, ArchiveTypeOK
<1>2. archiver' = [archiver EXCEPT ![w] = IdleArchiver]
  BY DEF CallEnds
<1>3. archiver'[w] = IdleArchiver
  BY <1>1, <1>2
<1> QED
  BY <1>1, <1>2, <1>3, IdleFacts

LEMMA BlockTypes ==
  ASSUME ArchiveTypes, NEW w \in Archiver
  PROVE  /\ archiver[w] \in ArchiverState
         /\ BlockOf(w) \in Block \cup {NoBlock}
         /\ archiver[w].at \notin NotOnBlock => BlockOf(w) \in Block
         /\ archiver[w].doomed \in Seq(Block)
         /\ ArchiverAt(w, "unlink") => Head(archiver[w].doomed) \in Block
<1>1. archiver[w] \in ArchiverState
  BY DEF ArchiveTypes, ArchiveTypeOK
<1>2. archiver[w].doomed \in Seq(Block) /\ BlockOf(w) \in Block \cup {NoBlock}
  BY <1>1 DEF ArchiverState, BlockOf
<1>3. archiver[w].at \notin NotOnBlock => BlockOf(w) \in Block
  BY <1>2 DEF ArchiveTypes, Shapes, BlockOf
<1>4. ArchiverAt(w, "unlink") => Head(archiver[w].doomed) \in Block
  <2>1. ArchiverAt(w, "unlink") => archiver[w].doomed # <<>>
    BY DEF ArchiveTypes, Shapes, ArchiverAt
  <2> QED
    BY <1>2, <2>1, HeadTailProperties
<1> QED
  BY <1>1, <1>2, <1>3, <1>4

(* A step that leaves a block's files and its writers alone, or ends one   *)
(* that is not writing, and promises nothing new of the block.             *)
LEMMA BlockQuiet ==
  ASSUME NEW b \in Block, BlockInv(b),
         file'[Meta(b)] = file[Meta(b)], file'[Payload(b)] = file[Payload(b)],
         b \in past.evicted => b \in past'.evicted,
         Promised(b)' => Promised(b),
         \A v \in Archiver : BlockOf(v)' = b /\ archiver'[v].at \in {"payload", "meta"} =>
           /\ BlockOf(v) = b /\ archiver[v].at = archiver'[v].at
           /\ archiver[v].phase = archiver'[v].phase,
         \A v \in Archiver :
           BlockOf(v) = b /\ archiver[v].at \in {"payload", "meta"} /\ archiver[v].phase = "fill" =>
             /\ BlockOf(v)' = b /\ archiver'[v].at = archiver[v].at
             /\ archiver'[v].phase = "fill",
         \A v \in Archiver : Removing(v, b)' => Removing(v, b)
  PROVE  BlockInv(b)'
<1>1. \A v \in Archiver : Archiving(v, b)' =>
        Archiving(v, b) /\ archiver'[v].phase = archiver[v].phase
  BY DEF Archiving
<1>2. \A v \in Archiver : /\ ~(\E w \in Archiver : Removing(w, b)' /\ Archiving(v, b)')
                          /\ Archiving(v, b)' => archiver'[v].phase # "lost"
                          /\ Removing(v, b)' => file'[Meta(b)] = "none"
  BY <1>1 DEF BlockInv
<1>3. PayloadFirst(b)'
  BY DEF BlockInv, PayloadFirst, Archived, ArchiverAt
<1>4. MetaKept(b)'
  BY DEF BlockInv, MetaKept, Archived, ArchiverAt
<1> QED
  BY <1>2, <1>3, <1>4 DEF BlockInv

LEMMA BlockLeaves ==
  ASSUME NEW b \in Block, BlockInv(b), NEW w \in Archiver,
         \A v \in Archiver : v # w => archiver'[v] = archiver[v],
         archiver'[w].at \notin {"payload", "meta", "unlink"},
         ~(BlockOf(w) = b /\ archiver[w].at \in {"payload", "meta"} /\ archiver[w].phase = "fill"),
         file'[Meta(b)] = file[Meta(b)], file'[Payload(b)] = file[Payload(b)],
         b \in past.evicted => b \in past'.evicted,
         Promised(b)' => Promised(b)
  PROVE  BlockInv(b)'
<1>1. \A v \in Archiver : BlockOf(v)' = b /\ archiver'[v].at \in {"payload", "meta"} =>
        /\ BlockOf(v) = b /\ archiver[v].at = archiver'[v].at
        /\ archiver[v].phase = archiver'[v].phase
  BY DEF BlockOf
<1>2. \A v \in Archiver :
        BlockOf(v) = b /\ archiver[v].at \in {"payload", "meta"} /\ archiver[v].phase = "fill" =>
          /\ BlockOf(v)' = b /\ archiver'[v].at = archiver[v].at
          /\ archiver'[v].phase = "fill"
  BY DEF BlockOf
<1>3. \A v \in Archiver : Removing(v, b)' => Removing(v, b)
  BY DEF Removing, ArchiverAt
<1> QED
  BY <1>1, <1>2, <1>3, BlockQuiet

(* A call that ends, or goes on with the same block, promises nothing new. *)
LEMMA NoNewPromise ==
  ASSUME NEW b \in Block, NEW w \in Archiver,
         \A v \in Archiver : v # w => archiver'[v] = archiver[v],
         BlockOf(w)' = b => BlockOf(w) = b /\ ~Archiving(w, b),
         \/ past'.handed \subseteq past.handed \cup {BlockOf(w)} /\ ~Archiving(w, b)
         \/ past'.handed \subseteq past.handed
  PROVE  Promised(b)' => Promised(b)
<1>1. \A v \in Archiver \ {w} : BlockOf(v)' = BlockOf(v) /\ Archiving(v, b)' = Archiving(v, b)
  BY DEF BlockOf, Archiving
<1> QED
  BY <1>1 DEF Promised

LEMMA WithinKept ==
  ASSUME ArchiveTypes, Within, Excess' \subseteq Excess
  PROVE  Within'
<1>1. IsFiniteSet(Excess') /\ Cardinality(Excess') <= Cardinality(Excess)
  BY FS_Subset DEF Within
<1>2. Cardinality(Excess) \in Nat /\ Cardinality(Excess') \in Nat
  BY <1>1, FS_CardinalityType DEF Within
<1> QED
  BY <1>1, <1>2, ArchiveAssumption DEF Within

LEMMA DueKept ==
  ASSUME ArchiveTypes, Within, NEW w \in Archiver,
         \A v \in Archiver : v # w => Due(v)' = Due(v),
         past.unswept \cup Due(w) \subseteq past'.unswept \cup Due(w)',
         ToSet(order)' \subseteq ToSet(order) \cup Due(w)'
  PROVE  Within'
<1>1. ASSUME NEW x \in Excess'
      PROVE  x \in Excess
  <2>1. /\ x \in ToSet(order)' /\ x \notin past'.unswept
        /\ \A v \in Archiver : x \notin Due(v)'
    BY DEF Excess
  <2>2. x \in ToSet(order) /\ x \notin past.unswept /\ x \notin Due(w)
    BY <2>1
  <2>3. \A v \in Archiver : x \notin Due(v)
    BY <2>1, <2>2
  <2> QED
    BY <2>2, <2>3 DEF Excess
<1> QED
  BY <1>1, WithinKept

LEMMA DueSame ==
  ASSUME NEW v \in Archiver, archiver'[v].at = archiver[v].at,
         archiver'[v].block = archiver[v].block, archiver'[v].doomed = archiver[v].doomed
  PROVE  Due(v)' = Due(v)
  BY DEF Due, BlockOf

-----------------------------------------------------------------------------
(* The calls' own steps.                                                   *)
LEMMA PutExistingStep ==
  ASSUME ArchiveInv, NEW w \in Archiver, NEW c \in Block, PutExisting(w, c)
  PROVE  ArchiveInv'
<1>1. ArchiveTypes /\ Within /\ past \in Past
  BY DEF ArchiveInv, ArchiveTypes, ArchiveTypeOK
<1>2. /\ file' = file /\ order' = order /\ archiver' = archiver /\ Archived(c)
      /\ past' = [past EXCEPT !.handed = @ \cup {c}, !.calls = past.calls + 1]
  BY DEF PutExisting
<1>3. PICK n \in Nat : n = past.calls + 1
  BY <1>1 DEF Past
<1>4. /\ past' \in Past /\ past'.handed = past.handed \cup {c} /\ past'.evicted = past.evicted
      /\ past'.clash = past.clash /\ past'.unswept = past.unswept
  <2>1. past' = [past EXCEPT !.handed = @ \cup {c}, !.calls = n]
    BY <1>2, <1>3
  <2> QED
    BY <1>1, <2>1 DEF Past
<1>5. ArchiveTypes'
  BY <1>1, <1>2, <1>4 DEF ArchiveTypes, ArchiveTypeOK, Shapes, NoRepeats
<1>6. Within'
  BY <1>1, <1>2, <1>4 DEF Within, Excess, Due, BlockOf
<1>7. ASSUME NEW b \in Block, b \notin past'.clash
      PROVE  BlockInv(b)'
  <2>1. BlockInv(b)
    BY <1>4, <1>7 DEF ArchiveInv
  <2>2. MetaKept(b)'
    <3>1. CASE b = c
      BY <1>2, <3>1 DEF MetaKept, Archived
    <3>2. CASE b # c
      <4>1. Promised(b)' => Promised(b)
        BY <1>2, <1>4, <3>2 DEF Promised, BlockOf, Archiving
      <4> QED
        BY <1>2, <1>4, <2>1, <4>1 DEF BlockInv, MetaKept, Archived, BlockOf, ArchiverAt
    <3> QED
      BY <3>1, <3>2
  <2>3. PayloadFirst(b)'
    BY <1>2, <2>1 DEF BlockInv, PayloadFirst, Archived, BlockOf, ArchiverAt
  <2> QED
    BY <1>2, <2>1, <2>2, <2>3 DEF BlockInv, Removing, Archiving, ArchiverAt, BlockOf
<1> QED
  BY <1>5, <1>6, <1>7 DEF ArchiveInv

LEMMA PutNewStep ==
  ASSUME ArchiveInv, NEW w \in Archiver, NEW c \in Block, PutNew(w, c)
  PROVE  ArchiveInv'
<1>1. ArchiveTypes /\ Within /\ past \in Past /\ archiver \in [Archiver -> ArchiverState]
  BY DEF ArchiveInv, ArchiveTypes, ArchiveTypeOK
<1>2. /\ file' = file /\ order' = order /\ ~Archived(c) /\ archiver[w].at = "idle"
      /\ BlockOf(w) = NoBlock
  BY <1>1 DEF PutNew, ArchiverAt, ArchiveTypes, Shapes, NotOnBlock, BlockOf
<1> DEFINE new == [IdleArchiver EXCEPT !.at = "payload", !.block = c]
<1>3. /\ new \in ArchiverState /\ new.at = "payload" /\ new.block = c /\ new.phase = "open"
  BY IdleFacts DEF ArchiverState, ArchiverPlace, Writing, PutWrite
<1>4. archiver' = [archiver EXCEPT ![w] = new]
  BY DEF PutNew
<1> HIDE DEF new
<1>5. /\ archiver' \in [Archiver -> ArchiverState]
      /\ archiver'[w] = new /\ \A v \in Archiver : v # w => archiver'[v] = archiver[v]
  BY <1>1, <1>3, <1>4
<1>6. /\ past' \in Past /\ past'.handed = past.handed /\ past'.evicted = past.evicted
      /\ past'.unswept = past.unswept
      /\ past'.clash = Clash(c, \E v \in Archiver : Removing(v, c))
  <2>1. PICK n \in Nat : n = past.calls + 1
    BY <1>1 DEF Past
  <2>2. PICK clash \in SUBSET Block : clash = Clash(c, \E v \in Archiver : Removing(v, c))
    BY <1>1 DEF Clash, Past
  <2>3. past' = [past EXCEPT !.calls = n, !.clash = clash]
    BY <2>1, <2>2 DEF PutNew
  <2> QED
    BY <1>1, <2>2, <2>3 DEF Past
<1>7. ArchiveTypes'
  <2>1. Shapes'
    BY <1>1, <1>3, <1>5, ArchiveAssumption DEF ArchiveTypes, Shapes, NotOnBlock
  <2> QED
    BY <1>1, <1>2, <1>5, <1>6, <2>1 DEF ArchiveTypes, ArchiveTypeOK, NoRepeats
<1>8. Within'
  <2>1. \A v \in Archiver : v # w => Due(v)' = Due(v)
    BY <1>5, DueSame
  <2>2. Due(w) = {}
    BY <1>2 DEF Due
  <2> QED
    BY <1>1, <1>2, <1>6, <2>1, <2>2, DueKept DEF ToSet
<1>9. ASSUME NEW b \in Block, b \notin past'.clash
      PROVE  BlockInv(b)'
  <2>1. BlockInv(b)
    BY <1>6, <1>9 DEF ArchiveInv, Clash
  <2>2. CASE b # c
    <3>1. BlockOf(w)' # b /\ BlockOf(w) # b
      BY <1>2, <1>3, <1>5, <2>2, ArchiveAssumption DEF BlockOf
    <3>2. Promised(b)' => Promised(b)
      BY <1>5, <1>6, <3>1, NoNewPromise
    <3>3. \A v \in Archiver : BlockOf(v)' = b \/ BlockOf(v) = b => archiver'[v] = archiver[v]
      BY <1>5, <3>1
    <3>4. \A v \in Archiver : Removing(v, b)' => Removing(v, b)
      BY <1>3, <1>5 DEF Removing, ArchiverAt
    <3> QED
      BY <1>2, <1>6, <2>1, <3>2, <3>3, <3>4, BlockQuiet DEF BlockOf
  <2>3. CASE b = c
    <3>1. \A v \in Archiver : ~Removing(v, b)
      BY <1>6, <1>9, <2>3 DEF Clash
    <3>2. \A v \in Archiver : ~Removing(v, b)'
      BY <1>3, <1>5, <3>1 DEF Removing, ArchiverAt
    <3>3. PayloadFirst(b)'
      BY <1>2, <1>3, <1>5, <2>1 DEF BlockInv, PayloadFirst, Archived, BlockOf, ArchiverAt
    <3>4. Promised(b)' => Promised(b)
      BY <1>3, <1>5, <1>6, <2>3 DEF Promised, BlockOf, Archiving
    <3>5. MetaKept(b)'
      BY <1>2, <1>3, <1>5, <1>6, <2>1, <3>4
         DEF BlockInv, MetaKept, Archived, BlockOf, ArchiverAt
    <3>6. \A v \in Archiver : Archiving(v, b)' => archiver'[v].phase # "lost"
      BY <1>3, <1>5, <2>1 DEF BlockInv, Archiving, BlockOf
    <3> QED
      BY <3>2, <3>3, <3>5, <3>6 DEF BlockInv
  <2> QED
    BY <2>2, <2>3
<1> QED
  BY <1>7, <1>8, <1>9 DEF ArchiveInv

(* A step of a call that leaves the files of blocks alone: what remains to *)
(* be shown of it.                                                         *)
LEMMA LeavingStep ==
  ASSUME ArchiveInv, NEW w \in Archiver,
         archiver' \in [Archiver -> ArchiverState],
         \A v \in Archiver : v # w => archiver'[v] = archiver[v],
         archiver'[w].at \notin {"payload", "meta", "unlink"},
         archiver'[w].phase # "lost",
         archiver'[w].block = NoBlock <=> archiver'[w].at \in NotOnBlock,
         BlockOf(w)' \in {BlockOf(w), NoBlock},
         ~(archiver[w].at \in {"payload", "meta"}),
         file' \in [ArchiveFile -> Held],
         \A b \in Block : file'[Meta(b)] = file[Meta(b)] /\ file'[Payload(b)] = file[Payload(b)],
         order' = order, past' \in Past, IsFiniteSet(past'.unswept),
         past'.evicted = past.evicted, past.clash \subseteq past'.clash,
         past'.handed \subseteq past.handed \cup {BlockOf(w)},
         Within'
  PROVE  ArchiveInv'
<1>1. ArchiveTypes /\ Within
  BY DEF ArchiveInv
<1>2. ArchiveTypes'
  <2>1. Shapes'
    BY <1>1 DEF ArchiveTypes, Shapes
  <2> QED
    BY <1>1, <2>1 DEF ArchiveTypes, ArchiveTypeOK, NoRepeats
<1>3. ASSUME NEW b \in Block, b \notin past'.clash
      PROVE  BlockInv(b)'
  <2>1. BlockInv(b)
    BY <1>3 DEF ArchiveInv
  <2>2. ~Archiving(w, b)
    BY DEF Archiving
  <2>3. BlockOf(w)' = b => BlockOf(w) = b
    BY ArchiveAssumption
  <2>4. Promised(b)' => Promised(b)
    BY <2>2, <2>3, NoNewPromise
  <2> QED
    BY <2>1, <2>4, BlockLeaves
<1> QED
  BY <1>2, <1>3 DEF ArchiveInv

LEMMA GetStep ==
  ASSUME ArchiveInv, NEW w \in Archiver, NEW c \in Block, GetBlock(w, c)
  PROVE  ArchiveInv'
<1>1. ArchiveTypes /\ Within /\ past \in Past /\ archiver \in [Archiver -> ArchiverState]
      /\ file \in [ArchiveFile -> Held]
  BY DEF ArchiveInv, ArchiveTypes, ArchiveTypeOK
<1>2. file' = file /\ order' = order /\ archiver[w].at = "idle" /\ BlockOf(w) = NoBlock
  BY <1>1 DEF GetBlock, ArchiverAt, ArchiveTypes, Shapes, NotOnBlock, BlockOf
<1> DEFINE new == [IdleArchiver EXCEPT !.at = "expanded"]
<1>3. /\ new \in ArchiverState /\ new.at = "expanded" /\ new.block = NoBlock /\ new.phase = "open"
  BY IdleFacts DEF ArchiverState, ArchiverPlace, Writing
<1>4. archiver' = [archiver EXCEPT ![w] = new]
  BY DEF GetBlock
<1> HIDE DEF new
<1>5. /\ archiver' \in [Archiver -> ArchiverState]
      /\ archiver'[w] = new /\ \A v \in Archiver : v # w => archiver'[v] = archiver[v]
  BY <1>1, <1>3, <1>4
<1>6. /\ past' \in Past /\ past'.handed = past.handed /\ past'.evicted = past.evicted
      /\ past'.unswept = past.unswept /\ past'.clash = past.clash
  BY <1>1 DEF GetBlock, Past
<1>7. Within'
  <2>1. \A v \in Archiver : v # w => Due(v)' = Due(v)
    BY <1>5, DueSame
  <2>2. Due(w) = {}
    BY <1>2 DEF Due
  <2> QED
    BY <1>1, <1>2, <1>6, <2>1, <2>2, DueKept DEF ToSet
<1>8. IsFiniteSet(past'.unswept)
  BY <1>1, <1>6 DEF ArchiveTypes
<1>9. BlockOf(w)' = NoBlock
  BY <1>3, <1>5 DEF BlockOf
<1> QED
  BY <1>1, <1>2, <1>3, <1>5, <1>6, <1>7, <1>8, <1>9, LeavingStep DEF NotOnBlock

LEMMA UnreadableStep ==
  ASSUME ArchiveInv, NEW w \in Archiver, StatsUnreadable(w)
  PROVE  ArchiveInv'
<1>1. ArchiveTypes /\ Within /\ past \in Past /\ file \in [ArchiveFile -> Held]
  BY DEF ArchiveInv, ArchiveTypes, ArchiveTypeOK
<1>2. file' = file /\ order' = order /\ archiver[w].at = "stats"
  BY DEF StatsUnreadable, ArchiverAt
<1>3. BlockOf(w) \in Block
  BY <1>1, <1>2, BlockTypes DEF NotOnBlock
<1>4. /\ archiver' \in [Archiver -> ArchiverState]
      /\ archiver'[w].at = "idle" /\ archiver'[w].phase = "open"
      /\ archiver'[w].block = NoBlock /\ BlockOf(w)' = NoBlock
      /\ \A v \in Archiver : v # w => archiver'[v] = archiver[v]
  BY <1>1, EndsFacts DEF StatsUnreadable, BlockOf
<1>5. /\ past' \in Past /\ past'.handed = past.handed /\ past'.evicted = past.evicted
      /\ past'.unswept = past.unswept \cup {BlockOf(w)} /\ past'.clash = past.clash
  BY <1>1, <1>3 DEF StatsUnreadable, Past
<1>6. Within'
  <2>1. \A v \in Archiver : v # w => Due(v)' = Due(v)
    BY <1>4, DueSame
  <2>2. Due(w) = {BlockOf(w)}
    BY <1>2 DEF Due
  <2> QED
    BY <1>1, <1>2, <1>5, <2>1, <2>2, DueKept DEF ToSet
<1>7. IsFiniteSet(past'.unswept)
  BY <1>1, <1>5, FS_AddElement DEF ArchiveTypes
<1> QED
  BY <1>1, <1>2, <1>4, <1>5, <1>6, <1>7, LeavingStep DEF NotOnBlock

LEMMA StatsLoadedStep ==
  ASSUME ArchiveInv, NEW w \in Archiver, StatsLoaded(w)
  PROVE  ArchiveInv'
<1>1. ArchiveTypes /\ Within /\ past \in Past /\ file \in [ArchiveFile -> Held]
  BY DEF ArchiveInv, ArchiveTypes, ArchiveTypeOK
<1>2. /\ file' = file /\ order' = order /\ past' = past
      /\ archiver[w].at = "stats" /\ ArchiverGoes(w, "archived")
  BY DEF StatsLoaded, ArchiverAt
<1>3. "archived" \in ArchiverPlace
  BY DEF ArchiverPlace, Writing, PutWrite
<1>4. /\ archiver' \in [Archiver -> ArchiverState]
      /\ archiver'[w].at = "archived" /\ archiver'[w].phase = "open"
      /\ BlockOf(w)' = BlockOf(w) /\ archiver'[w].block = archiver[w].block
      /\ \A v \in Archiver : v # w => archiver'[v] = archiver[v]
  BY <1>1, <1>2, <1>3, GoesFacts DEF BlockOf
<1>5. Within'
  <2>1. \A v \in Archiver : v # w => Due(v)' = Due(v)
    BY <1>4, DueSame
  <2>2. Due(w) = {BlockOf(w)} /\ Due(w)' = {BlockOf(w)}
    BY <1>2, <1>4 DEF Due
  <2> QED
    BY <1>1, <1>2, <2>1, <2>2, DueKept DEF ToSet
<1>6. IsFiniteSet(past'.unswept) /\ archiver[w].block # NoBlock
  BY <1>1, <1>2 DEF ArchiveTypes, Shapes, NotOnBlock
<1> QED
  BY <1>1, <1>2, <1>4, <1>5, <1>6, LeavingStep DEF NotOnBlock

LEMMA ListStep ==
  ASSUME ArchiveInv, NEW w \in Archiver, ListArchive(w)
  PROVE  ArchiveInv'
<1>1. ArchiveTypes /\ Within /\ past \in Past /\ file \in [ArchiveFile -> Held]
      /\ archiver \in [Archiver -> ArchiverState] /\ archiver[w] \in ArchiverState
      /\ order \in Seq(Block) /\ NoRepeats(order)
  BY DEF ArchiveInv, ArchiveTypes, ArchiveTypeOK
<1>2. file' = file /\ order' = order /\ archiver[w].at = "list"
  BY DEF ListArchive, ArchiverAt
<1>3. BlockOf(w) \in Block
  BY <1>1, <1>2, BlockTypes DEF NotOnBlock
<1>4. PICK doomed \in Seq(Block) : doomed = Doomed
  BY <1>1, DoomedFacts
<1> DEFINE new == [archiver[w] EXCEPT !.at = "sweep", !.doomed = doomed]
<1>5. new \in ArchiverState
  BY <1>1, <1>4 DEF ArchiverState, ArchiverPlace
<1>6. /\ new.at = "sweep" /\ new.doomed = doomed
      /\ new.block = archiver[w].block /\ new.phase = archiver[w].phase
  BY <1>1 DEF ArchiverState
<1>7. archiver' = [archiver EXCEPT ![w] = new]
  BY <1>1, <1>4 DEF ListArchive
<1> HIDE DEF new
<1>8. /\ archiver' \in [Archiver -> ArchiverState]
      /\ archiver'[w] = new /\ \A v \in Archiver : v # w => archiver'[v] = archiver[v]
  BY <1>1, <1>5, <1>7
<1>9. /\ past' \in Past /\ past'.handed = past.handed /\ past'.evicted = past.evicted
      /\ past'.unswept = {} /\ past'.clash = past.clash
  BY <1>1 DEF ListArchive, Past
<1>10. Within'
  <2>1. Due(w)' = ToSet(doomed)
    BY <1>6, <1>8 DEF Due
  <2>2. Excess' \subseteq ToSet(order) \ ToSet(Doomed)
    <3>1. ASSUME NEW x \in Excess'
          PROVE  x \in ToSet(order) \ ToSet(Doomed)
      <4>1. x \in ToSet(order)' /\ x \notin Due(w)'
        BY DEF Excess
      <4> QED
        BY <1>2, <1>4, <2>1, <4>1 DEF ToSet
    <3> QED
      BY <3>1
  <2> DEFINE rest == ToSet(order) \ ToSet(Doomed)
  <2>3. IsFiniteSet(rest) /\ Cardinality(rest) <= MaxEntries
    BY <1>1, DoomedFacts
  <2> HIDE DEF rest
  <2>4. IsFiniteSet(Excess') /\ Cardinality(Excess') <= Cardinality(rest)
    BY <2>2, <2>3, FS_Subset DEF rest
  <2>5. Cardinality(Excess') \in Nat /\ Cardinality(rest) \in Nat
    BY <2>3, <2>4, FS_CardinalityType
  <2> QED
    BY <2>3, <2>4, <2>5, ArchiveAssumption DEF Within
<1>11. IsFiniteSet(past'.unswept)
  BY <1>9, FS_EmptySet
<1>12. BlockOf(w)' = BlockOf(w) /\ archiver'[w].phase # "lost"
  BY <1>1, <1>2, <1>6, <1>8 DEF BlockOf, ArchiveTypes, Shapes
<1> QED
  BY <1>1, <1>2, <1>3, <1>6, <1>8, <1>9, <1>10, <1>11, <1>12, LeavingStep, ArchiveAssumption
     DEF NotOnBlock, BlockOf

LEMMA GoesOnStep ==
  ASSUME ArchiveInv, NEW w \in Archiver, SweepEnds(w) \/ Reconcile(w) \/ SaveFails(w)
  PROVE  ArchiveInv'
<1>1. ArchiveTypes /\ Within /\ past \in Past /\ file \in [ArchiveFile -> Held]
  BY DEF ArchiveInv, ArchiveTypes, ArchiveTypeOK
<1>2. file' = file /\ order' = order
      /\ archiver[w].at \in {"sweep", "due", "evictions", "reconcile"}
  BY DEF SweepEnds, Reconcile, SaveFails, ArchiverAt
<1>3. PICK place \in {"evictions", "due", "reconcile", "return"} : ArchiverGoes(w, place)
  BY DEF SweepEnds, Reconcile, SaveFails, After
<1>4. place \in ArchiverPlace
  BY DEF ArchiverPlace, Writing, PutWrite
<1>5. /\ archiver' \in [Archiver -> ArchiverState]
      /\ archiver'[w].at = place /\ archiver'[w].phase = "open"
      /\ BlockOf(w)' = BlockOf(w) /\ archiver'[w].block = archiver[w].block
      /\ \A v \in Archiver : v # w => archiver'[v] = archiver[v]
  BY <1>1, <1>3, <1>4, GoesFacts DEF BlockOf
<1>6. /\ past' \in Past /\ past'.handed = past.handed /\ past'.evicted = past.evicted
      /\ past'.unswept = past.unswept /\ past'.clash = past.clash
  <2>1. CASE past' = past
    BY <1>1, <2>1
  <2>2. CASE SaveFails(w)
    BY <1>1, <2>2 DEF SaveFails, Past
  <2> QED
    BY <2>1, <2>2 DEF SweepEnds, Reconcile
<1>7. Within'
  <2>1. \A v \in Archiver : v # w => Due(v)' = Due(v)
    BY <1>5, DueSame
  <2>2. Due(w) = {}
    <3>1. CASE archiver[w].at = "sweep"
      <4>1. archiver[w].doomed = <<>>
        BY <3>1 DEF SweepEnds, Reconcile, SaveFails, ArchiverAt
      <4> QED
        BY <3>1, <4>1 DEF Due, ToSet
    <3>2. CASE archiver[w].at # "sweep"
      BY <1>2, <3>2 DEF Due
    <3> QED
      BY <3>1, <3>2
  <2> QED
    BY <1>1, <1>2, <1>6, <2>1, <2>2, DueKept DEF ToSet
<1>8. IsFiniteSet(past'.unswept)
  BY <1>1, <1>6 DEF ArchiveTypes
<1>9. archiver[w].block # NoBlock
  BY <1>1, <1>2 DEF ArchiveTypes, Shapes, NotOnBlock
<1> QED
  BY <1>1, <1>2, <1>3, <1>5, <1>6, <1>7, <1>8, <1>9, LeavingStep DEF NotOnBlock

LEMMA ReturnStep ==
  ASSUME ArchiveInv, NEW w \in Archiver, PutReturns(w)
  PROVE  ArchiveInv'
<1>1. ArchiveTypes /\ Within /\ past \in Past /\ file \in [ArchiveFile -> Held]
  BY DEF ArchiveInv, ArchiveTypes, ArchiveTypeOK
<1>2. file' = file /\ order' = order /\ archiver[w].at \in {"due", "return"}
  BY DEF PutReturns
<1>3. BlockOf(w) \in Block
  BY <1>1, <1>2, BlockTypes DEF NotOnBlock
<1>4. /\ archiver' \in [Archiver -> ArchiverState]
      /\ archiver'[w].at = "idle" /\ archiver'[w].phase = "open"
      /\ archiver'[w].block = NoBlock /\ BlockOf(w)' = NoBlock
      /\ \A v \in Archiver : v # w => archiver'[v] = archiver[v]
  BY <1>1, EndsFacts DEF PutReturns, BlockOf
<1>5. /\ past' \in Past /\ past'.handed = past.handed \cup {BlockOf(w)}
      /\ past'.evicted = past.evicted
      /\ past'.unswept = past.unswept /\ past'.clash = past.clash
  BY <1>1, <1>3 DEF PutReturns, Past
<1>6. Within'
  <2>1. \A v \in Archiver : v # w => Due(v)' = Due(v)
    BY <1>4, DueSame
  <2>2. Due(w) = {}
    BY <1>2 DEF Due
  <2> QED
    BY <1>1, <1>2, <1>5, <2>1, <2>2, DueKept DEF ToSet
<1>7. IsFiniteSet(past'.unswept)
  BY <1>1, <1>5 DEF ArchiveTypes
<1> QED
  BY <1>1, <1>2, <1>4, <1>5, <1>6, <1>7, LeavingStep DEF NotOnBlock

LEMMA ExpandedStep ==
  ASSUME ArchiveInv, NEW w \in Archiver, FillExpanded(w)
  PROVE  ArchiveInv'
<1>1. ArchiveTypes /\ Within /\ past \in Past /\ file \in [ArchiveFile -> Held]
  BY DEF ArchiveInv, ArchiveTypes, ArchiveTypeOK
<1>2. past' = past /\ order' = order /\ archiver[w].at = "expanded"
  BY DEF FillExpanded, ArchiverAt
<1>3. PICK held \in Held : file' = [file EXCEPT ![Stats] = held]
  BY DEF FillExpanded, Filled, Held
<1>4. /\ archiver' \in [Archiver -> ArchiverState]
      /\ archiver'[w].at = "idle" /\ archiver'[w].phase = "open"
      /\ archiver'[w].block = NoBlock /\ BlockOf(w)' = NoBlock
      /\ \A v \in Archiver : v # w => archiver'[v] = archiver[v]
  BY <1>1, EndsFacts DEF FillExpanded, BlockOf
<1>5. \A b \in Block : file'[Meta(b)] = file[Meta(b)] /\ file'[Payload(b)] = file[Payload(b)]
  BY <1>1, <1>3, FileFacts
<1>6. Within'
  <2>1. \A v \in Archiver : v # w => Due(v)' = Due(v)
    BY <1>4, DueSame
  <2>2. Due(w) = {}
    BY <1>2 DEF Due
  <2> QED
    BY <1>1, <1>2, <2>1, <2>2, DueKept DEF ToSet
<1>7. IsFiniteSet(past'.unswept) /\ file' \in [ArchiveFile -> Held]
  BY <1>1, <1>2, <1>3 DEF ArchiveTypes
<1> QED
  BY <1>1, <1>2, <1>4, <1>5, <1>6, <1>7, LeavingStep DEF NotOnBlock

LEMMA FiniteList ==
  ASSUME NEW S, NEW s \in Seq(S)
  PROVE  IsFiniteSet(ToSet(s)) /\ ToSet(s) \subseteq S
<1>1. Len(s) \in Nat /\ DOMAIN s = 1..Len(s) /\ s \in [1..Len(s) -> S]
  BY LenProperties
<1>2. s \in Surjection(1..Len(s), ToSet(s))
  BY <1>1 DEF Surjection, ToSet
<1>3. ExistsSurjection(1..Len(s), ToSet(s))
  BY <1>2 DEF ExistsSurjection
<1>4. ToSet(s) \subseteq S
  BY <1>1 DEF ToSet
<1> QED
  BY <1>1, <1>3, <1>4, FS_NatSurjection

LEMMA FaultStep ==
  ASSUME ArchiveInv, NEW w \in Archiver, WriteFault(w)
  PROVE  ArchiveInv'
<1>1. ArchiveTypes /\ Within /\ past \in Past /\ file \in [ArchiveFile -> Held]
      /\ archiver[w] \in ArchiverState
  BY DEF ArchiveInv, ArchiveTypes, ArchiveTypeOK
<1>2. file' = file /\ order' = order /\ archiver[w].at # "idle"
  BY DEF WriteFault, ArchiverAt
<1>3. /\ archiver' \in [Archiver -> ArchiverState]
      /\ archiver'[w].at = "idle" /\ archiver'[w].phase = "open"
      /\ archiver'[w].block = NoBlock /\ BlockOf(w)' = NoBlock
      /\ \A v \in Archiver : v # w => archiver'[v] = archiver[v]
  BY <1>1, EndsFacts DEF WriteFault, BlockOf
<1>4. Due(w) \subseteq Block /\ IsFiniteSet(Due(w))
  <2>1. CASE archiver[w].at \in {"payload", "meta", "stats", "archived", "list"}
    <3>1. BlockOf(w) \in Block
      BY <1>1, <2>1, BlockTypes DEF NotOnBlock
    <3> QED
      BY <2>1, <3>1, FS_Singleton DEF Due
  <2>2. CASE archiver[w].at \in {"sweep", "unlink"}
    BY <1>1, <2>2, BlockTypes, FiniteList DEF Due
  <2>3. CASE archiver[w].at \notin {"payload", "meta", "stats", "archived", "list", "sweep",
                                        "unlink"}
    BY <2>3, FS_EmptySet DEF Due
  <2> QED
    BY <2>1, <2>2, <2>3
<1> DEFINE lost == /\ Archiving(w, BlockOf(w)) /\ archiver[w].phase = "fill"
                   /\ \/ file[Meta(BlockOf(w))] = "whole"
                      \/ BlockOf(w) \in past.handed \ past.evicted
                      \/ \E v \in Archiver \ {w} : BlockOf(v) = BlockOf(w)
<1>5. /\ past' \in Past /\ past'.handed = past.handed /\ past'.evicted = past.evicted
      /\ past'.unswept = past.unswept \cup Due(w)
      /\ past'.clash = Clash(BlockOf(w), lost)
  <2>1. PICK n \in Nat : n = past.faults + 1
    BY <1>1 DEF Past
  <2>2. lost => BlockOf(w) \in Block
    BY <1>1, BlockTypes DEF Archiving, NotOnBlock
  <2>3. PICK clash \in SUBSET Block : clash = Clash(BlockOf(w), lost)
    BY <1>1, <2>2 DEF Clash, Past
  <2>4. PICK due \in SUBSET Block : due = Due(w)
    BY <1>4
  <2>5. past' = [past EXCEPT !.faults = n, !.unswept = past.unswept \cup due, !.clash = clash]
    BY <1>1, <2>1, <2>3, <2>4 DEF WriteFault, Due, Past
  <2> QED
    BY <1>1, <2>3, <2>4, <2>5 DEF Past
<1>6. ArchiveTypes'
  <2>1. Shapes'
    BY <1>1, <1>3 DEF ArchiveTypes, Shapes, NotOnBlock
  <2>2. IsFiniteSet(past'.unswept)
    <3>1. IsFiniteSet(past.unswept)
      BY <1>1 DEF ArchiveTypes
    <3>2. IsFiniteSet(past.unswept \cup Due(w))
      BY <3>1, <1>4, FS_Union
    <3> QED
      BY <1>5, <3>2
  <2> QED
    BY <1>1, <1>2, <1>3, <1>5, <2>1, <2>2 DEF ArchiveTypes, ArchiveTypeOK, NoRepeats
<1>7. Within'
  <2>1. \A v \in Archiver : v # w => Due(v)' = Due(v)
    BY <1>3, DueSame
  <2> QED
    BY <1>1, <1>2, <1>5, <2>1, DueKept DEF ToSet
<1>8. ASSUME NEW b \in Block, b \notin past'.clash
      PROVE  BlockInv(b)'
  <2>1. BlockInv(b)
    BY <1>5, <1>8 DEF ArchiveInv, Clash
  <2>2. BlockOf(w)' # b
    BY <1>3, ArchiveAssumption
  <2>3. Promised(b)' => Promised(b)
    BY <1>3, <1>5, <2>2, NoNewPromise
  <2>4. CASE BlockOf(w) = b /\ archiver[w].at \in {"payload", "meta"} /\ archiver[w].phase = "fill"
    <3>1. ~lost
      BY <1>5, <1>8, <2>4 DEF Clash
    <3>2. /\ file[Meta(b)] # "whole" /\ b \notin past.handed \ past.evicted
          /\ \A v \in Archiver : v # w => BlockOf(v) # b
      BY <2>4, <3>1 DEF Archiving
    <3>3. \A v \in Archiver : BlockOf(v)' # b
      BY <1>3, <2>2, <3>2 DEF BlockOf
    <3>4. PayloadFirst(b)'
      BY <1>2, <3>2, <3>3 DEF PayloadFirst, Archived
    <3>5. MetaKept(b)'
      BY <1>5, <3>2, <3>3 DEF MetaKept, Promised
    <3>6. \A v \in Archiver : ~Archiving(v, b)'
      BY <3>3 DEF Archiving
    <3>7. \A v \in Archiver : ~Removing(v, b)'
      <4>1. \A v \in Archiver : ~Removing(v, b)
        BY <2>1, <2>4 DEF BlockInv, Archiving
      <4> QED
        BY <1>3, <4>1 DEF Removing, ArchiverAt
    <3> QED
      BY <3>4, <3>5, <3>6, <3>7 DEF BlockInv
  <2>5. CASE ~(BlockOf(w) = b /\ archiver[w].at \in {"payload", "meta"}
               /\ archiver[w].phase = "fill")
    BY <1>2, <1>3, <1>5, <2>1, <2>3, <2>5, BlockLeaves
  <2> QED
    BY <2>4, <2>5
<1> QED
  BY <1>6, <1>7, <1>8 DEF ArchiveInv

LEMMA LostStep ==
  ASSUME ArchiveInv, NEW w \in Archiver, FillLost(w)
  PROVE  ArchiveInv'
<1>1. ArchiveTypes /\ Within
  BY DEF ArchiveInv
<1>2. file' = file /\ order' = order /\ past' = past /\ archiver[w].phase = "lost"
      /\ archiver[w].at \in {"payload", "meta"}
  BY <1>1 DEF FillLost, ArchiveTypes, Shapes
<1>3. PICK place \in {"meta", "stats"} : ArchiverGoes(w, place)
  BY <1>2 DEF FillLost, After
<1>4. place \in ArchiverPlace
  BY DEF ArchiverPlace, Writing, PutWrite
<1>5. /\ archiver' \in [Archiver -> ArchiverState]
      /\ archiver'[w].at = place /\ archiver'[w].phase = "open"
      /\ BlockOf(w)' = BlockOf(w) /\ archiver'[w].block = archiver[w].block
      /\ \A v \in Archiver : v # w => archiver'[v] = archiver[v]
  BY <1>1, <1>3, <1>4, GoesFacts DEF BlockOf
<1>6. ArchiveTypes'
  <2>1. Shapes'
    BY <1>1, <1>2, <1>3, <1>5 DEF ArchiveTypes, Shapes, NotOnBlock
  <2> QED
    BY <1>1, <1>2, <1>5, <2>1 DEF ArchiveTypes, ArchiveTypeOK, NoRepeats
<1>7. Within'
  <2>1. \A v \in Archiver : v # w => Due(v)' = Due(v)
    BY <1>5, DueSame
  <2>2. Due(w) = {BlockOf(w)} /\ Due(w)' = {BlockOf(w)}
    BY <1>2, <1>3, <1>5 DEF Due
  <2> QED
    BY <1>1, <1>2, <2>1, <2>2, DueKept DEF ToSet
<1>8. ASSUME NEW b \in Block, b \notin past'.clash
      PROVE  BlockInv(b)'
  <2>1. BlockInv(b)
    BY <1>2, <1>8 DEF ArchiveInv
  <2>2. BlockOf(w) # b
    BY <1>2, <2>1 DEF BlockInv, Archiving
  <2>3. Promised(b)' => Promised(b)
    BY <1>2, <1>5, <2>2, NoNewPromise
  <2>4. \A v \in Archiver : BlockOf(v)' = b \/ BlockOf(v) = b => archiver'[v] = archiver[v]
    BY <1>5, <2>2
  <2>5. \A v \in Archiver : Removing(v, b)' => Removing(v, b)
    BY <1>3, <1>5 DEF Removing, ArchiverAt
  <2> QED
    BY <1>2, <2>1, <2>3, <2>4, <2>5, BlockQuiet DEF BlockOf
<1> QED
  BY <1>6, <1>7, <1>8 DEF ArchiveInv

LEMMA OpenFileStep ==
  ASSUME ArchiveInv, NEW w \in Archiver, OpenFile(w)
  PROVE  ArchiveInv'
<1>1. ArchiveTypes /\ Within /\ file \in [ArchiveFile -> Held]
      /\ archiver \in [Archiver -> ArchiverState] /\ archiver[w] \in ArchiverState
      /\ order \in Seq(Block) /\ NoRepeats(order)
  BY DEF ArchiveInv, ArchiveTypes, ArchiveTypeOK
<1>2. /\ past' = past /\ archiver[w].at \in Writing /\ archiver[w].phase = "open"
      /\ file' = [file EXCEPT ![TargetFile(w)] = "empty"]
  BY DEF OpenFile
<1>3. /\ archiver' \in [Archiver -> ArchiverState]
      /\ archiver'[w].at = archiver[w].at /\ archiver'[w].phase = "fill"
      /\ BlockOf(w)' = BlockOf(w) /\ archiver'[w].block = archiver[w].block
      /\ archiver'[w].doomed = archiver[w].doomed
      /\ \A v \in Archiver : v # w => archiver'[v] = archiver[v]
  <2>1. archiver' = [archiver EXCEPT ![w] = [archiver[w] EXCEPT !.phase = "fill"]]
    BY <1>1 DEF OpenFile
  <2>2. [archiver[w] EXCEPT !.phase = "fill"] \in ArchiverState
    BY <1>1 DEF ArchiverState
  <2> QED
    BY <1>1, <2>1, <2>2 DEF ArchiverState, BlockOf
<1>4. TargetFile(w) \in ArchiveFile
  BY <1>1, TargetFacts
<1>5. file' \in [ArchiveFile -> Held]
      /\ \A f \in ArchiveFile : file'[f] = IF f = TargetFile(w) THEN "empty" ELSE file[f]
  BY <1>1, <1>2, <1>4 DEF Held
<1>6. /\ order' \in Seq(Block) /\ NoRepeats(order')
      /\ ToSet(order') \subseteq ToSet(order) \cup Due(w)
  <2>1. CASE ArchiverAt(w, "payload")
    <3>1. BlockOf(w) \in Block
      BY <1>1, <2>1, BlockTypes DEF NotOnBlock, ArchiverAt
    <3>2. order' = Newest(BlockOf(w))
      BY <2>1 DEF OpenFile
    <3>3. Due(w) = {BlockOf(w)}
      BY <2>1 DEF Due, ArchiverAt
    <3> QED
      BY <1>1, <3>1, <3>2, <3>3, NewestFacts
  <2>2. CASE ~ArchiverAt(w, "payload")
    BY <1>1, <2>2 DEF OpenFile
  <2> QED
    BY <2>1, <2>2
<1>7. ArchiveTypes'
  <2>1. Shapes'
    BY <1>1, <1>3 DEF ArchiveTypes, Shapes
  <2> QED
    BY <1>1, <1>2, <1>3, <1>5, <1>6, <2>1 DEF ArchiveTypes, ArchiveTypeOK, NoRepeats
<1>8. Within'
  <2>1. \A v \in Archiver : Due(v)' = Due(v)
    BY <1>3, DueSame
  <2>2. ToSet(order)' \subseteq ToSet(order) \cup Due(w)'
    BY <1>6, <2>1 DEF ToSet
  <2> QED
    BY <1>1, <1>2, <2>1, <2>2, DueKept
<1>9. ASSUME NEW b \in Block, b \notin past'.clash
      PROVE  BlockInv(b)'
  <2>1. BlockInv(b)
    BY <1>2, <1>9 DEF ArchiveInv
  <2>2. /\ file'[Payload(b)] = IF BlockOf(w) = b /\ ArchiverAt(w, "payload") THEN "empty"
                               ELSE file[Payload(b)]
        /\ file'[Meta(b)] = IF BlockOf(w) = b /\ ArchiverAt(w, "meta") THEN "empty"
                            ELSE file[Meta(b)]
    BY <1>1, <1>5, FileFacts, TargetFacts
  <2>3. \A v \in Archiver : /\ Archiving(v, b)' = Archiving(v, b)
                            /\ Removing(v, b)' = Removing(v, b)
                            /\ BlockOf(v)' = BlockOf(v) /\ archiver'[v].at = archiver[v].at
    BY <1>3 DEF Archiving, Removing, ArchiverAt, BlockOf
  <2>4. \A v \in Archiver : archiver[v].phase = "fill" => archiver'[v].phase = "fill"
    BY <1>3
  <2>5. Promised(b)' <=> Promised(b)
    BY <1>2, <2>3 DEF Promised
  <2>6. \A u, v \in Archiver : ~(Removing(u, b)' /\ Archiving(v, b)')
    BY <2>1, <2>3 DEF BlockInv
  <2>7. \A v \in Archiver : Archiving(v, b)' => archiver'[v].phase # "lost"
    BY <1>3, <2>1, <2>3 DEF BlockInv
  <2>8. ASSUME NEW v \in Archiver, Removing(v, b)'
        PROVE  file'[Meta(b)] = "none"
    <3>1. ~Archiving(w, b) /\ file[Meta(b)] = "none"
      BY <2>1, <2>3, <2>8 DEF BlockInv
    <3> QED
      BY <2>2, <3>1 DEF Archiving, ArchiverAt
  <2>9. PayloadFirst(b)'
    <3>1. SUFFICES ASSUME Archived(b)' \/ \E v \in Archiver : BlockOf(v)' = b /\ ArchiverAt(v, "meta")'
                   PROVE  \/ file'[Payload(b)] = "whole"
                          \/ \E v \in Archiver : /\ BlockOf(v)' = b /\ ArchiverAt(v, "payload")'
                                                 /\ archiver'[v].phase = "fill"
      BY DEF PayloadFirst
    <3>2. CASE BlockOf(w) = b /\ ArchiverAt(w, "payload")
      BY <1>3, <3>2 DEF ArchiverAt
    <3>3. CASE ~(BlockOf(w) = b /\ ArchiverAt(w, "payload"))
      <4>1. Archived(b) \/ \E v \in Archiver : BlockOf(v) = b /\ ArchiverAt(v, "meta")
        BY <2>2, <2>3, <3>1 DEF Archived, ArchiverAt
      <4>2. \/ file[Payload(b)] = "whole"
            \/ \E v \in Archiver : /\ BlockOf(v) = b /\ ArchiverAt(v, "payload")
                                   /\ archiver[v].phase = "fill"
        BY <2>1, <4>1 DEF BlockInv, PayloadFirst
      <4> QED
        BY <2>2, <2>3, <2>4, <3>3, <4>2 DEF ArchiverAt
    <3> QED
      BY <3>2, <3>3
  <2>10. MetaKept(b)'
    <3>1. SUFFICES ASSUME b \notin past.evicted, Promised(b)
                   PROVE  \/ Archived(b)'
                          \/ \E v \in Archiver : /\ BlockOf(v)' = b /\ ArchiverAt(v, "meta")'
                                                 /\ archiver'[v].phase = "fill"
      BY <1>2, <2>5 DEF MetaKept
    <3>2. CASE BlockOf(w) = b /\ ArchiverAt(w, "meta")
      BY <1>3, <3>2 DEF ArchiverAt
    <3>3. CASE ~(BlockOf(w) = b /\ ArchiverAt(w, "meta"))
      <4>1. \/ Archived(b)
            \/ \E v \in Archiver : /\ BlockOf(v) = b /\ ArchiverAt(v, "meta")
                                   /\ archiver[v].phase = "fill"
        BY <2>1, <3>1 DEF BlockInv, MetaKept
      <4> QED
        BY <2>2, <2>3, <2>4, <3>3, <4>1 DEF ArchiverAt, Archived
    <3> QED
      BY <3>2, <3>3
  <2> QED
    BY <2>6, <2>7, <2>8, <2>9, <2>10 DEF BlockInv
<1> QED
  BY <1>7, <1>8, <1>9 DEF ArchiveInv

LEMMA FillFileStep ==
  ASSUME ArchiveInv, NEW w \in Archiver, FillFile(w)
  PROVE  ArchiveInv'
<1>1. ArchiveTypes /\ Within /\ file \in [ArchiveFile -> Held] /\ past \in Past
      /\ archiver \in [Archiver -> ArchiverState] /\ archiver[w] \in ArchiverState
      /\ order \in Seq(Block) /\ NoRepeats(order)
  BY DEF ArchiveInv, ArchiveTypes, ArchiveTypeOK
<1>2. archiver[w].at \in PutWrite /\ archiver[w].phase = "fill"
  BY DEF FillFile
<1>3. PICK place \in {"meta", "stats", "list", "due", "return"} :
        place = After(archiver[w].at)
  BY <1>2 DEF PutWrite, After
<1>4. /\ archiver' \in [Archiver -> ArchiverState]
      /\ archiver'[w].at = place /\ archiver'[w].phase = "open"
      /\ BlockOf(w)' = BlockOf(w) /\ archiver'[w].block = archiver[w].block
      /\ archiver'[w].doomed = archiver[w].doomed
      /\ \A v \in Archiver : v # w => archiver'[v] = archiver[v]
  <2>1. ArchiverGoes(w, place)
    BY <1>3 DEF FillFile
  <2>2. place \in ArchiverPlace
    BY DEF ArchiverPlace, Writing, PutWrite
  <2> QED
    BY <1>1, <2>1, <2>2, GoesFacts DEF BlockOf
<1>5. BlockOf(w) \in Block
  BY <1>1, <1>2, BlockTypes DEF NotOnBlock, PutWrite
<1>6. PICK held \in Filled(w) :
        /\ file' = [file EXCEPT ![TargetFile(w)] = held]
        /\ past' = IF ArchiverAt(w, "meta")
                     THEN [past EXCEPT !.evicted = @ \ {BlockOf(w)},
                                       !.clash = Clash(BlockOf(w), held = "garbled")]
                     ELSE past
  BY DEF FillFile
<1>7. /\ held \in Held
      /\ held # "garbled" => held = "whole"
      /\ ArchiverAt(w, "payload") => held = "whole"
  BY <1>6 DEF Filled, Held
<1>8. TargetFile(w) \in ArchiveFile
  BY <1>1, TargetFacts
<1>9. file' \in [ArchiveFile -> Held]
      /\ \A f \in ArchiveFile : file'[f] = IF f = TargetFile(w) THEN held ELSE file[f]
  BY <1>1, <1>6, <1>7, <1>8
<1>10. /\ past' \in Past /\ past'.handed = past.handed /\ past'.unswept = past.unswept
       /\ \A b \in Block : b # BlockOf(w) /\ b \in past.evicted => b \in past'.evicted
       /\ past.clash \subseteq past'.clash
       /\ ~ArchiverAt(w, "meta") => past' = past
       /\ ArchiverAt(w, "meta") /\ held = "garbled" => BlockOf(w) \in past'.clash
  <2>1. CASE ArchiverAt(w, "meta")
    <3>1. PICK clash \in SUBSET Block : clash = Clash(BlockOf(w), held = "garbled")
      BY <1>1, <1>5 DEF Clash, Past
    <3>2. past' = [past EXCEPT !.evicted = past.evicted \ {BlockOf(w)}, !.clash = clash]
      BY <1>1, <1>6, <2>1, <3>1 DEF Past
    <3>3. past.clash \subseteq clash /\ (held = "garbled" => BlockOf(w) \in clash)
      BY <3>1 DEF Clash
    <3> QED
      BY <1>1, <2>1, <3>2, <3>3 DEF Past
  <2>2. CASE ~ArchiverAt(w, "meta")
    BY <1>1, <1>6, <2>2
  <2> QED
    BY <2>1, <2>2
<1>11. /\ order' \in Seq(Block) /\ NoRepeats(order')
       /\ ToSet(order') \subseteq ToSet(order) \cup Due(w)
  <2>1. CASE ArchiverAt(w, "payload")
    <3>1. order' = Newest(BlockOf(w))
      BY <2>1 DEF FillFile
    <3>2. Due(w) = {BlockOf(w)}
      BY <2>1 DEF Due, ArchiverAt
    <3> QED
      BY <1>1, <1>5, <3>1, <3>2, NewestFacts
  <2>2. CASE ~ArchiverAt(w, "payload")
    BY <1>1, <2>2 DEF FillFile
  <2> QED
    BY <2>1, <2>2
<1>12. ArchiveTypes'
  <2>1. Shapes'
    BY <1>1, <1>2, <1>4 DEF ArchiveTypes, Shapes, NotOnBlock, PutWrite
  <2> QED
    BY <1>1, <1>4, <1>9, <1>10, <1>11, <2>1 DEF ArchiveTypes, ArchiveTypeOK, NoRepeats
<1>13. Within'
  <2>1. \A v \in Archiver : v # w => Due(v)' = Due(v)
    BY <1>4, DueSame
  <2>2. Due(w)' = Due(w)
    BY <1>2, <1>3, <1>4 DEF Due, PutWrite, After
  <2>3. ToSet(order)' \subseteq ToSet(order) \cup Due(w)'
    BY <1>11, <2>2 DEF ToSet
  <2> QED
    BY <1>1, <1>10, <2>1, <2>2, <2>3, DueKept
<1>14. ASSUME NEW b \in Block, b \notin past'.clash
       PROVE  BlockInv(b)'
  <2>1. BlockInv(b)
    BY <1>10, <1>14 DEF ArchiveInv
  <2>2. /\ file'[Payload(b)] = IF BlockOf(w) = b /\ ArchiverAt(w, "payload") THEN held
                               ELSE file[Payload(b)]
        /\ file'[Meta(b)] = IF BlockOf(w) = b /\ ArchiverAt(w, "meta") THEN held
                            ELSE file[Meta(b)]
    BY <1>1, <1>9, FileFacts, TargetFacts
  <2>3. \A v \in Archiver : Removing(v, b)' => v # w /\ Removing(v, b)
    BY <1>4 DEF Removing, ArchiverAt
  <2>4. CASE BlockOf(w) # b
    <3>1. Promised(b)' => Promised(b)
      BY <1>4, <1>10, <2>4, NoNewPromise
    <3>2. \A v \in Archiver : BlockOf(v)' = b \/ BlockOf(v) = b => archiver'[v] = archiver[v]
      BY <1>4, <2>4
    <3> QED
      BY <1>10, <2>1, <2>2, <2>3, <2>4, <3>1, <3>2, BlockQuiet DEF BlockOf
  <2>5. CASE BlockOf(w) = b /\ archiver[w].at \notin {"payload", "meta"}
    <3>1. place \notin {"meta", "stats"}
      BY <1>2, <1>3, <2>5 DEF PutWrite, After
    <3>2. ~Archiving(w, b)
      BY <2>5 DEF Archiving
    <3>3. Promised(b)' => Promised(b)
      BY <1>4, <1>10, <2>5, <3>2, NoNewPromise
    <3>4. past' = past /\ file'[Payload(b)] = file[Payload(b)] /\ file'[Meta(b)] = file[Meta(b)]
      BY <1>10, <2>2, <2>5 DEF ArchiverAt
    <3> QED
      BY <1>4, <2>1, <2>5, <3>1, <3>3, <3>4, BlockLeaves
  <2>6. CASE Archiving(w, b)
    <3>1. \A v \in Archiver : ~Removing(v, b)'
      BY <2>1, <2>3, <2>6 DEF BlockInv
    <3>2. \A v \in Archiver : Archiving(v, b)' => archiver'[v].phase # "lost"
      BY <1>4, <2>1 DEF BlockInv, Archiving, BlockOf
    <3>3. PayloadFirst(b)' /\ MetaKept(b)'
      <4>1. CASE ArchiverAt(w, "payload")
        <5>1. file'[Payload(b)] = "whole" /\ file'[Meta(b)] = file[Meta(b)] /\ past' = past
          BY <1>7, <1>10, <2>2, <2>6, <4>1 DEF Archiving, ArchiverAt
        <5>2. place = "meta"
          BY <1>3, <4>1 DEF ArchiverAt, After
        <5>3. Promised(b)' => Promised(b)
          BY <1>4, <5>1, <5>2 DEF Promised, Archiving, BlockOf
        <5>4. \A v \in Archiver :
                BlockOf(v) = b /\ ArchiverAt(v, "meta") /\ archiver[v].phase = "fill" =>
                  /\ BlockOf(v)' = b /\ ArchiverAt(v, "meta")' /\ archiver'[v].phase = "fill"
          BY <1>4, <4>1 DEF ArchiverAt, BlockOf
        <5>5. MetaKept(b)'
          BY <2>1, <5>1, <5>3, <5>4 DEF BlockInv, MetaKept, Archived
        <5> QED
          BY <5>1, <5>5 DEF PayloadFirst
      <4>2. CASE ArchiverAt(w, "meta")
        <5>1. file'[Payload(b)] = file[Payload(b)] /\ file'[Meta(b)] = "whole"
          BY <1>7, <1>10, <1>14, <2>2, <2>6, <4>2 DEF Archiving, ArchiverAt
        <5>2. \/ file[Payload(b)] = "whole"
              \/ \E v \in Archiver :
                   BlockOf(v) = b /\ ArchiverAt(v, "payload") /\ archiver[v].phase = "fill"
          BY <2>1, <2>6, <4>2 DEF BlockInv, PayloadFirst, Archiving
        <5>3. \A v \in Archiver :
                BlockOf(v) = b /\ ArchiverAt(v, "payload") /\ archiver[v].phase = "fill" =>
                  /\ BlockOf(v)' = b /\ ArchiverAt(v, "payload")' /\ archiver'[v].phase = "fill"
          BY <1>4, <4>2 DEF ArchiverAt, BlockOf
        <5> QED
          BY <5>1, <5>2, <5>3 DEF PayloadFirst, MetaKept, Archived
      <4> QED
        BY <2>6, <4>1, <4>2 DEF Archiving, ArchiverAt
    <3> QED
      BY <3>1, <3>2, <3>3 DEF BlockInv
  <2> QED
    BY <2>4, <2>5, <2>6 DEF Archiving
<1> QED
  BY <1>12, <1>13, <1>14 DEF ArchiveInv

-----------------------------------------------------------------------------
(* The sweep.                                                              *)
LEMMA RemoveMetaStep ==
  ASSUME ArchiveInv, NEW w \in Archiver, RemoveMeta(w)
  PROVE  ArchiveInv'
<1>1. ArchiveTypes /\ Within /\ file \in [ArchiveFile -> Held] /\ past \in Past
      /\ archiver \in [Archiver -> ArchiverState] /\ archiver[w] \in ArchiverState
      /\ archiver[w].doomed \in Seq(Block)
  BY BlockTypes DEF ArchiveInv, ArchiveTypes, ArchiveTypeOK
<1> DEFINE c == Head(archiver[w].doomed)
           states == [archiver EXCEPT ![w].at = "unlink"]
<1>2. /\ archiver[w].at = "sweep" /\ archiver[w].doomed # <<>> /\ order' = order
      /\ Unlink(Meta(c), states)
      /\ past' = [past EXCEPT !.evicted = @ \cup {c},
                              !.clash = Clash(c, \E v \in Archiver : Archiving(v, c))]
  BY DEF RemoveMeta, ArchiverAt
<1>3. c \in Block
  BY <1>1, <1>2, HeadTailProperties
<1>4. /\ states \in [Archiver -> ArchiverState]
      /\ states[w].at = "unlink" /\ states[w].phase = archiver[w].phase
      /\ states[w].block = archiver[w].block /\ states[w].doomed = archiver[w].doomed
      /\ \A v \in Archiver : v # w => states[v] = archiver[v]
  <2>1. states = [archiver EXCEPT ![w] = [archiver[w] EXCEPT !.at = "unlink"]]
    BY <1>1
  <2>2. [archiver[w] EXCEPT !.at = "unlink"] \in ArchiverState
    BY <1>1 DEF ArchiverState, ArchiverPlace
  <2> HIDE DEF states
  <2>3. states[w] = [archiver[w] EXCEPT !.at = "unlink"]
    BY <1>1, <2>1
  <2>4. /\ states \in [Archiver -> ArchiverState]
        /\ \A v \in Archiver : v # w => states[v] = archiver[v]
    BY <1>1, <2>1, <2>2
  <2> QED
    BY <1>1, <2>3, <2>4 DEF ArchiverState
<1> HIDE DEF states, c
<1>5. /\ file' = [file EXCEPT ![Meta(c)] = "none"]
      /\ archiver' \in [Archiver -> ArchiverState]
      /\ \A v \in Archiver :
           /\ archiver'[v].at = states[v].at
           /\ archiver'[v].block = states[v].block
           /\ archiver'[v].doomed = states[v].doomed
           /\ \/ archiver'[v].phase = states[v].phase
              \/ /\ archiver'[v].phase = "lost" /\ states[v].phase = "fill"
                 /\ FileOf(states[v]) = Meta(c)
  BY <1>1, <1>2, <1>3, <1>4, UnlinkFacts, FileFacts
<1>6. /\ archiver'[w].at = "unlink"
      /\ \A v \in Archiver : /\ BlockOf(v)' = BlockOf(v) /\ archiver'[v].block = archiver[v].block
                             /\ archiver'[v].doomed = archiver[v].doomed
                             /\ v # w => archiver'[v].at = archiver[v].at
  BY <1>4, <1>5 DEF BlockOf
<1>7. ASSUME NEW v \in Archiver, archiver'[v].phase # archiver[v].phase
      PROVE  BlockOf(v) = c /\ archiver[v].at = "meta" /\ v # w
  <2>1. FileOf(states[v]) = Meta(c)
    BY <1>4, <1>5, <1>7
  <2>2. v # w
    <3>1. FileOf(states[w]) = Stats
      BY <1>4 DEF FileOf
    <3> QED
      BY <1>3, <2>1, <3>1, FileFacts
  <2>3. TargetFile(v) = Meta(c)
    BY <1>4, <2>1, <2>2 DEF TargetFile
  <2> QED
    BY <1>1, <1>3, <2>2, <2>3, TargetFacts DEF ArchiverAt
<1>8. file' \in [ArchiveFile -> Held]
      /\ \A f \in ArchiveFile : file'[f] = IF f = Meta(c) THEN "none" ELSE file[f]
  BY <1>1, <1>3, <1>5, FileFacts DEF Held
<1>9. /\ past' \in Past /\ past'.handed = past.handed /\ past'.unswept = past.unswept
      /\ past'.evicted = past.evicted \cup {c} /\ past.clash \subseteq past'.clash
      /\ (\E v \in Archiver : Archiving(v, c)) => c \in past'.clash
  <2>1. PICK clash \in SUBSET Block : clash = Clash(c, \E v \in Archiver : Archiving(v, c))
    BY <1>1, <1>3 DEF Clash, Past
  <2>2. past' = [past EXCEPT !.evicted = past.evicted \cup {c}, !.clash = clash]
    BY <1>1, <1>2, <2>1 DEF Past
  <2>3. past.clash \subseteq clash /\ ((\E v \in Archiver : Archiving(v, c)) => c \in clash)
    BY <2>1 DEF Clash
  <2> QED
    BY <1>1, <1>3, <2>2, <2>3 DEF Past
<1>10. ArchiveTypes'
  <2>1. ASSUME NEW v \in Archiver
        PROVE  /\ archiver'[v].phase = "lost" => archiver'[v].at \in {"payload", "meta"}
               /\ archiver'[v].block = NoBlock <=> archiver'[v].at \in NotOnBlock
               /\ archiver'[v].at = "unlink" => archiver'[v].doomed # <<>>
    BY <1>1, <1>2, <1>6, <1>7 DEF ArchiveTypes, Shapes, NotOnBlock
  <2>2. Shapes'
    BY <2>1 DEF Shapes
  <2> QED
    BY <1>1, <1>2, <1>5, <1>8, <1>9, <2>2 DEF ArchiveTypes, ArchiveTypeOK, NoRepeats
<1>11. Within'
  <2>1. \A v \in Archiver : v # w => Due(v)' = Due(v)
    BY <1>6, DueSame
  <2>2. Due(w)' = Due(w)
    BY <1>2, <1>6 DEF Due
  <2> QED
    BY <1>1, <1>2, <1>9, <2>1, <2>2, DueKept DEF ToSet
<1>12. ASSUME NEW b \in Block, b \notin past'.clash
       PROVE  BlockInv(b)'
  <2>1. BlockInv(b)
    BY <1>9, <1>12 DEF ArchiveInv
  <2>2. \A v \in Archiver : Archiving(v, b)' <=> Archiving(v, b)
    BY <1>2, <1>6 DEF Archiving
  <2>3. CASE b = c
    <3>1. \A v \in Archiver : ~Archiving(v, b)
      BY <1>9, <1>12, <2>3
    <3>2. file'[Meta(b)] = "none" /\ b \in past'.evicted
      BY <1>3, <1>8, <1>9, <2>3, FileFacts
    <3>3. PayloadFirst(b)' /\ MetaKept(b)'
      BY <2>2, <3>1, <3>2 DEF PayloadFirst, MetaKept, Archived, Archiving, ArchiverAt
    <3> QED
      BY <2>2, <3>1, <3>2, <3>3 DEF BlockInv
  <2>4. CASE b # c
    <3>1. file'[Meta(b)] = file[Meta(b)] /\ file'[Payload(b)] = file[Payload(b)]
      BY <1>3, <1>8, <2>4, FileFacts
    <3>2. Promised(b)' => Promised(b)
      BY <1>6, <1>9, <2>2 DEF Promised
    <3>3. \A v \in Archiver : Removing(v, b)' => Removing(v, b)
      BY <1>6, <2>4 DEF Removing, ArchiverAt, c
    <3>4. \A v \in Archiver : BlockOf(v) = b => archiver'[v].phase = archiver[v].phase
      BY <1>7, <2>4
    <3>5. \A v \in Archiver : archiver[v].at \in {"payload", "meta"} \/
                              archiver'[v].at \in {"payload", "meta"} =>
            archiver'[v].at = archiver[v].at
      BY <1>2, <1>6
    <3> QED
      BY <1>6, <1>9, <2>1, <3>1, <3>2, <3>3, <3>4, <3>5, BlockQuiet
  <2> QED
    BY <2>3, <2>4
<1> QED
  BY <1>10, <1>11, <1>12 DEF ArchiveInv

LEMMA FirstAndRest ==
  ASSUME NEW S, NEW s \in Seq(S), s # <<>>
  PROVE  ToSet(s) \subseteq {Head(s)} \cup ToSet(Tail(s))
<1>1. /\ Len(s) \in Nat /\ DOMAIN s = 1..Len(s) /\ Tail(s) \in Seq(S)
      /\ Len(Tail(s)) = Len(s) - 1 /\ \A i \in 1..Len(Tail(s)) : Tail(s)[i] = s[i + 1]
  BY HeadTailProperties, LenProperties
<1>2. DOMAIN Tail(s) = 1..(Len(s) - 1)
  BY <1>1, LenProperties
<1>3. ASSUME NEW i \in 1..Len(s)
      PROVE  s[i] = Head(s) \/ s[i] \in ToSet(Tail(s))
  <2>1. CASE i = 1
    BY <2>1
  <2>2. CASE i # 1
    <3>1. i - 1 \in 1..(Len(s) - 1) /\ (i - 1) + 1 = i
      BY <1>1, <2>2
    <3>2. Tail(s)[i - 1] = s[i]
      BY <1>1, <3>1
    <3> QED
      BY <1>2, <3>1, <3>2 DEF ToSet
  <2> QED
    BY <2>1, <2>2
<1> QED
  BY <1>1, <1>3 DEF ToSet

LEMMA RemovePayloadStep ==
  ASSUME ArchiveInv, NEW w \in Archiver, RemovePayload(w)
  PROVE  ArchiveInv'
<1>1. ArchiveTypes /\ Within /\ file \in [ArchiveFile -> Held]
      /\ archiver \in [Archiver -> ArchiverState] /\ archiver[w] \in ArchiverState
      /\ archiver[w].doomed \in Seq(Block) /\ order \in Seq(Block) /\ NoRepeats(order)
  BY BlockTypes DEF ArchiveInv, ArchiveTypes, ArchiveTypeOK
<1> DEFINE c == Head(archiver[w].doomed)
           states == [archiver EXCEPT ![w].at = "sweep", ![w].doomed = Tail(@),
                                      ![w].swept = @ + 1]
<1>2. /\ archiver[w].at = "unlink" /\ archiver[w].doomed # <<>>
      /\ order' = OrderBut(c) /\ past' = past /\ Unlink(Payload(c), states)
  BY <1>1 DEF RemovePayload, ArchiverAt, ArchiveTypes, Shapes
<1>3. c \in Block /\ Tail(archiver[w].doomed) \in Seq(Block)
  BY <1>1, <1>2, HeadTailProperties
<1>4. /\ states \in [Archiver -> ArchiverState]
      /\ states[w].at = "sweep" /\ states[w].phase = archiver[w].phase
      /\ states[w].block = archiver[w].block /\ states[w].doomed = Tail(archiver[w].doomed)
      /\ \A v \in Archiver : v # w => states[v] = archiver[v]
  <2>1. PICK n \in Nat : n = archiver[w].swept + 1
    BY <1>1 DEF ArchiverState
  <2>2. PICK rest \in Seq(Block) : rest = Tail(archiver[w].doomed)
    BY <1>3
  <2> DEFINE state == [archiver[w] EXCEPT !.at = "sweep", !.doomed = rest, !.swept = n]
  <2>3. states = [archiver EXCEPT ![w] = state]
    BY <1>1, <2>1, <2>2 DEF ArchiverState
  <2>4. /\ state \in ArchiverState /\ state.at = "sweep" /\ state.phase = archiver[w].phase
        /\ state.block = archiver[w].block /\ state.doomed = rest
    BY <1>1 DEF ArchiverState, ArchiverPlace
  <2> HIDE DEF states, state
  <2> QED
    BY <1>1, <2>2, <2>3, <2>4
<1> HIDE DEF states, c
<1>5. /\ file' = [file EXCEPT ![Payload(c)] = "none"]
      /\ archiver' \in [Archiver -> ArchiverState]
      /\ \A v \in Archiver :
           /\ archiver'[v].at = states[v].at
           /\ archiver'[v].block = states[v].block
           /\ archiver'[v].doomed = states[v].doomed
           /\ \/ archiver'[v].phase = states[v].phase
              \/ /\ archiver'[v].phase = "lost" /\ states[v].phase = "fill"
                 /\ FileOf(states[v]) = Payload(c)
  BY <1>1, <1>2, <1>3, <1>4, UnlinkFacts, FileFacts
<1>6. /\ archiver'[w].at = "sweep" /\ archiver'[w].doomed = Tail(archiver[w].doomed)
      /\ \A v \in Archiver : /\ BlockOf(v)' = BlockOf(v) /\ archiver'[v].block = archiver[v].block
                             /\ v # w => /\ archiver'[v].at = archiver[v].at
                                         /\ archiver'[v].doomed = archiver[v].doomed
  BY <1>4, <1>5 DEF BlockOf
<1>7. ASSUME NEW v \in Archiver, archiver'[v].phase # archiver[v].phase
      PROVE  BlockOf(v) = c /\ archiver[v].at = "payload" /\ v # w
  <2>1. FileOf(states[v]) = Payload(c)
    BY <1>4, <1>5, <1>7
  <2>2. v # w
    <3>1. FileOf(states[w]) = Stats
      BY <1>4 DEF FileOf
    <3> QED
      BY <1>3, <2>1, <3>1, FileFacts
  <2>3. TargetFile(v) = Payload(c)
    BY <1>4, <2>1, <2>2 DEF TargetFile
  <2> QED
    BY <1>1, <1>3, <2>2, <2>3, TargetFacts DEF ArchiverAt
<1>8. file' \in [ArchiveFile -> Held]
      /\ \A f \in ArchiveFile : file'[f] = IF f = Payload(c) THEN "none" ELSE file[f]
  BY <1>1, <1>3, <1>5, FileFacts DEF Held
<1>9. /\ order' \in Seq(Block) /\ NoRepeats(order')
      /\ ToSet(order') = ToSet(order) \ {c}
  BY <1>1, <1>2, OrderButFacts
<1>10. ArchiveTypes'
  <2>1. ASSUME NEW v \in Archiver
        PROVE  /\ archiver'[v].phase = "lost" => archiver'[v].at \in {"payload", "meta"}
               /\ archiver'[v].block = NoBlock <=> archiver'[v].at \in NotOnBlock
               /\ archiver'[v].at = "unlink" => archiver'[v].doomed # <<>>
    BY <1>1, <1>2, <1>6, <1>7 DEF ArchiveTypes, Shapes, NotOnBlock
  <2>2. Shapes'
    BY <2>1 DEF Shapes
  <2> QED
    BY <1>1, <1>2, <1>5, <1>8, <1>9, <2>2 DEF ArchiveTypes, ArchiveTypeOK, NoRepeats
<1>11. Within'
  <2>1. \A v \in Archiver : v # w => Due(v)' = Due(v)
    BY <1>6, DueSame
  <2>2. Due(w) \subseteq {c} \cup Due(w)'
    BY <1>1, <1>2, <1>6, FirstAndRest DEF Due, c
  <2>3. ASSUME NEW x \in Excess'
        PROVE  x \in Excess
    <3>1. x \in ToSet(order') /\ x \notin past'.unswept /\ \A v \in Archiver : x \notin Due(v)'
      BY <2>3 DEF Excess, ToSet
    <3>2. x \in ToSet(order) /\ x # c /\ x \notin past.unswept
      BY <1>2, <1>9, <3>1
    <3>3. \A v \in Archiver : x \notin Due(v)
      BY <2>1, <2>2, <3>1, <3>2
    <3> QED
      BY <3>2, <3>3 DEF Excess
  <2> QED
    BY <1>1, <2>3, WithinKept
<1>12. ASSUME NEW b \in Block, b \notin past'.clash
       PROVE  BlockInv(b)'
  <2>1. BlockInv(b)
    BY <1>2, <1>12 DEF ArchiveInv
  <2>2. \A v \in Archiver : Archiving(v, b)' <=> Archiving(v, b)
    BY <1>2, <1>6 DEF Archiving
  <2>3. file'[Meta(b)] = file[Meta(b)]
    BY <1>3, <1>8, FileFacts
  <2>4. Promised(b)' <=> Promised(b)
    BY <1>2, <1>6, <2>2 DEF Promised
  <2>5. CASE b = c
    <3>1. Removing(w, b)
      BY <1>2, <2>5 DEF Removing, ArchiverAt, c
    <3>2. (\A v \in Archiver : ~Archiving(v, b)) /\ file[Meta(b)] = "none"
      BY <2>1, <3>1 DEF BlockInv
    <3>3. ~Archived(b) /\ \A v \in Archiver : ~(BlockOf(v) = b /\ ArchiverAt(v, "meta"))
      BY <3>2 DEF Archived, Archiving, ArchiverAt
    <3>4. ~Archived(b)' /\ \A v \in Archiver : ~(BlockOf(v)' = b /\ ArchiverAt(v, "meta")')
      BY <2>2, <2>3, <3>2 DEF Archived, Archiving, ArchiverAt
    <3>5. b \in past.evicted \/ ~Promised(b)
      BY <2>1, <3>3 DEF BlockInv, MetaKept
    <3>6. MetaKept(b)'
      BY <1>2, <2>4, <3>5 DEF MetaKept
    <3>7. PayloadFirst(b)'
      BY <3>4 DEF PayloadFirst
    <3> QED
      BY <2>2, <2>3, <3>2, <3>6, <3>7 DEF BlockInv
  <2>6. CASE b # c
    <3>1. file'[Payload(b)] = file[Payload(b)]
      BY <1>3, <1>8, <2>6, FileFacts
    <3>2. \A v \in Archiver : Removing(v, b)' => Removing(v, b)
      BY <1>6 DEF Removing, ArchiverAt
    <3>3. \A v \in Archiver : BlockOf(v) = b => archiver'[v].phase = archiver[v].phase
      BY <1>7, <2>6
    <3>4. \A v \in Archiver : archiver[v].at \in {"payload", "meta"} \/
                              archiver'[v].at \in {"payload", "meta"} =>
            archiver'[v].at = archiver[v].at
      BY <1>2, <1>6
    <3> QED
      BY <1>2, <1>6, <2>1, <2>3, <2>4, <3>1, <3>2, <3>3, <3>4, BlockQuiet
  <2> QED
    BY <2>5, <2>6
<1> QED
  BY <1>10, <1>11, <1>12 DEF ArchiveInv

-----------------------------------------------------------------------------
LEMMA ArchiveInitial == ArchiveInit => ArchiveInv
<1> SUFFICES ASSUME ArchiveInit PROVE ArchiveInv
  OBVIOUS
<1>1. /\ archiver \in [Archiver -> ArchiverState] /\ file \in [ArchiveFile -> Held]
      /\ past = [handed |-> {}, evicted |-> {}, clash |-> {}, unswept |-> {},
                 calls |-> 0, faults |-> 0]
      /\ order = <<>> /\ \A w \in Archiver : archiver[w] = IdleArchiver
  BY IdleFacts DEF ArchiveInit, Held
<1>2. order \in Seq(Block) /\ NoRepeats(order) /\ ToSet(order) = {}
  BY <1>1, EmptySeq DEF NoRepeats, ToSet
<1>3. past \in Past /\ IsFiniteSet(past.unswept)
  BY <1>1, FS_EmptySet DEF Past
<1>4. ArchiveTypes
  <2>1. Shapes
    BY <1>1, IdleFacts DEF Shapes, NotOnBlock
  <2> QED
    BY <1>1, <1>2, <1>3, <2>1 DEF ArchiveTypes, ArchiveTypeOK
<1>5. Within
  <2>1. Excess = {}
    BY <1>2 DEF Excess
  <2> QED
    BY <2>1, FS_EmptySet, ArchiveAssumption DEF Within
<1>6. ASSUME NEW b \in Block
      PROVE  BlockInv(b)
  <2>1. /\ \A w \in Archiver : /\ BlockOf(w) # b /\ ~Archiving(w, b) /\ ~Removing(w, b)
        /\ ~Archived(b)
    BY <1>1, <1>6, IdleFacts, FileFacts, ArchiveAssumption
       DEF BlockOf, Archiving, Removing, ArchiverAt, Archived, ArchiveInit
  <2>2. ~Promised(b)
    BY <1>1, <2>1 DEF Promised
  <2> QED
    BY <2>1, <2>2 DEF BlockInv, PayloadFirst, MetaKept
<1> QED
  BY <1>4, <1>5, <1>6 DEF ArchiveInv

LEMMA ArchiveStep == ArchiveInv /\ [ArchiveNext]_archiveVars => ArchiveInv'
<1> SUFFICES ASSUME ArchiveInv, [ArchiveNext]_archiveVars PROVE ArchiveInv'
  OBVIOUS
<1>1. ASSUME NEW w \in Archiver, NEW b \in Block,
             PutExisting(w, b) \/ PutNew(w, b) \/ GetBlock(w, b)
      PROVE  ArchiveInv'
  BY <1>1, PutExistingStep, PutNewStep, GetStep
<1>2. ASSUME NEW w \in Archiver,
             \/ StatsLoaded(w) \/ StatsUnreadable(w)
             \/ OpenFile(w) \/ FillFile(w) \/ FillLost(w)
             \/ FillExpanded(w) \/ PutReturns(w) \/ WriteFault(w)
      PROVE  ArchiveInv'
  BY <1>2, StatsLoadedStep, UnreadableStep, OpenFileStep, FillFileStep, LostStep, ExpandedStep, ReturnStep,
     FaultStep
<1>3. ASSUME NEW w \in Archiver,
             \/ ListArchive(w) \/ RemoveMeta(w) \/ RemovePayload(w)
             \/ SweepEnds(w) \/ Reconcile(w) \/ SaveFails(w)
      PROVE  ArchiveInv'
  BY <1>3, ListStep, RemoveMetaStep, RemovePayloadStep, GoesOnStep
<1>4. CASE UNCHANGED archiveVars
  <2> USE <1>4 DEF archiveVars
  <2>1. ArchiveTypes'
    BY DEF ArchiveInv, ArchiveTypes, ArchiveTypeOK, Shapes, NoRepeats
  <2>2. Within'
    BY DEF ArchiveInv, Within, Excess, Due, BlockOf
  <2>3. \A b \in Block : BlockInv(b)' <=> BlockInv(b)
    BY DEF BlockInv, PayloadFirst, MetaKept, Promised, Archived, Archiving, Removing,
           ArchiverAt, BlockOf
  <2> QED
    BY <2>1, <2>2, <2>3 DEF ArchiveInv
<1> QED
  BY <1>1, <1>2, <1>3, <1>4 DEF ArchiveNext

(* The archive's variables keep their types, for any number of blocks, of  *)
(* goroutines and of calls.                                                *)
THEOREM ArchiveTypeCorrect == ArchiveSpec => []ArchiveTypeOK
<1>1. ArchiveInv => ArchiveTypeOK
  BY DEF ArchiveInv, ArchiveTypes
<1> QED
  BY <1>1, ArchiveInitial, ArchiveStep, PTL DEF ArchiveSpec

(* What a call of Put has returned can be expanded until the limits evict  *)
(* it, unless two were at work on it, and an archive that nobody adds to   *)
(* is within its limit but for what Puts that stopped have left behind     *)
(* (Put, enforceLimits, os.WriteFile).                                     *)
THEOREM ArchiveStaysHonest == ArchiveSpec => []ArchiveHonest
<1>1. ArchiveInv => ExpandableUntilEvicted
  <2> SUFFICES ASSUME ArchiveInv, NEW b \in Block,
                      b \in past.handed, b \notin past.evicted, b \notin past.clash,
                      \A v \in Archiver : ~Archiving(v, b)
               PROVE  Expandable(b)
    BY DEF ExpandableUntilEvicted, ArchiveInv, ArchiveTypes, ArchiveTypeOK, Past
  <2>1. BlockInv(b)
    BY DEF ArchiveInv
  <2>2. \A v \in Archiver : BlockOf(v) = b => ~ArchiverAt(v, "meta") /\ ~ArchiverAt(v, "payload")
    BY DEF Archiving, ArchiverAt
  <2>3. Archived(b)
    BY <2>1, <2>2 DEF BlockInv, MetaKept, Promised
  <2>4. file[Payload(b)] = "whole"
    BY <2>1, <2>2, <2>3 DEF BlockInv, PayloadFirst
  <2> QED
    BY <2>3, <2>4 DEF Archived, Expandable
<1>2. ArchiveInv => ArchiveBounded
  <2> SUFFICES ASSUME ArchiveInv, \A w \in Archiver : archiver[w].at \in {"idle", "expanded"}
               PROVE  Len(order) <= MaxEntries + Cardinality(past.unswept)
    BY DEF ArchiveBounded
  <2>1. /\ IsFiniteSet(past.unswept) /\ order \in Seq(Block) /\ NoRepeats(order) /\ Within
        /\ MaxEntries \in Nat
    BY ArchiveAssumption DEF ArchiveInv, ArchiveTypes, ArchiveTypeOK
  <2>2. Excess = ToSet(order) \ past.unswept
    BY DEF Excess, Due
  <2>3. ToSet(order) \in SUBSET (Excess \cup past.unswept)
    BY <2>2
  <2>4. /\ IsFiniteSet(Excess \cup past.unswept)
        /\ Cardinality(Excess \cup past.unswept)
             = Cardinality(Excess) + Cardinality(past.unswept)
                 - Cardinality(Excess \cap past.unswept)
    BY <2>1, FS_Union DEF Within
  <2>5. Excess \cap past.unswept = {}
    BY <2>2
  <2>6. /\ Cardinality(Excess) \in Nat /\ Cardinality(past.unswept) \in Nat
        /\ Cardinality(Excess \cap past.unswept) = 0
    BY <2>1, <2>5, FS_CardinalityType, FS_EmptySet DEF Within
  <2>7. Cardinality(ToSet(order)) <= Cardinality(Excess \cup past.unswept)
    BY <2>3, <2>4, FS_Subset
  <2>8. Len(order) = Cardinality(ToSet(order)) /\ Len(order) \in Nat
    BY <2>1, LengthIsCardinality, LenProperties
  <2>9. Cardinality(Excess) <= MaxEntries
    BY <2>1 DEF Within
  <2> QED
    BY <2>1, <2>4, <2>6, <2>7, <2>8, <2>9
<1> QED
  BY <1>1, <1>2, ArchiveInitial, ArchiveStep, PTL DEF ArchiveSpec, ArchiveHonest

-----------------------------------------------------------------------------
(* The chunk store (ChunkDedup): the sessions that are live, what their    *)
(* chunks were carried by, and what their references cost.                 *)
-----------------------------------------------------------------------------

(* A finite set has a first element in any order of its elements.         *)
LEMMA FirstOfSome ==
  ASSUME NEW S, IsFiniteSet(S), S # {}, NEW before,
         \A k \in S : <<k, k>> \notin before,
         \A i, j, k \in S : <<i, j>> \in before /\ <<j, k>> \in before => <<i, k>> \in before
  PROVE  \E first \in S : \A k \in S : <<k, first>> \notin before
<1> DEFINE below(k) == {j \in S : <<j, k>> \in before}
           T == {below(k) : k \in S}
<1>1. T \subseteq FiniteSubsetsOf(S)
  <2>1. ASSUME NEW k \in S
        PROVE  below(k) \in FiniteSubsetsOf(S)
    <3>1. below(k) \in SUBSET S
      OBVIOUS
    <3>2. IsFiniteSet(below(k))
      BY <3>1, FS_Subset
    <3> QED
      BY <3>1, <3>2 DEF FiniteSubsetsOf
  <2> QED
    BY <2>1
<1>2. T # {}
  <2>1. PICK k \in S : TRUE
    OBVIOUS
  <2>2. below(k) \in T
    OBVIOUS
  <2> QED
    BY <2>2
<1>3. PICK least \in T : \A other \in T : ~(<<other, least>> \in StrictSubsetOrdering(S))
  BY <1>1, <1>2, FS_StrictSubsetOrderingWellFounded, WFMin
<1>4. PICK first \in S : least = below(first)
  OBVIOUS
<1>5. ASSUME NEW k \in S, <<k, first>> \in before
      PROVE  FALSE
  <2>1. below(k) \in T
    OBVIOUS
  <2>2. below(k) \subseteq below(first)
    BY <1>5
  <2>3. k \in below(first) /\ k \notin below(k)
    BY <1>5
  <2>4. below(k) # below(first)
    BY <2>3
  <2>5. <<below(k), below(first)>> \in StrictSubsetOrdering(S)
    BY <2>2, <2>4 DEF StrictSubsetOrdering
  <2> QED
    BY <1>3, <1>4, <2>1, <2>5
<1> QED
  BY <1>5

(* Of those in a set of which fewer than n others are later there are at   *)
(* most n, if no two have the same time: the first of them has the others  *)
(* after it.                                                               *)
LEMMA LatestFew ==
  ASSUME NEW S, IsFiniteSet(S), NEW n \in Nat, NEW time,
         \A x \in S : time[x] \in Nat,
         \A x, y \in S : time[x] = time[y] => x = y
  PROVE  /\ Latest(S, time, n) \subseteq S
         /\ IsFiniteSet(Latest(S, time, n))
         /\ Cardinality(Latest(S, time, n)) <= n
<1> DEFINE K == Latest(S, time, n)
           before == {p \in S \X S : time[p[1]] < time[p[2]]}
<1>1. K \subseteq S
  BY DEF Latest
<1>2. IsFiniteSet(K)
  BY <1>1, FS_Subset
<1>3. CASE K = {}
  BY <1>1, <1>2, <1>3, FS_EmptySet
<1>4. CASE K # {}
  <2>1. \A k \in K : <<k, k>> \notin before
    BY <1>1
  <2>2. \A i, j, k \in K : <<i, j>> \in before /\ <<j, k>> \in before => <<i, k>> \in before
    BY <1>1
  <2> HIDE DEF before
  <2>3. PICK first \in K : \A k \in K : <<k, first>> \notin before
    <3> HIDE DEF K
    <3> QED
      BY <1>2, <1>4, <2>1, <2>2, FirstOfSome
  <2> DEFINE later == {y \in S : time[y] > time[first]}
  <2>4. K \ {first} \subseteq later
    <3>1. ASSUME NEW k \in K, k # first
          PROVE  time[k] > time[first]
      <4>1. k \in S /\ first \in S
        BY <1>1
      <4>2. ~(time[k] < time[first])
        BY <2>3, <4>1 DEF before
      <4> QED
        BY <3>1, <4>1, <4>2
    <3> QED
      BY <1>1, <3>1
  <2>5. IsFiniteSet(later)
    BY FS_Subset, later \subseteq S
  <2>6. Cardinality(later) < n
    BY <2>3 DEF Latest
  <2>7. Cardinality(K \ {first}) = Cardinality(K) - 1 /\ Cardinality(K) \in Nat
    BY <1>2, <2>3, FS_RemoveElement, FS_CardinalityType
  <2>8. Cardinality(K \ {first}) <= Cardinality(later) /\ Cardinality(later) \in Nat
    <3> HIDE DEF K, later
    <3> QED
      BY <2>4, <2>5, FS_Subset, FS_CardinalityType
  <2> QED
    BY <1>1, <1>2, <2>6, <2>7, <2>8
<1> QED
  BY <1>3, <1>4

(* Sums as numbers of cells: a row for each element of a set.              *)
Cells(S, size) == UNION {{i} \X (1..size[i]) : i \in S}

LEMMA OneRow ==
  ASSUME NEW i, NEW k \in Nat
  PROVE  IsFiniteSet({i} \X (1..k)) /\ Cardinality({i} \X (1..k)) = k
<1>1. IsFiniteSet(1..k) /\ Cardinality(1..k) = k
  BY FS_Interval
<1>2. IsFiniteSet({i}) /\ Cardinality({i}) = 1
  BY FS_Singleton
<1> QED
  BY <1>1, <1>2, FS_Product

(* The cells of finitely many rows are finitely many.                      *)
LEMMA CellsFinite ==
  ASSUME NEW S, IsFiniteSet(S), NEW size, \A i \in S : size[i] \in Nat
  PROVE  IsFiniteSet(Cells(S, size)) /\ Cardinality(Cells(S, size)) \in Nat
<1> DEFINE row(i) == {i} \X (1..size[i])
           R == {row(i) : i \in S}
<1>1. IsFiniteSet(R)
  <2>1. [i \in S |-> row(i)] \in Surjection(S, R)
    BY DEF Surjection
  <2> QED
    BY <2>1, FS_Surjection
<1>2. \A r \in R : IsFiniteSet(r)
  <2>1. ASSUME NEW i \in S
        PROVE  IsFiniteSet(row(i))
    BY OneRow
  <2> QED
    BY <2>1
<1>3. IsFiniteSet(UNION R)
  <2> HIDE DEF R
  <2> QED
    BY <1>1, <1>2, FS_UNION
<1> QED
  BY <1>3, FS_CardinalityType DEF Cells

(* One row more.                                                           *)
LEMMA CellsAdded ==
  ASSUME NEW S, NEW size, NEW m, m \notin S, size[m] \in Nat,
         IsFiniteSet(Cells(S, size))
  PROVE  /\ IsFiniteSet(Cells(S \cup {m}, size))
         /\ Cardinality(Cells(S \cup {m}, size)) = Cardinality(Cells(S, size)) + size[m]
<1> DEFINE row == {m} \X (1..size[m])
<1>1. Cells(S \cup {m}, size) = Cells(S, size) \cup row
  BY DEF Cells
<1>2. Cells(S, size) \cap row = {}
  BY DEF Cells
<1>3. IsFiniteSet(row) /\ Cardinality(row) = size[m]
  BY OneRow
<1>4. IsFiniteSet(Cells(S, size) \cup row)
  BY <1>3, FS_Union
<1>5. Cardinality(Cells(S, size) \cup row)
        = Cardinality(Cells(S, size)) + Cardinality(row)
  <2> HIDE DEF row
  <2>1. Cardinality(Cells(S, size) \cup row)
          = Cardinality(Cells(S, size)) + Cardinality(row)
              - Cardinality(Cells(S, size) \cap row)
    BY <1>3, FS_Union
  <2>2. Cardinality(Cells(S, size) \cap row) = 0
    BY <1>2, FS_EmptySet
  <2>3. Cardinality(Cells(S, size)) \in Nat /\ Cardinality(row) \in Nat
    BY <1>3, FS_CardinalityType
  <2> QED
    BY <2>1, <2>2, <2>3
<1> QED
  BY <1>1, <1>3, <1>4, <1>5

-----------------------------------------------------------------------------
(* The places of a cut and their bytes.                                    *)
Places(plan) == [i \in DOMAIN plan |-> ChunkSize[plan[i]]]

LEMMA CutFacts ==
  ASSUME NEW plan \in Seq(Chunk)
  PROVE  /\ IsFiniteSet(DOMAIN plan) /\ DOMAIN plan \subseteq Nat
         /\ \A i \in DOMAIN plan : plan[i] \in Chunk /\ Places(plan)[i] \in Nat \ {0}
         /\ \A i \in DOMAIN plan : Places(plan)[i] = ChunkSize[plan[i]]
         /\ IsFiniteSet(Range(plan)) /\ Range(plan) \subseteq Chunk
         /\ Len(plan) \in Nat /\ DOMAIN plan = 1..Len(plan)
<1>1. Len(plan) \in Nat /\ DOMAIN plan = 1..Len(plan)
  OBVIOUS
<1>2. IsFiniteSet(DOMAIN plan)
  BY <1>1, FS_Interval
<1>3. \A i \in DOMAIN plan : plan[i] \in Chunk
  OBVIOUS
<1>4. \A i \in DOMAIN plan : Places(plan)[i] = ChunkSize[plan[i]]
  BY DEF Places
<1>5. \A i \in DOMAIN plan : Places(plan)[i] \in Nat \ {0}
  BY <1>3, <1>4, ChunkAssumption
<1>6. Range(plan) \subseteq Chunk
  BY <1>3 DEF Range
<1>7. IsFiniteSet(Range(plan))
  <2>1. [i \in DOMAIN plan |-> plan[i]] \in Surjection(DOMAIN plan, Range(plan))
    BY DEF Surjection, Range
  <2> QED
    BY <2>1, <1>2, FS_Surjection
<1> QED
  BY <1>1, <1>2, <1>3, <1>4, <1>5, <1>6, <1>7

(* SizeAt counts cells.                                                    *)
LEMMA SizeFacts ==
  ASSUME NEW plan \in Seq(Chunk), NEW places \in SUBSET DOMAIN plan
  PROVE  /\ IsFiniteSet(places)
         /\ IsFiniteSet(Cells(places, Places(plan)))
         /\ SizeAt(plan, places) = Cardinality(Cells(places, Places(plan)))
         /\ SizeAt(plan, places) \in Nat
<1>1. IsFiniteSet(places)
  BY CutFacts, FS_Subset
<1>2. \A i \in places : Places(plan)[i] \in Nat
  BY CutFacts
<1>3. SizeAt(plan, places) = Cardinality(Cells(places, Places(plan)))
  <2>1. \A i \in places : Places(plan)[i] = ChunkSize[plan[i]]
    BY CutFacts
  <2>2. {{i} \X (1..ChunkSize[plan[i]]) : i \in places}
          = {{i} \X (1..Places(plan)[i]) : i \in places}
    BY <2>1
  <2> QED
    BY <2>2 DEF SizeAt, Cells
<1> QED
  BY <1>1, <1>2, <1>3, CellsFinite

LEMMA SizeAdded ==
  ASSUME NEW plan \in Seq(Chunk), NEW places \in SUBSET DOMAIN plan,
         NEW m \in DOMAIN plan, m \notin places
  PROVE  SizeAt(plan, places \cup {m}) = SizeAt(plan, places) + ChunkSize[plan[m]]
<1>1. places \cup {m} \in SUBSET DOMAIN plan
  OBVIOUS
<1>2. Places(plan)[m] \in Nat /\ Places(plan)[m] = ChunkSize[plan[m]]
  BY CutFacts
<1>3. IsFiniteSet(Cells(places, Places(plan)))
  BY SizeFacts
<1>4. Cardinality(Cells(places \cup {m}, Places(plan)))
        = Cardinality(Cells(places, Places(plan))) + Places(plan)[m]
  BY <1>2, <1>3, CellsAdded
<1>5. /\ SizeAt(plan, places) = Cardinality(Cells(places, Places(plan)))
      /\ SizeAt(plan, places \cup {m}) = Cardinality(Cells(places \cup {m}, Places(plan)))
  BY <1>1, SizeFacts
<1> QED
  BY <1>2, <1>4, <1>5

(* Fewer places have no more bytes.                                        *)
LEMMA SizeMonotone ==
  ASSUME NEW plan \in Seq(Chunk), NEW places \in SUBSET DOMAIN plan,
         NEW some \in SUBSET places
  PROVE  SizeAt(plan, some) <= SizeAt(plan, places)
<1>1. Cells(some, Places(plan)) \subseteq Cells(places, Places(plan))
  BY DEF Cells
<1>2. some \in SUBSET DOMAIN plan
  OBVIOUS
<1> QED
  BY <1>1, <1>2, SizeFacts, FS_Subset

LEMMA NoBytes ==
  ASSUME NEW plan \in Seq(Chunk)
  PROVE  SizeAt(plan, {}) = 0
<1>1. Cells({}, Places(plan)) = {}
  BY DEF Cells
<1> QED
  BY <1>1, SizeFacts, FS_EmptySet

(* The order in which selectReferenceIndexes tries the chunks of a cut.    *)
LEMMA TriedInOrder ==
  ASSUME NEW plan \in Seq(Chunk)
  PROVE  /\ \A i \in DOMAIN plan : ~Before(plan, i, i)
         /\ \A i, j, k \in DOMAIN plan :
              Before(plan, i, j) /\ Before(plan, j, k) => Before(plan, i, k)
         /\ \A i, j \in DOMAIN plan : i = j \/ Before(plan, i, j) \/ Before(plan, j, i)
<1>1. \A i \in DOMAIN plan : i \in Nat /\ ChunkSize[plan[i]] \in Nat
  BY CutFacts
<1> QED
  BY <1>1 DEF Before

(* Some of the places that are left is tried first, and one is last.       *)
LEMMA FirstTried ==
  ASSUME NEW plan \in Seq(Chunk), NEW S \in SUBSET DOMAIN plan, S # {}
  PROVE  /\ \E first \in S : \A i \in S \ {first} : Before(plan, first, i)
         /\ \E last \in S : \A i \in S \ {last} : Before(plan, i, last)
<1> DEFINE sooner == {p \in S \X S : Before(plan, p[1], p[2])}
           later == {p \in S \X S : Before(plan, p[2], p[1])}
<1>1. IsFiniteSet(S)
  BY SizeFacts
<1>2. \A i, j \in S : /\ <<i, j>> \in sooner <=> Before(plan, i, j)
                      /\ <<i, j>> \in later <=> Before(plan, j, i)
  OBVIOUS
<1>3. \A i, j, k \in S : Before(plan, i, j) /\ Before(plan, j, k) => Before(plan, i, k)
  BY TriedInOrder
<1>4. \A i \in S : ~Before(plan, i, i)
  BY TriedInOrder
<1>5. \A i, j \in S : i = j \/ Before(plan, i, j) \/ Before(plan, j, i)
  BY TriedInOrder
<1> HIDE DEF sooner, later
<1>6. PICK first \in S : \A k \in S : <<k, first>> \notin sooner
  BY <1>1, <1>2, <1>3, <1>4, FirstOfSome
<1>7. PICK last \in S : \A k \in S : <<k, last>> \notin later
  BY <1>1, <1>2, <1>3, <1>4, FirstOfSome
<1> QED
  BY <1>2, <1>5, <1>6, <1>7

(* What selectReferenceIndexes decides of the places D that it has tried.  *)
Greedy(plan, D, R, limit) ==
  \A i \in D : i \in R <=> SizeAt(plan, {j \in R : Before(plan, j, i)})
                             + ChunkSize[plan[i]] <= limit

(* One candidate more is tried.                                            *)
LEMMA GreedyStep ==
  ASSUME NEW plan \in Seq(Chunk), NEW limit \in Nat,
         NEW fits \in SUBSET DOMAIN plan, NEW D \in SUBSET fits, NEW R \in SUBSET D,
         \A i \in D, j \in fits : Before(plan, j, i) => j \in D,
         Greedy(plan, D, R, limit),
         NEW m \in fits \ D, \A i \in (fits \ D) \ {m} : Before(plan, m, i)
  PROVE  /\ \A i \in D \cup {m}, j \in fits : Before(plan, j, i) => j \in D \cup {m}
         /\ \E R2 \in SUBSET (D \cup {m}) : Greedy(plan, D \cup {m}, R2, limit)
<1> DEFINE prior(X, i) == {j \in X : Before(plan, j, i)}
           room == SizeAt(plan, prior(R, m)) + ChunkSize[plan[m]] <= limit
           R2 == IF room THEN R \cup {m} ELSE R
<1>1. \A i \in D : ~Before(plan, m, i)
  OBVIOUS
<1>2. ~Before(plan, m, m)
  BY TriedInOrder
<1>3. \A i \in D \cup {m} : prior(R2, i) = prior(R, i)
  BY <1>1, <1>2
<1>4. \A i \in D : i \in R2 <=> i \in R
  OBVIOUS
<1>5. m \in R2 <=> room
  OBVIOUS
<1>6. ASSUME NEW i \in D \cup {m}
      PROVE  i \in R2 <=> SizeAt(plan, prior(R2, i)) + ChunkSize[plan[i]] <= limit
  <2>1. prior(R2, i) = prior(R, i)
    BY <1>3
  <2>2. CASE i \in D
    <3>1. i \in R <=> SizeAt(plan, prior(R, i)) + ChunkSize[plan[i]] <= limit
      BY <2>2 DEF Greedy
    <3> HIDE DEF R2, prior
    <3> QED
      BY <2>1, <2>2, <3>1, <1>4
  <2>3. CASE i = m
    <3>1. room <=> SizeAt(plan, prior(R, i)) + ChunkSize[plan[i]] <= limit
      BY <2>3
    <3> HIDE DEF R2, prior, room
    <3> QED
      BY <2>1, <2>3, <3>1, <1>5
  <2> QED
    BY <2>2, <2>3
<1>7. Greedy(plan, D \cup {m}, R2, limit)
  BY <1>6 DEF Greedy
<1>8. R2 \in SUBSET (D \cup {m})
  OBVIOUS
<1>9. ASSUME NEW j \in fits, Before(plan, j, m), j \notin D \cup {m}
      PROVE  FALSE
  <2>1. Before(plan, m, j)
    BY <1>9
  <2> QED
    BY <1>9, <2>1, <1>2, TriedInOrder
<1> HIDE DEF R2
<1> QED
  BY <1>7, <1>8, <1>9

(* It decides all of them, one after the other: of the places that may be  *)
(* left, the fewest are none.                                              *)
LEMMA GreedyEnds ==
  ASSUME NEW plan \in Seq(Chunk), NEW limit \in Nat, NEW fits \in SUBSET DOMAIN plan
  PROVE  \E R \in SUBSET fits : Greedy(plan, fits, R, limit)
<1> DEFINE closed(D) == \A i \in D, j \in fits : Before(plan, j, i) => j \in D
           Tried == {D \in SUBSET fits : closed(D) /\ \E R \in SUBSET D : Greedy(plan, D, R, limit)}
           T == {fits \ D : D \in Tried}
<1>1. {} \in Tried
  <2>1. Greedy(plan, {}, {}, limit)
    BY DEF Greedy
  <2> QED
    BY <2>1
<1>2. IsFiniteSet(fits)
  BY SizeFacts
<1>3. T \subseteq FiniteSubsetsOf(fits)
  <2>1. ASSUME NEW D \in Tried
        PROVE  fits \ D \in FiniteSubsetsOf(fits)
    <3>1. fits \ D \in SUBSET fits
      OBVIOUS
    <3>2. IsFiniteSet(fits \ D)
      BY <1>2, <3>1, FS_Subset
    <3> QED
      BY <3>1, <3>2 DEF FiniteSubsetsOf
  <2> HIDE DEF Tried
  <2> QED
    BY <2>1
<1>4. T # {}
  <2>1. fits \ {} \in T
    BY <1>1
  <2> QED
    BY <2>1
<1>5. PICK least \in T : \A other \in T : ~(<<other, least>> \in StrictSubsetOrdering(fits))
  <2> HIDE DEF T
  <2> QED
    BY <1>2, <1>3, <1>4, FS_StrictSubsetOrderingWellFounded, WFMin
<1>6. PICK D \in Tried : least = fits \ D
  <2> HIDE DEF Tried
  <2> QED
    BY <1>5
<1>7. D \in SUBSET fits /\ closed(D)
  OBVIOUS
<1>8. PICK R \in SUBSET D : Greedy(plan, D, R, limit)
  OBVIOUS
<1>9. CASE D = fits
  BY <1>8, <1>9
<1>10. CASE D # fits
  <2>1. fits \ D # {} /\ fits \ D \in SUBSET DOMAIN plan
    BY <1>7, <1>10
  <2>2. PICK m \in fits \ D : \A i \in (fits \ D) \ {m} : Before(plan, m, i)
    BY <2>1, FirstTried
  <2>3. closed(D \cup {m}) /\ \E R2 \in SUBSET (D \cup {m}) : Greedy(plan, D \cup {m}, R2, limit)
    BY <1>7, <1>8, <2>2, GreedyStep
  <2>4. D \cup {m} \in Tried
    BY <1>7, <2>2, <2>3
  <2>5. fits \ (D \cup {m}) \in T
    <3> HIDE DEF Tried
    <3> QED
      BY <2>4
  <2>6. <<fits \ (D \cup {m}), fits \ D>> \in StrictSubsetOrdering(fits)
    BY <2>2 DEF StrictSubsetOrdering
  <2> QED
    BY <1>5, <1>6, <2>5, <2>6
<1> QED
  BY <1>9, <1>10

Candidates(plan, repeated, limit) ==
  {i \in DOMAIN plan : /\ plan[i] \in repeated
                       /\ ChunkSize[plan[i]] \in (RefSize + 1)..limit}

(* What is selected was known, and has no more bytes than the limit: the   *)
(* last that was selected still fitted.                                    *)
LEMMA SelectedFacts ==
  ASSUME NEW plan \in Seq(Chunk), NEW repeated, NEW limit \in Nat
  PROVE  /\ Selected(plan, repeated, limit) \in SUBSET DOMAIN plan
         /\ \A i \in Selected(plan, repeated, limit) : plan[i] \in repeated
         /\ SizeAt(plan, Selected(plan, repeated, limit)) <= limit
<1> DEFINE fits == Candidates(plan, repeated, limit)
           R == Selected(plan, repeated, limit)
<1>1. fits \in SUBSET DOMAIN plan
  BY DEF Candidates
<1>2. R = CHOOSE refs \in SUBSET fits : Greedy(plan, fits, refs, limit)
  BY DEF Selected, Candidates, Greedy
<1>3. \E refs \in SUBSET fits : Greedy(plan, fits, refs, limit)
  <2> HIDE DEF fits
  <2> QED
    BY <1>1, GreedyEnds
<1>4. R \in SUBSET fits /\ Greedy(plan, fits, R, limit)
  <2> HIDE DEF fits, R
  <2> QED
    BY <1>2, <1>3
<1>5. R \in SUBSET DOMAIN plan /\ \A i \in R : plan[i] \in repeated
  BY <1>4 DEF Candidates
<1> HIDE DEF fits, R
<1>6. CASE R = {}
  BY <1>5, <1>6, NoBytes DEF R
<1>7. CASE R # {}
  <2>1. PICK last \in R : \A i \in R \ {last} : Before(plan, i, last)
    BY <1>5, <1>7, FirstTried
  <2>2. {j \in R : Before(plan, j, last)} = R \ {last}
    BY <1>5, <2>1, TriedInOrder
  <2>3. SizeAt(plan, R \ {last}) + ChunkSize[plan[last]] <= limit
    BY <1>4, <2>1, <2>2 DEF Greedy
  <2>4. SizeAt(plan, (R \ {last}) \cup {last}) = SizeAt(plan, R \ {last}) + ChunkSize[plan[last]]
    BY <1>5, <2>1, SizeAdded, R \ {last} \in SUBSET DOMAIN plan
  <2>5. (R \ {last}) \cup {last} = R
    BY <2>1
  <2> QED
    BY <1>5, <2>3, <2>4, <2>5 DEF R
<1> QED
  BY <1>5, <1>6, <1>7 DEF R

-----------------------------------------------------------------------------
(* What the store keeps of a session.                                      *)

(* No two chunks have the same seq.                                        *)
Ordered(d) ==
  /\ IsFiniteSet(Chunks(d.seen))
  /\ \A c \in Chunks(d.seen) : d.seen[c].seq <= d.seq
  /\ \A b, c \in Chunks(d.seen) : d.seen[b].seq = d.seen[c].seq => b = c

LEMMA DialogTypes ==
  ASSUME NEW d \in DialogState
  PROVE  /\ d.seen \in [Chunk -> [when : Nat, seq : Nat]]
         /\ d.seq \in Nat /\ d.lastSeen \in Nat /\ d.inBytes \in Nat /\ d.refBytes \in Nat
         /\ Chunks(d.seen) \subseteq Chunk
         /\ \A c \in Chunk : d.seen[c].when \in Nat /\ d.seen[c].seq \in Nat
<1>1. d \in [seen : [Chunk -> [when : Nat, seq : Nat]], seq : Nat, lastSeen : Nat,
             inBytes : Nat, refBytes : Nat]
  BY Zenon DEF DialogState
<1>2. d.seen \in [Chunk -> [when : Nat, seq : Nat]]
  BY <1>1
<1>3. \A c \in Chunk : d.seen[c] \in [when : Nat, seq : Nat]
  BY <1>2
<1> QED
  BY <1>1, <1>2, <1>3 DEF Chunks

LEMMA NewDialogFacts ==
  /\ NewDialog \in DialogState /\ Ordered(NewDialog) /\ Chunks(NewDialog.seen) = {}
  /\ NewDialog.inBytes = 0 /\ NewDialog.refBytes = 0
<1>1. NewDialog \in DialogState
  <2>1. Unseen \in [when : Nat, seq : Nat]
    BY DEF Unseen
  <2>2. [c \in Chunk |-> Unseen] \in [Chunk -> [when : Nat, seq : Nat]]
    BY <2>1
  <2> QED
    BY <2>2 DEF NewDialog, DialogState
<1>2. NewDialog.seen = [c \in Chunk |-> Unseen]
  BY DEF NewDialog
<1>3. Chunks(NewDialog.seen) = {}
  BY <1>2 DEF Chunks
<1>4. Ordered(NewDialog)
  BY <1>3, FS_EmptySet DEF Ordered
<1> QED
  BY <1>1, <1>3, <1>4 DEF NewDialog

(* The same session with other chunks.                                     *)
LEMMA SeenReplaced ==
  ASSUME NEW d \in DialogState, NEW seen \in [Chunk -> [when : Nat, seq : Nat]]
  PROVE  LET new == [d EXCEPT !.seen = seen]
         IN  /\ new \in DialogState /\ new.seen = seen /\ new.seq = d.seq
             /\ new.lastSeen = d.lastSeen /\ new.inBytes = d.inBytes /\ new.refBytes = d.refBytes
<1> QED
  BY DEF DialogState

(* Fewer chunks stay in order.                                             *)
LEMMA FewerOrdered ==
  ASSUME NEW d \in DialogState, Ordered(d), NEW new \in DialogState, new.seq = d.seq,
         \A c \in Chunk : new.seen[c] \in {d.seen[c], Unseen}
  PROVE  /\ Chunks(new.seen) \subseteq Chunks(d.seen)
         /\ Ordered(new)
<1>1. Chunks(new.seen) \subseteq Chunks(d.seen)
  BY DEF Chunks
<1>2. \A c \in Chunks(new.seen) : new.seen[c] = d.seen[c]
  BY DEF Chunks
<1>3. IsFiniteSet(Chunks(new.seen))
  BY <1>1, FS_Subset DEF Ordered
<1> QED
  BY <1>1, <1>2, <1>3 DEF Ordered

(* pruneExpiredLocked leaves of a session what was there, or nothing.      *)
LEMMA UnexpiredFacts ==
  ASSUME NEW known \in [Dialog -> {NoDialog} \cup DialogState], NEW cutoff \in Nat,
         NEW s \in Dialog, known[s] # NoDialog => Ordered(known[s])
  PROVE  LET u == Unexpired(known, cutoff)
         IN  /\ u[s] \in {NoDialog} \cup DialogState
             /\ u[s] # NoDialog =>
                  /\ known[s] # NoDialog
                  /\ u[s] \in DialogState /\ Ordered(u[s])
                  /\ Chunks(u[s].seen) \subseteq Chunks(known[s].seen)
                  /\ u[s].lastSeen = known[s].lastSeen
                  /\ u[s].inBytes = known[s].inBytes /\ u[s].refBytes = known[s].refBytes
<1> DEFINE u == Unexpired(known, cutoff)
           old == known[s]
           kept == [c \in Chunk |-> IF old.seen[c].when < cutoff THEN Unseen ELSE old.seen[c]]
<1>1. u[s] = IF old = NoDialog \/ old.lastSeen < cutoff \/ Chunks(kept) = {} THEN NoDialog
             ELSE [old EXCEPT !.seen = kept]
  BY Zenon DEF Unexpired
<1>2. CASE u[s] = NoDialog
  BY <1>2
<1>3. CASE u[s] # NoDialog
  <2>1. old # NoDialog /\ u[s] = [old EXCEPT !.seen = kept]
    BY <1>1, <1>3
  <2>2. old \in DialogState /\ Ordered(old)
    BY <2>1
  <2>3. kept \in [Chunk -> [when : Nat, seq : Nat]]
    <3>1. Unseen \in [when : Nat, seq : Nat]
      BY DEF Unseen
    <3>2. old.seen \in [Chunk -> [when : Nat, seq : Nat]]
      BY <2>2, DialogTypes
    <3> HIDE DEF old
    <3> QED
      BY <3>1, <3>2
  <2>4. \A c \in Chunk : kept[c] \in {old.seen[c], Unseen}
    OBVIOUS
  <2> HIDE DEF u, old, kept
  <2>5. /\ u[s] \in DialogState /\ u[s].seen = kept /\ u[s].seq = old.seq
        /\ u[s].lastSeen = old.lastSeen
        /\ u[s].inBytes = old.inBytes /\ u[s].refBytes = old.refBytes
    BY <2>1, <2>2, <2>3, SeenReplaced
  <2>6. Chunks(u[s].seen) \subseteq Chunks(old.seen) /\ Ordered(u[s])
    BY <2>2, <2>4, <2>5, FewerOrdered
  <2> QED
    BY <2>1, <2>5, <2>6 DEF u, old
<1> QED
  BY <1>2, <1>3

LEMMA LastPlace ==
  ASSUME NEW plan \in Seq(Chunk), NEW c \in Range(plan)
  PROVE  LET last == Max({i \in DOMAIN plan : plan[i] = c})
         IN  last \in DOMAIN plan /\ plan[last] = c
<1> DEFINE S == {i \in DOMAIN plan : plan[i] = c}
           after == {p \in S \X S : p[1] > p[2]}
<1>1. S \in SUBSET DOMAIN plan /\ S # {}
  BY DEF Range
<1>2. IsFiniteSet(S) /\ S \subseteq Nat
  BY <1>1, CutFacts, FS_Subset
<1>3. \A i, j \in S : <<i, j>> \in after <=> i > j
  OBVIOUS
<1>4. \E last \in S : \A i \in S : last >= i
  <2> HIDE DEF S, after
  <2>1. \A i \in S : <<i, i>> \notin after
    BY <1>2, <1>3
  <2>2. \A i, j, k \in S : <<i, j>> \in after /\ <<j, k>> \in after => <<i, k>> \in after
    BY <1>2, <1>3
  <2>3. PICK last \in S : \A i \in S : <<i, last>> \notin after
    BY <1>1, <1>2, <2>1, <2>2, FirstOfSome
  <2>4. ASSUME NEW i \in S
        PROVE  last >= i
    <3>1. i \in Nat /\ last \in Nat
      BY <1>2
    <3>2. ~(i > last)
      BY <1>3, <2>3
    <3> QED
      BY <3>1, <3>2
  <2> QED
    BY <2>4
<1>5. Max(S) \in S
  <2> HIDE DEF S
  <2> QED
    BY <1>4 DEF Max
<1> QED
  BY <1>5

(* seedPlanLocked numbers the chunks of a cut after those that are known.  *)
LEMMA SeedFacts ==
  ASSUME NEW d \in DialogState, Ordered(d), NEW plan \in Seq(Chunk), calls \in Nat
  PROVE  LET new == Seed(d, plan)
         IN  /\ new \in DialogState /\ Ordered(new)
             /\ Chunks(new.seen) \subseteq Chunks(d.seen) \cup Range(plan)
             /\ new.lastSeen = d.lastSeen
             /\ new.inBytes = d.inBytes /\ new.refBytes = d.refBytes
<1> DEFINE last(c) == Max({i \in DOMAIN plan : plan[i] = c})
           seen == [c \in Chunk |->
                      IF c \in Range(plan) THEN [when |-> calls + 1, seq |-> d.seq + last(c)]
                      ELSE d.seen[c]]
           new == Seed(d, plan)
<1>1. \A c \in Range(plan) : last(c) \in DOMAIN plan /\ plan[last(c)] = c
  BY LastPlace
<1>2. Len(plan) \in Nat /\ DOMAIN plan = 1..Len(plan) /\ Range(plan) \subseteq Chunk
      /\ IsFiniteSet(Range(plan))
  BY CutFacts
<1>3. d.seen \in [Chunk -> [when : Nat, seq : Nat]] /\ d.seq \in Nat
  BY DialogTypes
<1>4. new = [d EXCEPT !.seen = seen, !.seq = d.seq + Len(plan)]
  BY DEF Seed
<1> HIDE DEF last, new
<1>5. \A c \in Range(plan) : last(c) \in 1..Len(plan)
  BY <1>1, <1>2
<1>6. seen \in [Chunk -> [when : Nat, seq : Nat]]
  <2>1. ASSUME NEW c \in Chunk
        PROVE  seen[c] \in [when : Nat, seq : Nat]
    <3>1. CASE c \in Range(plan)
      <4>1. seen[c] = [when |-> calls + 1, seq |-> d.seq + last(c)]
        BY <3>1
      <4>2. d.seq + last(c) \in Nat /\ calls + 1 \in Nat
        BY <1>2, <1>3, <1>5, <3>1
      <4> QED
        BY <4>1, <4>2
    <3>2. CASE c \notin Range(plan)
      <4>1. seen[c] = d.seen[c]
        BY <3>2
      <4> QED
        BY <4>1, <1>3
    <3> QED
      BY <3>1, <3>2
  <2>2. DOMAIN seen = Chunk /\ seen = [c \in Chunk |-> seen[c]]
    OBVIOUS
  <2> HIDE DEF seen
  <2> QED
    BY <2>1, <2>2
<1>7. /\ \A c \in Range(plan) : seen[c].seq = d.seq + last(c)
      /\ \A c \in Chunk \ Range(plan) : seen[c] = d.seen[c]
  BY <1>2
<1> HIDE DEF seen
<1>8. /\ new \in DialogState /\ new.seen = seen /\ new.seq = d.seq + Len(plan)
      /\ new.lastSeen = d.lastSeen /\ new.inBytes = d.inBytes /\ new.refBytes = d.refBytes
  <2>1. d.seq + Len(plan) \in Nat
    BY <1>2, <1>3
  <2> QED
    BY <1>4, <1>6, <2>1 DEF DialogState
<1>9. Chunks(seen) \subseteq Chunks(d.seen) \cup Range(plan)
  BY <1>7 DEF Chunks
<1>10. IsFiniteSet(Chunks(seen))
  <2>1. IsFiniteSet(Chunks(d.seen) \cup Range(plan))
    BY <1>2, FS_Union DEF Ordered
  <2> QED
    BY <2>1, <1>9, FS_Subset
<1>11. \A c \in Chunks(seen) \ Range(plan) : c \in Chunks(d.seen) /\ seen[c] = d.seen[c]
  BY <1>7 DEF Chunks
<1>12. \A c \in Chunk : d.seen[c].seq \in Nat
  BY DialogTypes
<1>13. \A c \in Chunks(seen) \ Range(plan) : seen[c].seq \in Nat /\ seen[c].seq <= d.seq
  BY <1>11, <1>12 DEF Ordered, Chunks
<1>14. \A c \in Chunks(seen) : seen[c].seq <= d.seq + Len(plan)
  <2>1. ASSUME NEW c \in Chunks(seen)
        PROVE  seen[c].seq <= d.seq + Len(plan)
    <3>1. CASE c \in Range(plan)
      BY <3>1, <1>2, <1>3, <1>5, <1>7
    <3>2. CASE c \notin Range(plan)
      BY <3>2, <1>2, <1>3, <1>13
    <3> QED
      BY <3>1, <3>2
  <2> QED
    BY <2>1
<1>15. ASSUME NEW b \in Chunks(seen), NEW c \in Chunks(seen), seen[b].seq = seen[c].seq
       PROVE  b = c
  <2>1. CASE b \in Range(plan) /\ c \in Range(plan)
    <3>1. last(b) = last(c)
      BY <2>1, <1>2, <1>3, <1>5, <1>7, <1>15
    <3> QED
      BY <3>1, <2>1, <1>1
  <2>2. CASE b \in Range(plan) /\ c \notin Range(plan)
    BY <2>2, <1>2, <1>3, <1>5, <1>7, <1>13, <1>15
  <2>3. CASE b \notin Range(plan) /\ c \in Range(plan)
    BY <2>3, <1>2, <1>3, <1>5, <1>7, <1>13, <1>15
  <2>4. CASE b \notin Range(plan) /\ c \notin Range(plan)
    BY <2>4, <1>11, <1>15 DEF Ordered
  <2> QED
    BY <2>1, <2>2, <2>3, <2>4
<1>16. Ordered(new)
  BY <1>8, <1>10, <1>14, <1>15 DEF Ordered
<1> QED
  BY <1>8, <1>9, <1>16 DEF new

(* pruneSessionLocked keeps MaxChunks, the latest.                         *)
LEMMA FewChunksFacts ==
  ASSUME NEW d \in DialogState, Ordered(d)
  PROVE  LET seen == FewChunks(d.seen)
         IN  /\ seen \in [Chunk -> [when : Nat, seq : Nat]]
             /\ \A c \in Chunk : seen[c] \in {d.seen[c], Unseen}
             /\ Cardinality(Chunks(seen)) <= MaxChunks
<1> DEFINE S == Chunks(d.seen)
           time == [c \in Chunk |-> d.seen[c].seq]
           kept == Latest(S, time, MaxChunks)
           seen == FewChunks(d.seen)
<1>1. /\ d.seen \in [Chunk -> [when : Nat, seq : Nat]]
      /\ \A c \in Chunk : d.seen[c].seq \in Nat
  BY DialogTypes
<1>2. S \subseteq Chunk
  BY DEF Chunks
<1>3. \A c \in S : time[c] \in Nat
  BY <1>1, <1>2
<1>4. \A b, c \in S : time[b] = time[c] => b = c
  BY <1>2 DEF Ordered
<1>5. IsFiniteSet(S)
  BY DEF Ordered
<1>6. seen = [c \in Chunk |-> IF c \in kept THEN d.seen[c] ELSE Unseen]
  BY DEF FewChunks
<1>7. kept \subseteq S /\ IsFiniteSet(kept) /\ Cardinality(kept) <= MaxChunks
  <2> HIDE DEF S, time
  <2> QED
    BY <1>3, <1>4, <1>5, LatestFew, ChunkAssumption
<1> HIDE DEF S, time, kept, seen
<1>8. Chunks(seen) \subseteq kept
  BY <1>6 DEF Chunks
<1>9. Cardinality(Chunks(seen)) <= MaxChunks
  <2>1. IsFiniteSet(Chunks(seen)) /\ Cardinality(Chunks(seen)) <= Cardinality(kept)
    BY <1>7, <1>8, FS_Subset
  <2>2. Cardinality(Chunks(seen)) \in Nat /\ Cardinality(kept) \in Nat
    BY <2>1, <1>7, FS_CardinalityType
  <2> QED
    BY <1>7, <2>1, <2>2, ChunkAssumption
<1>10. Unseen \in [when : Nat, seq : Nat]
  BY DEF Unseen
<1>11. seen \in [Chunk -> [when : Nat, seq : Nat]]
  BY <1>1, <1>6, <1>10
<1>12. \A c \in Chunk : seen[c] \in {d.seen[c], Unseen}
  BY <1>6
<1> QED
  BY <1>9, <1>11, <1>12 DEF seen

-----------------------------------------------------------------------------
(* What the store keeps of all sessions.                                   *)

Live(known) == {s \in Dialog : known[s] # NoDialog}

(* The sessions of a store within its limits, no two of them last seen at  *)
(* the same time.                                                          *)
StoreAt(known, now) ==
  /\ known \in [Dialog -> {NoDialog} \cup DialogState]
  /\ IsFiniteSet(Live(known)) /\ Cardinality(Live(known)) <= MaxDialogs
  /\ \A s \in Live(known) : /\ known[s].lastSeen <= now
                            /\ Ordered(known[s])
                            /\ Cardinality(Chunks(known[s].seen)) <= MaxChunks
  /\ \A s, t \in Live(known) : known[s].lastSeen = known[t].lastSeen => s = t

(* pruneSessionsLocked keeps MaxSessions, the latest.                      *)
LEMMA FewDialogsFacts ==
  ASSUME NEW known \in [Dialog -> {NoDialog} \cup DialogState], IsFiniteSet(Live(known)),
         \A s, t \in Live(known) : known[s].lastSeen = known[t].lastSeen => s = t
  PROVE  LET few == FewDialogs(known)
         IN  /\ few \in [Dialog -> {NoDialog} \cup DialogState]
             /\ \A s \in Live(few) : s \in Live(known) /\ few[s] = known[s]
             /\ IsFiniteSet(Live(few)) /\ Cardinality(Live(few)) <= MaxDialogs
<1> DEFINE time == [s \in Live(known) |-> known[s].lastSeen]
           kept == Latest(Live(known), time, MaxDialogs)
           few == FewDialogs(known)
<1>1. few = [s \in Dialog |-> IF s \in kept THEN known[s] ELSE NoDialog]
  BY DEF FewDialogs, Live
<1>2. \A s \in Live(known) : time[s] \in Nat
  <2>1. ASSUME NEW s \in Live(known)
        PROVE  known[s].lastSeen \in Nat
    <3>1. known[s] \in DialogState
      BY DEF Live
    <3> QED
      BY <3>1, DialogTypes
  <2> QED
    BY <2>1
<1>3. \A s, t \in Live(known) : time[s] = time[t] => s = t
  OBVIOUS
<1>4. kept \subseteq Live(known) /\ IsFiniteSet(kept) /\ Cardinality(kept) <= MaxDialogs
  <2> HIDE DEF time
  <2> QED
    BY <1>2, <1>3, LatestFew, ChunkAssumption
<1> HIDE DEF kept, few
<1>5. Live(few) \subseteq kept
  BY <1>1 DEF Live
<1>6. IsFiniteSet(Live(few)) /\ Cardinality(Live(few)) <= MaxDialogs
  <2>1. IsFiniteSet(Live(few)) /\ Cardinality(Live(few)) <= Cardinality(kept)
    BY <1>4, <1>5, FS_Subset
  <2>2. Cardinality(Live(few)) \in Nat /\ Cardinality(kept) \in Nat
    BY <2>1, <1>4, FS_CardinalityType
  <2> QED
    BY <1>4, <2>1, <2>2, ChunkAssumption
<1>7. few \in [Dialog -> {NoDialog} \cup DialogState]
  BY <1>1
<1>8. \A s \in Live(few) : s \in Live(known) /\ few[s] = known[s]
  BY <1>1, <1>4, <1>5 DEF Live
<1> QED
  BY <1>6, <1>7, <1>8 DEF few

LEMMA OutputTypes ==
  ASSUME NEW o \in Output
  PROVE  /\ o.fast \in Seq(Chunk) /\ o.line \in Seq(Chunk)
         /\ Range(o.fast) \subseteq Chunk /\ Range(o.line) \subseteq Chunk
         /\ TextBytes(o.fast) \in Nat
<1>1. o.fast \in Seq(Chunk) /\ o.line \in Seq(Chunk)
  BY ChunkAssumption
<1>2. TextBytes(o.fast) \in Nat
  BY <1>1, SizeFacts DEF TextBytes
<1> QED
  BY <1>1, <1>2, CutFacts

(* A session after an output of it was entered.                            *)
EnteredSession(old, o) ==
  [Seed(Seed(old, o.fast), o.line) EXCEPT
     !.seen = FewChunks(@), !.lastSeen = calls + 1, !.inBytes = @ + TextBytes(o.fast)]

LEMMA EnteredSessionFacts ==
  ASSUME NEW old \in DialogState, Ordered(old), NEW o \in Output, calls \in Nat
  PROVE  LET new == EnteredSession(old, o)
         IN  /\ new \in DialogState /\ Ordered(new)
             /\ Cardinality(Chunks(new.seen)) <= MaxChunks
             /\ Chunks(new.seen) \subseteq Chunks(old.seen) \cup Range(o.fast) \cup Range(o.line)
             /\ new.lastSeen = calls + 1
             /\ new.inBytes = old.inBytes + TextBytes(o.fast)
             /\ new.refBytes = old.refBytes
<1> DEFINE one == Seed(old, o.fast)
           two == Seed(one, o.line)
           seen == FewChunks(two.seen)
           new == EnteredSession(old, o)
<1>1. /\ one \in DialogState /\ Ordered(one)
      /\ Chunks(one.seen) \subseteq Chunks(old.seen) \cup Range(o.fast)
      /\ one.inBytes = old.inBytes /\ one.refBytes = old.refBytes
  BY OutputTypes, SeedFacts
<1>2. /\ two \in DialogState /\ Ordered(two)
      /\ Chunks(two.seen) \subseteq Chunks(one.seen) \cup Range(o.line)
      /\ two.inBytes = one.inBytes /\ two.refBytes = one.refBytes
  <2> HIDE DEF one
  <2> QED
    BY <1>1, OutputTypes, SeedFacts
<1>3. new = [two EXCEPT !.seen = seen, !.lastSeen = calls + 1,
                        !.inBytes = two.inBytes + TextBytes(o.fast)]
  BY DEF EnteredSession
<1> HIDE DEF two
<1>4. /\ seen \in [Chunk -> [when : Nat, seq : Nat]]
      /\ \A c \in Chunk : seen[c] \in {two.seen[c], Unseen}
      /\ Cardinality(Chunks(seen)) <= MaxChunks
  BY <1>2, FewChunksFacts
<1>5. two.inBytes + TextBytes(o.fast) \in Nat /\ calls + 1 \in Nat
  BY <1>2, DialogTypes, OutputTypes
<1> HIDE DEF one, new, seen
<1>6. /\ new \in DialogState /\ new.seen = seen /\ new.seq = two.seq
      /\ new.lastSeen = calls + 1 /\ new.inBytes = two.inBytes + TextBytes(o.fast)
      /\ new.refBytes = two.refBytes
  BY <1>2, <1>3, <1>4, <1>5 DEF DialogState
<1>7. Chunks(new.seen) \subseteq Chunks(two.seen) /\ Ordered(new)
  BY <1>2, <1>4, <1>6, FewerOrdered
<1> QED
  BY <1>1, <1>2, <1>4, <1>6, <1>7 DEF new

(* What the lines between the locks do to the store, those of Observe and  *)
(* those of an Encode alike.                                               *)
LEMMA EnteredFacts ==
  ASSUME NEW s \in Dialog, NEW o \in Output, NEW cutoff \in Nat, calls \in Nat,
         StoreAt(dialogs, calls)
  PROVE  LET new == Entered(Unexpired(dialogs, cutoff), s, o)
         IN  /\ StoreAt(new, calls + 1)
             /\ \A t \in Live(new) \ {s} :
                  /\ t \in Live(dialogs) /\ Chunks(new[t].seen) \subseteq Chunks(dialogs[t].seen)
                  /\ new[t].inBytes = dialogs[t].inBytes /\ new[t].refBytes = dialogs[t].refBytes
             /\ s \in Live(new) =>
                  \/ /\ s \in Live(dialogs)
                     /\ Chunks(new[s].seen)
                          \subseteq Chunks(dialogs[s].seen) \cup Range(o.fast) \cup Range(o.line)
                     /\ new[s].inBytes = dialogs[s].inBytes + TextBytes(o.fast)
                     /\ new[s].refBytes = dialogs[s].refBytes
                  \/ /\ Chunks(new[s].seen) \subseteq Range(o.fast) \cup Range(o.line)
                     /\ new[s].inBytes = TextBytes(o.fast)
                     /\ new[s].refBytes = 0
<1> DEFINE u == Unexpired(dialogs, cutoff)
           old == IF u[s] = NoDialog THEN NewDialog ELSE u[s]
           mid == [u EXCEPT ![s] = EnteredSession(old, o)]
           new == Entered(u, s, o)
<1>1. dialogs \in [Dialog -> {NoDialog} \cup DialogState]
  BY DEF StoreAt
<1>2. \A t \in Dialog : dialogs[t] # NoDialog => t \in Live(dialogs) /\ Ordered(dialogs[t])
  BY DEF StoreAt, Live
<1>3. ASSUME NEW t \in Dialog
      PROVE  /\ u[t] \in {NoDialog} \cup DialogState
             /\ u[t] # NoDialog =>
                  /\ t \in Live(dialogs)
                  /\ u[t] \in DialogState /\ Ordered(u[t])
                  /\ Chunks(u[t].seen) \subseteq Chunks(dialogs[t].seen)
                  /\ u[t].lastSeen = dialogs[t].lastSeen
                  /\ u[t].inBytes = dialogs[t].inBytes /\ u[t].refBytes = dialogs[t].refBytes
  BY <1>1, <1>2, UnexpiredFacts
<1>4. u \in [Dialog -> {NoDialog} \cup DialogState]
  <2>1. DOMAIN u = Dialog /\ u = [t \in Dialog |-> u[t]]
    BY DEF Unexpired
  <2> HIDE DEF u
  <2> QED
    BY <1>3, <2>1
<1>5. new = FewDialogs(mid)
  BY DEF Entered, EnteredSession
<1> HIDE DEF u, new
<1>6. old \in DialogState /\ Ordered(old)
  BY <1>3, NewDialogFacts
<1> DEFINE fresh == EnteredSession(old, o)
<1> HIDE DEF old
<1>7. /\ fresh \in DialogState /\ Ordered(fresh)
      /\ Cardinality(Chunks(fresh.seen)) <= MaxChunks
      /\ Chunks(fresh.seen) \subseteq Chunks(old.seen) \cup Range(o.fast) \cup Range(o.line)
      /\ fresh.lastSeen = calls + 1
      /\ fresh.inBytes = old.inBytes + TextBytes(o.fast)
      /\ fresh.refBytes = old.refBytes
  BY <1>6, EnteredSessionFacts
<1> HIDE DEF fresh
<1>8. mid[s] = fresh /\ \A t \in Dialog \ {s} : mid[t] = u[t]
  BY <1>4 DEF fresh
<1>9. mid \in [Dialog -> {NoDialog} \cup DialogState]
  BY <1>4, <1>7 DEF fresh
<1> HIDE DEF mid
<1>10. ASSUME NEW t \in Live(mid), t # s
       PROVE  /\ t \in Live(dialogs)
              /\ mid[t] \in DialogState /\ Ordered(mid[t])
              /\ Chunks(mid[t].seen) \subseteq Chunks(dialogs[t].seen)
              /\ mid[t].lastSeen = dialogs[t].lastSeen
              /\ mid[t].inBytes = dialogs[t].inBytes /\ mid[t].refBytes = dialogs[t].refBytes
  <2>1. t \in Dialog /\ u[t] # NoDialog /\ mid[t] = u[t]
    BY <1>8, <1>10 DEF Live
  <2> QED
    BY <1>3, <2>1
<1>11. \A t \in Live(dialogs) : dialogs[t].lastSeen \in Nat /\ dialogs[t].lastSeen <= calls
  BY <1>1, DialogTypes DEF StoreAt, Live
<1>12. \A t, r \in Live(mid) : mid[t].lastSeen = mid[r].lastSeen => t = r
  <2>1. \A t \in Live(mid) \ {s} : mid[t].lastSeen \in Nat /\ mid[t].lastSeen < calls + 1
    BY <1>10, <1>11
  <2>2. \A t, r \in Live(mid) \ {s} : mid[t].lastSeen = mid[r].lastSeen => t = r
    BY <1>10 DEF StoreAt
  <2>3. mid[s].lastSeen = calls + 1
    BY <1>7, <1>8
  <2> QED
    BY <2>1, <2>2, <2>3
<1>13. IsFiniteSet(Live(mid))
  <2>1. Live(mid) \subseteq Live(dialogs) \cup {s}
    BY <1>10
  <2>2. IsFiniteSet(Live(dialogs) \cup {s})
    BY FS_AddElement DEF StoreAt
  <2> QED
    BY <2>1, <2>2, FS_Subset
<1>14. /\ new \in [Dialog -> {NoDialog} \cup DialogState]
       /\ \A t \in Live(new) : t \in Live(mid) /\ new[t] = mid[t]
       /\ IsFiniteSet(Live(new)) /\ Cardinality(Live(new)) <= MaxDialogs
  BY <1>5, <1>9, <1>12, <1>13, FewDialogsFacts
<1>15. ASSUME NEW t \in Live(mid)
       PROVE  /\ mid[t].lastSeen <= calls + 1 /\ Ordered(mid[t])
              /\ Cardinality(Chunks(mid[t].seen)) <= MaxChunks
  <2>1. CASE t = s
    BY <1>7, <1>8, <2>1
  <2>2. CASE t # s
    <3>1. mid[t].lastSeen <= calls + 1 /\ Ordered(mid[t])
      BY <1>10, <1>11, <2>2
    <3>2. /\ IsFiniteSet(Chunks(dialogs[t].seen))
          /\ Cardinality(Chunks(dialogs[t].seen)) <= MaxChunks
      BY <1>10, <2>2 DEF StoreAt, Ordered
    <3>3. /\ IsFiniteSet(Chunks(mid[t].seen))
          /\ Cardinality(Chunks(mid[t].seen)) <= Cardinality(Chunks(dialogs[t].seen))
      BY <1>10, <2>2, <3>2, FS_Subset
    <3>4. /\ Cardinality(Chunks(mid[t].seen)) \in Nat
          /\ Cardinality(Chunks(dialogs[t].seen)) \in Nat
      BY <3>2, <3>3, FS_CardinalityType
    <3> QED
      BY <3>1, <3>2, <3>3, <3>4, ChunkAssumption
  <2> QED
    BY <2>1, <2>2
<1>16. StoreAt(new, calls + 1)
  <2>1. ASSUME NEW t \in Live(new)
        PROVE  /\ new[t].lastSeen <= calls + 1 /\ Ordered(new[t])
               /\ Cardinality(Chunks(new[t].seen)) <= MaxChunks
    BY <1>14, <1>15
  <2>2. \A t, r \in Live(new) : new[t].lastSeen = new[r].lastSeen => t = r
    BY <1>12, <1>14
  <2> QED
    BY <1>14, <2>1, <2>2 DEF StoreAt
<1>17. ASSUME NEW t \in Live(new) \ {s}
       PROVE  /\ t \in Live(dialogs) /\ Chunks(new[t].seen) \subseteq Chunks(dialogs[t].seen)
              /\ new[t].inBytes = dialogs[t].inBytes /\ new[t].refBytes = dialogs[t].refBytes
  BY <1>10, <1>14
<1>18. ASSUME s \in Live(new)
       PROVE  \/ /\ s \in Live(dialogs)
                 /\ Chunks(new[s].seen)
                      \subseteq Chunks(dialogs[s].seen) \cup Range(o.fast) \cup Range(o.line)
                 /\ new[s].inBytes = dialogs[s].inBytes + TextBytes(o.fast)
                 /\ new[s].refBytes = dialogs[s].refBytes
              \/ /\ Chunks(new[s].seen) \subseteq Range(o.fast) \cup Range(o.line)
                 /\ new[s].inBytes = TextBytes(o.fast)
                 /\ new[s].refBytes = 0
  <2>1. new[s] = fresh
    BY <1>8, <1>14, <1>18
  <2>2. CASE u[s] = NoDialog
    <3>1. old = NewDialog
      BY <2>2 DEF old
    <3>2. Chunks(old.seen) = {} /\ old.inBytes = 0 /\ old.refBytes = 0
      BY <3>1, NewDialogFacts
    <3>3. new[s].inBytes = TextBytes(o.fast)
      BY <1>7, <2>1, <3>2, OutputTypes
    <3> QED
      BY <1>7, <2>1, <3>2, <3>3
  <2>3. CASE u[s] # NoDialog
    <3>1. old = u[s]
      BY <2>3 DEF old
    <3> QED
      BY <1>3, <1>7, <2>1, <2>3, <3>1
  <2> QED
    BY <2>2, <2>3
<1> QED
  BY <1>16, <1>17, <1>18 DEF new, u

-----------------------------------------------------------------------------
(* What was referred to.                                                   *)

(* The bytes that Encodes of a session may still replace.                  *)
Busy(enc, s) == {e \in Encoder : enc[e] # NoEncode /\ enc[e].dialog = s}
Pending(enc, s) == Cells(Busy(enc, s), [e \in Encoder |-> enc[e].limit])

LEMMA EncodeTypes ==
  ASSUME NEW enc \in [Encoder -> {NoEncode} \cup Encode], NEW e \in Encoder, enc[e] # NoEncode
  PROVE  /\ enc[e] \in Encode
         /\ enc[e].dialog \in Dialog /\ enc[e].output \in Output
         /\ enc[e].repeated \subseteq Chunk /\ enc[e].limit \in Nat
<1>1. enc[e] \in Encode
  OBVIOUS
<1> QED
  BY <1>1 DEF Encode

(* An Encode begins.                                                       *)
LEMMA PendingMore ==
  ASSUME NEW enc \in [Encoder -> {NoEncode} \cup Encode], NEW e \in Encoder,
         enc[e] = NoEncode, NEW new \in Encode, NEW t \in Dialog, IsFiniteSet(Pending(enc, t))
  PROVE  LET next == [enc EXCEPT ![e] = new]
         IN  /\ IsFiniteSet(Pending(next, t))
             /\ Cardinality(Pending(next, t))
                  <= Cardinality(Pending(enc, t)) + (IF t = new.dialog THEN new.limit ELSE 0)
<1> DEFINE next == [enc EXCEPT ![e] = new]
           size == [d \in Encoder |-> next[d].limit]
<1>1. e \notin Busy(enc, t)
  BY DEF Busy
<1>2. \A d \in Busy(enc, t) : size[d] = [b \in Encoder |-> enc[b].limit][d]
  BY <1>1 DEF Busy
<1>3. Cells(Busy(enc, t), size) = Pending(enc, t)
  <2>1. {{d} \X (1..size[d]) : d \in Busy(enc, t)}
          = {{d} \X (1..[b \in Encoder |-> enc[b].limit][d]) : d \in Busy(enc, t)}
    BY <1>2
  <2> QED
    BY <2>1 DEF Pending, Cells
<1>4. new.limit \in Nat /\ new.dialog \in Dialog
  BY DEF Encode
<1>5. size[e] = new.limit /\ next[e] = new
  OBVIOUS
<1>6. Pending(next, t) = Cells(Busy(next, t), size)
  BY DEF Pending
<1>7. \A d \in Encoder \ {e} : next[d] = enc[d]
  OBVIOUS
<1> HIDE DEF next, size
<1>8. Busy(next, t) \ {e} = Busy(enc, t)
  BY <1>1, <1>7 DEF Busy
<1>9. Cardinality(Pending(enc, t)) \in Nat
  BY FS_CardinalityType
<1>10. CASE e \in Busy(next, t)
  <2>1. t = new.dialog
    BY <1>5, <1>10 DEF Busy
  <2>2. Busy(next, t) = Busy(enc, t) \cup {e}
    BY <1>8, <1>10
  <2>3. /\ IsFiniteSet(Cells(Busy(enc, t) \cup {e}, size))
        /\ Cardinality(Cells(Busy(enc, t) \cup {e}, size))
             = Cardinality(Cells(Busy(enc, t), size)) + size[e]
    BY <1>1, <1>3, <1>4, <1>5, CellsAdded
  <2>4. IsFiniteSet(Pending(next, t))
    BY <1>6, <2>2, <2>3
  <2>5. Cardinality(Pending(next, t)) = Cardinality(Pending(enc, t)) + new.limit
    BY <1>3, <1>5, <1>6, <2>2, <2>3
  <2> QED
    BY <1>4, <1>9, <2>1, <2>4, <2>5 DEF next
<1>11. CASE e \notin Busy(next, t)
  <2>1. Busy(next, t) = Busy(enc, t)
    BY <1>8, <1>11
  <2>2. Pending(next, t) = Pending(enc, t)
    BY <1>3, <1>6, <2>1
  <2> QED
    BY <1>4, <1>9, <2>2 DEF next
<1> QED
  BY <1>10, <1>11

(* An Encode ends.                                                         *)
LEMMA PendingLess ==
  ASSUME NEW enc \in [Encoder -> {NoEncode} \cup Encode], NEW e \in Encoder,
         enc[e] # NoEncode, NEW t \in Dialog, IsFiniteSet(Pending(enc, t))
  PROVE  LET next == [enc EXCEPT ![e] = NoEncode]
         IN  /\ IsFiniteSet(Pending(next, t))
             /\ Cardinality(Pending(next, t)) + (IF t = enc[e].dialog THEN enc[e].limit ELSE 0)
                  <= Cardinality(Pending(enc, t))
<1> DEFINE next == [enc EXCEPT ![e] = NoEncode]
           size == [d \in Encoder |-> enc[d].limit]
<1>1. Busy(next, t) = Busy(enc, t) \ {e}
  BY DEF Busy
<1>2. \A d \in Busy(next, t) : size[d] = [b \in Encoder |-> next[b].limit][d]
  BY <1>1 DEF Busy
<1>3. Pending(next, t) = Cells(Busy(next, t), size)
  <2>1. {{d} \X (1..size[d]) : d \in Busy(next, t)}
          = {{d} \X (1..[b \in Encoder |-> next[b].limit][d]) : d \in Busy(next, t)}
    BY <1>2
  <2> QED
    BY <2>1 DEF Pending, Cells
<1>4. Pending(enc, t) = Cells(Busy(enc, t), size)
  BY DEF Pending
<1>5. size[e] = enc[e].limit /\ size[e] \in Nat
  BY EncodeTypes
<1> HIDE DEF next, size
<1>6. Cells(Busy(next, t), size) \subseteq Cells(Busy(enc, t), size)
  BY <1>1 DEF Cells
<1>7. /\ IsFiniteSet(Pending(next, t))
      /\ Cardinality(Pending(next, t)) <= Cardinality(Pending(enc, t))
  BY <1>3, <1>4, <1>6, FS_Subset
<1>8. Cardinality(Pending(next, t)) \in Nat /\ Cardinality(Pending(enc, t)) \in Nat
  BY <1>7, FS_CardinalityType
<1>9. CASE t = enc[e].dialog
  <2>1. e \in Busy(enc, t)
    BY <1>9 DEF Busy
  <2>2. Busy(enc, t) = Busy(next, t) \cup {e} /\ e \notin Busy(next, t)
    BY <1>1, <2>1
  <2>3. Cardinality(Cells(Busy(next, t) \cup {e}, size))
          = Cardinality(Cells(Busy(next, t), size)) + size[e]
    <3>1. IsFiniteSet(Cells(Busy(next, t), size))
      BY <1>3, <1>7
    <3> QED
      BY <1>5, <2>2, <3>1, CellsAdded
  <2>4. Cardinality(Pending(enc, t)) = Cardinality(Pending(next, t)) + enc[e].limit
    BY <1>3, <1>4, <1>5, <2>2, <2>3
  <2> QED
    BY <1>5, <1>7, <1>8, <1>9, <2>4 DEF next
<1>10. CASE t # enc[e].dialog
  BY <1>7, <1>8, <1>10 DEF next
<1> QED
  BY <1>9, <1>10

(* A share of a number.                                                    *)
LEMMA ShareFacts ==
  ASSUME NEW n \in Nat, NEW pct \in 1..100
  PROVE  (n * pct) \div 100 \in Nat /\ (n * pct) \div 100 <= n
<1>1. n * pct \in Nat /\ n * pct <= n * 100
  OBVIOUS
<1> DEFINE m == n * pct
<1> HIDE DEF m
<1>2. m \in Nat /\ m <= n * 100
  BY <1>1 DEF m
<1>3. m \div 100 \in Nat /\ m \div 100 <= n
  BY <1>2
<1> QED
  BY <1>3 DEF m

LEMMA BudgetType ==
  ASSUME NEW d \in DialogState, NEW n \in Nat
  PROVE  Budget(d, n) \in Nat
<1>1. d.inBytes + n \in Nat /\ d.refBytes \in Nat
  BY DialogTypes
<1>2. ((d.inBytes + n) * MaxRefPct) \div 100 \in Nat
  BY <1>1, ShareFacts, ChunkAssumption
<1> DEFINE most == ((d.inBytes + n) * MaxRefPct) \div 100
<1>3. Budget(d, n) = IF MaxRefPct >= 100 THEN d.inBytes + n
                     ELSE IF d.refBytes > most THEN 0 ELSE most - d.refBytes
  BY DEF Budget
<1> HIDE DEF most
<1>4. most \in Nat
  BY <1>2 DEF most
<1> QED
  BY <1>1, <1>3, <1>4

LEMMA MinOfTwo ==
  ASSUME NEW a \in Nat, NEW b \in Nat
  PROVE  Min({a, b}) \in Nat /\ Min({a, b}) <= b
<1>1. \E x \in {a, b} : \A y \in {a, b} : x <= y
  OBVIOUS
<1>2. Min({a, b}) \in {a, b} /\ \A y \in {a, b} : Min({a, b}) <= y
  BY <1>1 DEF Min
<1> QED
  BY <1>2

(* The limit of an Encode.                                                 *)
LEMMA LimitFacts ==
  ASSUME NEW d \in DialogState, NEW o \in Output
  PROVE  LET limit == Min({Budget(d, TextBytes(o.fast)), (TextBytes(o.fast) * OutputPct) \div 100})
         IN  limit \in Nat /\ limit <= TextBytes(o.fast)
<1> DEFINE size == TextBytes(o.fast)
           share == (size * OutputPct) \div 100
<1>1. size \in Nat
  BY OutputTypes
<1> HIDE DEF size
<1>2. share \in Nat /\ share <= size
  BY <1>1, ShareFacts, ChunkAssumption
<1>3. Budget(d, size) \in Nat
  BY <1>1, BudgetType
<1>4. Min({Budget(d, size), share}) \in Nat /\ Min({Budget(d, size), share}) <= share
  <2> HIDE DEF share
  <2> QED
    BY <1>2, <1>3, MinOfTwo
<1>5. Min({Budget(d, size), share}) <= size
  <2> HIDE DEF share
  <2> QED
    BY <1>1, <1>2, <1>4
<1> QED
  BY <1>4, <1>5 DEF size

-----------------------------------------------------------------------------
(* The inductive invariant.                                                *)

Spent(s) == ledger[s].referred - ledger[s].forgotten

(* What the store knows, an output carried; what an Encode refers to, two. *)
CarriedBefore ==
  /\ \A s \in Live(dialogs) : \A c \in Chunks(dialogs[s].seen) : ledger[s].carried[c] > 0
  /\ \A e \in Encoder : encoder[e] # NoEncode =>
       \A c \in encoder[e].repeated : ledger[encoder[e].dialog].carried[c] > 1
  /\ RefersBack

(* The account of a session: with the limit at 100 percent, what was       *)
(* replaced and what the Encodes at work may replace are bytes of outputs, *)
(* each counted once; below it, what the store does not remember of an     *)
(* earlier life of the session was in that life's budget.                  *)
InBudget(spent, given) == spent * 100 <= MaxRefPct * given
EarlierInBudget(spent, ref, given, in) ==
  spent * 100 + MaxRefPct * in <= MaxRefPct * given + ref * 100
Balanced(s) ==
  /\ ledger[s].forgotten <= ledger[s].referred
  /\ InBudget(Spent(s), ledger[s].given)
  /\ s \in Live(dialogs) =>
       /\ dialogs[s].refBytes <= Spent(s)
       /\ MaxRefPct < 100 =>
            /\ InBudget(dialogs[s].refBytes, dialogs[s].inBytes)
            /\ EarlierInBudget(Spent(s), dialogs[s].refBytes, ledger[s].given, dialogs[s].inBytes)
Reserved(s) ==
  MaxRefPct = 100 =>
    /\ IsFiniteSet(Pending(encoder, s))
    /\ ledger[s].referred + Cardinality(Pending(encoder, s)) <= ledger[s].given

ChunkInv ==
  /\ ChunkTypeOK
  /\ StoreAt(dialogs, calls)
  /\ CarriedBefore
  /\ \A s \in Dialog : Balanced(s) /\ Reserved(s)

LEMMA LedgerTypes ==
  ASSUME ChunkTypeOK, NEW s \in Dialog
  PROVE  /\ ledger[s] \in Ledger
         /\ ledger[s].given \in Nat /\ ledger[s].referred \in Nat /\ ledger[s].forgotten \in Nat
         /\ ledger[s].carried \in [Chunk -> Nat] /\ ledger[s].named \subseteq Chunk
<1>1. ledger[s] \in Ledger
  BY DEF ChunkTypeOK
<1> QED
  BY <1>1 DEF Ledger

LEMMA ClockTypes ==
  ASSUME ChunkTypeOK
  PROVE  /\ calls \in Nat /\ MaxOutputs \in Nat
         /\ calls < MaxOutputs => calls + 1 \in 0..MaxOutputs
  BY ChunkAssumption DEF ChunkTypeOK

LEMMA ChunkInitial == ChunkInit => ChunkInv
<1> SUFFICES ASSUME ChunkInit
             PROVE  ChunkInv
  OBVIOUS
<1> USE DEF ChunkInit
<1>1. ChunkTypeOK
  <2>1. dialogs \in [Dialog -> {NoDialog} \cup DialogState]
    OBVIOUS
  <2>2. encoder \in [Encoder -> {NoEncode} \cup Encode]
    OBVIOUS
  <2>3. [c \in Chunk |-> 0] \in [Chunk -> Nat]
    OBVIOUS
  <2>4. ledger \in [Dialog -> Ledger]
    BY <2>3 DEF Ledger
  <2>5. calls \in 0..MaxOutputs
    BY ChunkAssumption
  <2> QED
    BY <2>1, <2>2, <2>4, <2>5 DEF ChunkTypeOK
<1>2. Live(dialogs) = {}
  BY DEF Live
<1>3. StoreAt(dialogs, calls)
  <2>1. IsFiniteSet({}) /\ Cardinality({}) <= MaxDialogs
    BY FS_EmptySet, ChunkAssumption
  <2> QED
    BY <1>1, <1>2, <2>1 DEF StoreAt, ChunkTypeOK
<1>4. CarriedBefore
  <2>1. RefersBack
    BY DEF RefersBack
  <2> QED
    BY <1>2, <2>1 DEF CarriedBefore
<1>5. ASSUME NEW s \in Dialog
      PROVE  Balanced(s) /\ Reserved(s)
  <2>1. ledger[s].given = 0 /\ ledger[s].referred = 0 /\ ledger[s].forgotten = 0
    OBVIOUS
  <2>2. Busy(encoder, s) = {}
    BY DEF Busy
  <2>3. Pending(encoder, s) = {}
    BY <2>2 DEF Pending, Cells
  <2>4. IsFiniteSet(Pending(encoder, s)) /\ Cardinality(Pending(encoder, s)) = 0
    BY <2>3, FS_EmptySet
  <2>5. InBudget(Spent(s), ledger[s].given)
    BY <2>1, ChunkAssumption DEF InBudget, Spent
  <2> QED
    BY <1>2, <2>1, <2>4, <2>5 DEF Balanced, Reserved
<1> QED
  BY <1>1, <1>3, <1>4, <1>5 DEF ChunkInv

(* What Given does to the ledger.                                          *)
LEMMA GivenFacts ==
  ASSUME ChunkTypeOK, NEW s \in Dialog, NEW o \in Output, Given(s, o)
  PROVE  /\ ledger' \in [Dialog -> Ledger]
         /\ \A t \in Dialog \ {s} : ledger'[t] = ledger[t]
         /\ ledger'[s].given = ledger[s].given + TextBytes(o.fast)
         /\ ledger'[s].referred = ledger[s].referred
         /\ ledger'[s].forgotten = ledger[s].forgotten
         /\ ledger'[s].named = ledger[s].named
         /\ \A c \in Chunk : ledger'[s].carried[c] =
              ledger[s].carried[c] + (IF c \in Range(o.fast) \cup Range(o.line) THEN 1 ELSE 0)
<1> DEFINE carried == [c \in Chunk |-> ledger[s].carried[c]
                         + (IF c \in Range(o.fast) \cup Range(o.line) THEN 1 ELSE 0)]
           given == ledger[s].given + TextBytes(o.fast)
           new == [ledger[s] EXCEPT !.given = given, !.carried = carried]
<1>1. ledger \in [Dialog -> Ledger]
  BY DEF ChunkTypeOK
<1>2. ledger' = [ledger EXCEPT ![s] = new]
  BY DEF Given
<1>3. carried \in [Chunk -> Nat]
  BY LedgerTypes
<1>4. given \in Nat
  BY LedgerTypes, OutputTypes
<1>5. \A c \in Chunk : carried[c] = ledger[s].carried[c]
                         + (IF c \in Range(o.fast) \cup Range(o.line) THEN 1 ELSE 0)
  OBVIOUS
<1> HIDE DEF carried, given
<1>6. /\ new \in Ledger /\ new.given = given /\ new.carried = carried
      /\ new.referred = ledger[s].referred /\ new.forgotten = ledger[s].forgotten
      /\ new.named = ledger[s].named
  BY <1>3, <1>4, LedgerTypes DEF Ledger
<1> HIDE DEF new
<1>7. ledger'[s] = new /\ \A t \in Dialog \ {s} : ledger'[t] = ledger[t]
  BY <1>1, <1>2
<1>8. ledger' \in [Dialog -> Ledger]
  BY <1>1, <1>2, <1>6
<1> QED
  BY <1>5, <1>6, <1>7, <1>8 DEF given

(* More outputs carry more.                                                *)
LEMMA GivenCarries ==
  ASSUME ChunkTypeOK, NEW s \in Dialog, NEW o \in Output, Given(s, o)
  PROVE  /\ \A t \in Dialog, c \in Chunk : ledger'[t].carried[c] >= ledger[t].carried[c]
         /\ \A t \in Dialog : ledger'[t].named = ledger[t].named
         /\ \A c \in Range(o.fast) \cup Range(o.line) :
              ledger'[s].carried[c] > ledger[s].carried[c]
         /\ \A t \in Dialog, c \in Chunk :
              ledger[t].carried[c] \in Nat /\ ledger'[t].carried[c] \in Nat
<1>1. \A t \in Dialog, c \in Chunk : ledger[t].carried[c] \in Nat
  BY LedgerTypes
<1>2. Range(o.fast) \cup Range(o.line) \subseteq Chunk
  BY OutputTypes
<1>3. ASSUME NEW c \in Chunk
      PROVE  /\ ledger'[s].carried[c] \in Nat
             /\ ledger'[s].carried[c] >= ledger[s].carried[c]
             /\ c \in Range(o.fast) \cup Range(o.line) =>
                  ledger'[s].carried[c] > ledger[s].carried[c]
  <2>1. ledger'[s].carried[c] =
          ledger[s].carried[c] + (IF c \in Range(o.fast) \cup Range(o.line) THEN 1 ELSE 0)
    BY GivenFacts
  <2> QED
    BY <1>1, <2>1
<1>4. \A t \in Dialog \ {s} : ledger'[t] = ledger[t]
  BY GivenFacts
<1>5. ledger'[s].named = ledger[s].named
  BY GivenFacts
<1>6. ASSUME NEW t \in Dialog, NEW c \in Chunk
      PROVE  ledger'[t].carried[c] \in Nat /\ ledger'[t].carried[c] >= ledger[t].carried[c]
  BY <1>1, <1>3, <1>4
<1> QED
  BY <1>1, <1>2, <1>3, <1>4, <1>5, <1>6

(* The budget's arithmetic.                                                *)
LEMMA BudgetGrows ==
  ASSUME NEW spent \in Nat, NEW given \in Nat, NEW n \in Nat, InBudget(spent, given)
  PROVE  InBudget(spent, given + n)
<1>1. MaxRefPct \in Nat
  BY ChunkAssumption
<1>2. /\ MaxRefPct * (given + n) = MaxRefPct * given + MaxRefPct * n
      /\ MaxRefPct * given \in Nat /\ MaxRefPct * n \in Nat
  BY <1>1
<1>3. spent * 100 <= MaxRefPct * given
  BY DEF InBudget
<1> DEFINE g == MaxRefPct * given
           m == MaxRefPct * n
<1>4. g \in Nat /\ m \in Nat /\ spent * 100 <= g /\ MaxRefPct * (given + n) = g + m
  BY <1>2, <1>3
<1> HIDE DEF g, m
<1>5. spent * 100 <= g + m
  BY <1>4
<1> QED
  BY <1>4, <1>5 DEF InBudget

LEMMA NothingSpent ==
  ASSUME NEW spent \in Nat, NEW given \in Nat, NEW n \in Nat, InBudget(spent, given)
  PROVE  InBudget(0, n) /\ EarlierInBudget(spent, 0, given + n, n)
<1>1. MaxRefPct \in Nat
  BY ChunkAssumption
<1>2. /\ MaxRefPct * (given + n) = MaxRefPct * given + MaxRefPct * n
      /\ MaxRefPct * given \in Nat /\ MaxRefPct * n \in Nat
  BY <1>1
<1>3. spent * 100 <= MaxRefPct * given
  BY DEF InBudget
<1> DEFINE g == MaxRefPct * given
           m == MaxRefPct * n
<1>4. g \in Nat /\ m \in Nat /\ spent * 100 <= g /\ MaxRefPct * (given + n) = g + m
  BY <1>2, <1>3
<1> HIDE DEF g
<1>5. m >= 0 * 100 /\ spent * 100 + m <= (g + m) + 0 * 100
  <2> HIDE DEF m
  <2> QED
    BY <1>4
<1> QED
  BY <1>4, <1>5 DEF InBudget, EarlierInBudget

LEMMA EarlierGrows ==
  ASSUME NEW spent \in Nat, NEW ref \in Nat, NEW given \in Nat, NEW in \in Nat, NEW n \in Nat,
         EarlierInBudget(spent, ref, given, in)
  PROVE  EarlierInBudget(spent, ref, given + n, in + n)
<1>1. MaxRefPct \in Nat
  BY ChunkAssumption
<1>2. /\ MaxRefPct * (given + n) = MaxRefPct * given + MaxRefPct * n
      /\ MaxRefPct * (in + n) = MaxRefPct * in + MaxRefPct * n
      /\ MaxRefPct * given \in Nat /\ MaxRefPct * n \in Nat /\ MaxRefPct * in \in Nat
  BY <1>1
<1>3. spent * 100 + MaxRefPct * in <= MaxRefPct * given + ref * 100
  BY DEF EarlierInBudget
<1> DEFINE g == MaxRefPct * given
           m == MaxRefPct * n
           i == MaxRefPct * in
<1>4. /\ g \in Nat /\ m \in Nat /\ i \in Nat /\ spent * 100 + i <= g + ref * 100
      /\ MaxRefPct * (given + n) = g + m /\ MaxRefPct * (in + n) = i + m
  BY <1>2, <1>3
<1> HIDE DEF g, m, i
<1>5. spent * 100 + (i + m) <= (g + m) + ref * 100
  BY <1>4
<1> QED
  BY <1>4, <1>5 DEF EarlierInBudget

(* What is spent in the budget of what the store remembers is in the whole *)
(* one.                                                                    *)
LEMMA EarlierSpends ==
  ASSUME NEW spent \in Nat, NEW ref \in Nat, NEW given \in Nat, NEW in \in Nat, NEW n \in Nat,
         EarlierInBudget(spent, ref, given, in), InBudget(ref + n, in)
  PROVE  /\ EarlierInBudget(spent + n, ref + n, given, in)
         /\ InBudget(spent + n, given)
<1>1. MaxRefPct \in Nat
  BY ChunkAssumption
<1>2. MaxRefPct * given \in Nat /\ MaxRefPct * in \in Nat
  BY <1>1
<1>3. /\ spent * 100 + MaxRefPct * in <= MaxRefPct * given + ref * 100
      /\ (ref + n) * 100 <= MaxRefPct * in
  BY DEF EarlierInBudget, InBudget
<1> DEFINE g == MaxRefPct * given
           i == MaxRefPct * in
<1>4. /\ g \in Nat /\ i \in Nat /\ spent * 100 + i <= g + ref * 100
      /\ (ref + n) * 100 <= i
  BY <1>2, <1>3
<1> HIDE DEF g, i
<1>5. /\ (spent + n) * 100 + i <= g + (ref + n) * 100
      /\ (spent + n) * 100 <= g
  BY <1>4
<1> QED
  BY <1>5 DEF InBudget, EarlierInBudget, g, i

LEMMA SpentType ==
  ASSUME ChunkTypeOK, NEW s \in Dialog, Balanced(s)
  PROVE  Spent(s) \in Nat
<1>1. ledger[s].forgotten <= ledger[s].referred
  BY DEF Balanced
<1> QED
  BY <1>1, LedgerTypes DEF Spent

(* An output is entered: the session's account gets its bytes.             *)
LEMMA EnteredBalanced ==
  ASSUME ChunkTypeOK, StoreAt(dialogs, calls), NEW s \in Dialog, NEW o \in Output,
         NEW cutoff \in Nat, dialogs' = Entered(Unexpired(dialogs, cutoff), s, o),
         Given(s, o), NEW t \in Dialog, Balanced(t)
  PROVE  Balanced(t)'
<1>1. calls \in Nat
  BY ClockTypes
<1>2. /\ StoreAt(dialogs', calls + 1)
      /\ t \in Live(dialogs') /\ t # s =>
           /\ t \in Live(dialogs)
           /\ dialogs'[t].inBytes = dialogs[t].inBytes /\ dialogs'[t].refBytes = dialogs[t].refBytes
      /\ s \in Live(dialogs') =>
           \/ /\ s \in Live(dialogs)
              /\ dialogs'[s].inBytes = dialogs[s].inBytes + TextBytes(o.fast)
              /\ dialogs'[s].refBytes = dialogs[s].refBytes
           \/ /\ dialogs'[s].inBytes = TextBytes(o.fast)
              /\ dialogs'[s].refBytes = 0
  BY <1>1, EnteredFacts
<1>3. CASE t # s
  <2>1. ledger'[t] = ledger[t]
    BY <1>3, GivenFacts
  <2> QED
    BY <1>2, <1>3, <2>1 DEF Balanced, Spent, InBudget, EarlierInBudget
<1>4. CASE t = s
  <2> DEFINE n == TextBytes(o.fast)
  <2>1. /\ ledger'[s].given = ledger[s].given + n
        /\ ledger'[s].referred = ledger[s].referred
        /\ ledger'[s].forgotten = ledger[s].forgotten
    BY GivenFacts
  <2>2. n \in Nat /\ ledger[s].given \in Nat
    BY OutputTypes, LedgerTypes
  <2>3. Spent(s) \in Nat
    BY <1>4, SpentType
  <2>4. Spent(s)' = Spent(s)
    BY <2>1 DEF Spent
  <2>5. InBudget(Spent(s), ledger[s].given)
    BY <1>4 DEF Balanced
  <2> HIDE DEF n
  <2>6. InBudget(Spent(s), ledger[s].given + n)
    BY <2>2, <2>3, <2>5, BudgetGrows
  <2>7. ASSUME s \in Live(dialogs')
        PROVE  /\ dialogs'[s].refBytes <= Spent(s)
               /\ MaxRefPct < 100 =>
                    /\ InBudget(dialogs'[s].refBytes, dialogs'[s].inBytes)
                    /\ EarlierInBudget(Spent(s), dialogs'[s].refBytes, ledger[s].given + n,
                                       dialogs'[s].inBytes)
    <3>1. CASE /\ s \in Live(dialogs)
               /\ dialogs'[s].inBytes = dialogs[s].inBytes + n
               /\ dialogs'[s].refBytes = dialogs[s].refBytes
      <4>1. dialogs[s] \in DialogState
        BY <3>1 DEF Live, ChunkTypeOK
      <4>2. dialogs[s].inBytes \in Nat /\ dialogs[s].refBytes \in Nat
        BY <4>1, DialogTypes
      <4>3. /\ dialogs[s].refBytes <= Spent(s)
            /\ MaxRefPct < 100 =>
                 /\ InBudget(dialogs[s].refBytes, dialogs[s].inBytes)
                 /\ EarlierInBudget(Spent(s), dialogs[s].refBytes, ledger[s].given, dialogs[s].inBytes)
        BY <1>4, <3>1 DEF Balanced
      <4>4. MaxRefPct < 100 =>
              /\ InBudget(dialogs[s].refBytes, dialogs[s].inBytes + n)
              /\ EarlierInBudget(Spent(s), dialogs[s].refBytes, ledger[s].given + n,
                                 dialogs[s].inBytes + n)
        <5> SUFFICES ASSUME MaxRefPct < 100
                     PROVE  /\ InBudget(dialogs[s].refBytes, dialogs[s].inBytes + n)
                            /\ EarlierInBudget(Spent(s), dialogs[s].refBytes,
                                               ledger[s].given + n, dialogs[s].inBytes + n)
          OBVIOUS
        <5>1. InBudget(dialogs[s].refBytes, dialogs[s].inBytes + n)
          BY <2>2, <4>2, <4>3, BudgetGrows
        <5> QED
          BY <2>2, <2>3, <4>2, <4>3, <5>1, EarlierGrows
      <4> QED
        BY <3>1, <4>3, <4>4
    <3>2. CASE dialogs'[s].inBytes = n /\ dialogs'[s].refBytes = 0
      <4>1. InBudget(0, n) /\ EarlierInBudget(Spent(s), 0, ledger[s].given + n, n)
        BY <2>2, <2>3, <2>5, NothingSpent
      <4> QED
        BY <2>3, <3>2, <4>1
    <3> QED
      BY <1>2, <2>7, <3>1, <3>2 DEF n
  <2>8. ledger'[s].forgotten <= ledger'[s].referred
    BY <1>4, <2>1 DEF Balanced
  <2> QED
    BY <1>4, <2>1, <2>4, <2>6, <2>7, <2>8 DEF Balanced, InBudget, EarlierInBudget
<1> QED
  BY <1>3, <1>4

(* What is entered was carried, and what was known is carried once more.   *)
LEMMA EnteredCarried ==
  ASSUME ChunkTypeOK, StoreAt(dialogs, calls), CarriedBefore, NEW s \in Dialog, NEW o \in Output,
         NEW cutoff \in Nat, dialogs' = Entered(Unexpired(dialogs, cutoff), s, o), Given(s, o)
  PROVE  /\ \A t \in Live(dialogs') : \A c \in Chunks(dialogs'[t].seen) : ledger'[t].carried[c] > 0
         /\ RefersBack'
<1>1. calls \in Nat
  BY ClockTypes
<1>2. /\ dialogs' \in [Dialog -> {NoDialog} \cup DialogState]
      /\ \A t \in Live(dialogs') \ {s} :
           t \in Live(dialogs) /\ Chunks(dialogs'[t].seen) \subseteq Chunks(dialogs[t].seen)
      /\ s \in Live(dialogs') =>
           \/ /\ s \in Live(dialogs)
              /\ Chunks(dialogs'[s].seen)
                   \subseteq Chunks(dialogs[s].seen) \cup Range(o.fast) \cup Range(o.line)
           \/ Chunks(dialogs'[s].seen) \subseteq Range(o.fast) \cup Range(o.line)
  BY <1>1, EnteredFacts DEF StoreAt
<1>3. /\ \A t \in Dialog, c \in Chunk :
           /\ ledger[t].carried[c] \in Nat /\ ledger'[t].carried[c] \in Nat
           /\ ledger'[t].carried[c] >= ledger[t].carried[c]
      /\ \A c \in Range(o.fast) \cup Range(o.line) : ledger'[s].carried[c] > ledger[s].carried[c]
      /\ \A t \in Dialog : ledger'[t].named = ledger[t].named
  BY GivenCarries
<1>4. Range(o.fast) \cup Range(o.line) \subseteq Chunk
  BY OutputTypes
<1>5. ASSUME NEW t \in Live(dialogs'), NEW c \in Chunks(dialogs'[t].seen)
      PROVE  ledger'[t].carried[c] > 0
  <2>1. t \in Dialog /\ c \in Chunk
    BY DEF Live, Chunks
  <2>2. CASE t \in Live(dialogs) /\ c \in Chunks(dialogs[t].seen)
    <3>1. ledger[t].carried[c] > 0
      BY <2>2 DEF CarriedBefore
    <3> QED
      BY <1>3, <2>1, <3>1
  <2>3. CASE t = s /\ c \in Range(o.fast) \cup Range(o.line)
    <3>1. ledger'[s].carried[c] > ledger[s].carried[c]
      BY <1>3, <2>3
    <3>2. ledger'[s].carried[c] \in Nat /\ ledger[s].carried[c] \in Nat
      BY <1>3, <2>1
    <3> QED
      BY <2>3, <3>1, <3>2
  <2> QED
    BY <1>2, <2>2, <2>3
<1>6. ASSUME NEW t \in Dialog, NEW c \in ledger'[t].named
      PROVE  ledger'[t].carried[c] > 1
  <2>1. c \in ledger[t].named /\ c \in Chunk
    BY <1>3, LedgerTypes
  <2>2. ledger[t].carried[c] > 1
    BY <2>1 DEF CarriedBefore, RefersBack
  <2> QED
    BY <1>3, <2>1, <2>2
<1>7. RefersBack'
  BY <1>6 DEF RefersBack
<1> QED
  BY <1>5, <1>7

(* What Encodes at work may refer to was carried before.                   *)
LEMMA RepeatedKept ==
  ASSUME ChunkTypeOK, CarriedBefore, NEW e \in Encoder, encoder[e] # NoEncode,
         NEW c \in encoder[e].repeated,
         \A t \in Dialog, k \in Chunk :
           /\ ledger[t].carried[k] \in Nat /\ ledger'[t].carried[k] \in Nat
           /\ ledger'[t].carried[k] >= ledger[t].carried[k]
  PROVE  ledger'[encoder[e].dialog].carried[c] > 1
<1>1. encoder[e].dialog \in Dialog /\ c \in Chunk
  BY EncodeTypes DEF ChunkTypeOK
<1>2. ledger[encoder[e].dialog].carried[c] > 1
  BY DEF CarriedBefore
<1> QED
  BY <1>1, <1>2

LEMMA ObserveStep ==
  ASSUME ChunkInv, NEW s \in Dialog, NEW o \in Output, Observe(s, o)
  PROVE  ChunkInv'
<1>1. ChunkTypeOK /\ StoreAt(dialogs, calls) /\ CarriedBefore
  BY DEF ChunkInv
<1>2. PICK cutoff \in 0..(calls + 1) : dialogs' = Entered(Unexpired(dialogs, cutoff), s, o)
  BY DEF Observe
<1>3. calls \in Nat /\ cutoff \in Nat
  BY <1>1, ClockTypes
<1>4. Given(s, o) /\ calls < MaxOutputs /\ calls' = calls + 1 /\ encoder' = encoder
  BY DEF Observe
<1>5. StoreAt(dialogs', calls')
  BY <1>1, <1>2, <1>3, <1>4, EnteredFacts
<1>6. ChunkTypeOK'
  <2>1. ledger' \in [Dialog -> Ledger]
    BY <1>1, <1>4, GivenFacts
  <2>2. calls' \in 0..MaxOutputs
    BY <1>1, <1>4, ClockTypes
  <2>3. dialogs' \in [Dialog -> {NoDialog} \cup DialogState]
    BY <1>5 DEF StoreAt
  <2> QED
    BY <1>1, <1>4, <2>1, <2>2, <2>3 DEF ChunkTypeOK
<1>7. CarriedBefore'
  <2>1. /\ \A t \in Live(dialogs') : \A c \in Chunks(dialogs'[t].seen) : ledger'[t].carried[c] > 0
        /\ RefersBack'
    BY <1>1, <1>2, <1>3, <1>4, EnteredCarried
  <2>2. \A t \in Dialog, k \in Chunk :
          /\ ledger[t].carried[k] \in Nat /\ ledger'[t].carried[k] \in Nat
          /\ ledger'[t].carried[k] >= ledger[t].carried[k]
    BY <1>1, <1>4, GivenCarries
  <2>3. \A e \in Encoder : encoder'[e] # NoEncode =>
          \A c \in encoder'[e].repeated : ledger'[encoder'[e].dialog].carried[c] > 1
    BY <1>1, <1>4, <2>2, RepeatedKept
  <2> QED
    BY <2>1, <2>3 DEF CarriedBefore
<1>8. ASSUME NEW t \in Dialog
      PROVE  Balanced(t)' /\ Reserved(t)'
  <2>1. Balanced(t) /\ Reserved(t)
    BY DEF ChunkInv
  <2>2. Balanced(t)'
    BY <1>1, <1>2, <1>3, <1>4, <2>1, EnteredBalanced
  <2>3. ASSUME MaxRefPct = 100
        PROVE  /\ IsFiniteSet(Pending(encoder', t))
               /\ ledger'[t].referred + Cardinality(Pending(encoder', t)) <= ledger'[t].given
    <3>1. /\ IsFiniteSet(Pending(encoder, t))
          /\ ledger[t].referred + Cardinality(Pending(encoder, t)) <= ledger[t].given
      BY <2>1, <2>3 DEF Reserved
    <3>2. Cardinality(Pending(encoder, t)) \in Nat
      BY <3>1, FS_CardinalityType
    <3>3. ledger'[t].referred = ledger[t].referred /\ ledger'[t].given >= ledger[t].given
          /\ ledger'[t].given \in Nat
      <4>1. ledger[t].given \in Nat /\ TextBytes(o.fast) \in Nat
        BY <1>1, LedgerTypes, OutputTypes
      <4>2. CASE t = s
        BY <1>1, <1>4, <4>1, <4>2, GivenFacts
      <4>3. CASE t # s
        BY <1>1, <1>4, <4>1, <4>3, GivenFacts
      <4> QED
        BY <4>2, <4>3
    <3>4. ledger[t].referred \in Nat /\ ledger[t].given \in Nat
      BY <1>1, LedgerTypes
    <3> QED
      BY <1>4, <3>1, <3>2, <3>3, <3>4
  <2> QED
    BY <2>2, <2>3 DEF Reserved
<1> QED
  BY <1>5, <1>6, <1>7, <1>8 DEF ChunkInv

(* What may be replaced was in an earlier output: the store knew it.       *)
LEMMA RepeatedCarried ==
  ASSUME ChunkTypeOK, StoreAt(dialogs, calls), CarriedBefore, NEW s \in Dialog, NEW o \in Output,
         NEW cutoff \in Nat, Given(s, o)
  PROVE  LET known == Unexpired(dialogs, cutoff)
             old == IF known[s] = NoDialog THEN NewDialog ELSE known[s]
         IN  /\ old \in DialogState
             /\ Repeated(old, o) \subseteq Chunk
             /\ \A c \in Repeated(old, o) : ledger'[s].carried[c] > 1
<1> DEFINE known == Unexpired(dialogs, cutoff)
           old == IF known[s] = NoDialog THEN NewDialog ELSE known[s]
<1>1. dialogs \in [Dialog -> {NoDialog} \cup DialogState]
  BY DEF StoreAt
<1>2. dialogs[s] # NoDialog => s \in Live(dialogs) /\ Ordered(dialogs[s])
  BY DEF StoreAt, Live
<1>3. known[s] # NoDialog =>
        /\ s \in Live(dialogs) /\ known[s] \in DialogState
        /\ Chunks(known[s].seen) \subseteq Chunks(dialogs[s].seen)
  BY <1>1, <1>2, UnexpiredFacts
<1> HIDE DEF known
<1>4. old \in DialogState
  BY <1>3, NewDialogFacts
<1>5. Repeated(old, o) \subseteq Range(o.fast) \cup Range(o.line)
  BY DEF Repeated
<1>6. Repeated(old, o) \subseteq Chunk
  BY <1>5, OutputTypes
<1>7. ASSUME NEW c \in Repeated(old, o)
      PROVE  ledger'[s].carried[c] > 1
  <2>1. c \in Chunks(old.seen) /\ c \in Range(o.fast) \cup Range(o.line) /\ c \in Chunk
    BY <1>6 DEF Repeated
  <2>2. s \in Live(dialogs) /\ c \in Chunks(dialogs[s].seen)
    BY <1>3, <2>1, NewDialogFacts
  <2>3. ledger[s].carried[c] > 0
    BY <2>2 DEF CarriedBefore
  <2>4. /\ ledger'[s].carried[c] > ledger[s].carried[c]
        /\ ledger'[s].carried[c] \in Nat /\ ledger[s].carried[c] \in Nat
    BY <2>1, GivenCarries
  <2> QED
    BY <2>3, <2>4
<1> QED
  BY <1>4, <1>6, <1>7 DEF known

LEMMA BeginEncodeStep ==
  ASSUME ChunkInv, NEW e \in Encoder, NEW s \in Dialog, NEW o \in Output, BeginEncode(e, s, o)
  PROVE  ChunkInv'
<1>1. ChunkTypeOK /\ StoreAt(dialogs, calls) /\ CarriedBefore
  BY DEF ChunkInv
<1> DEFINE known(cutoff) == Unexpired(dialogs, cutoff)
           old(cutoff) == IF known(cutoff)[s] = NoDialog THEN NewDialog ELSE known(cutoff)[s]
           limit(cutoff) == Min({Budget(old(cutoff), TextBytes(o.fast)),
                                 (TextBytes(o.fast) * OutputPct) \div 100})
           new(cutoff) == [dialog |-> s, output |-> o, repeated |-> Repeated(old(cutoff), o),
                           limit |-> limit(cutoff)]
<1>2. PICK cutoff \in 0..(calls + 1) :
        /\ dialogs' = Entered(known(cutoff), s, o)
        /\ encoder' \in {encoder, [encoder EXCEPT ![e] = new(cutoff)]}
  BY DEF BeginEncode
<1>3. calls \in Nat /\ cutoff \in Nat
  BY <1>1, ClockTypes
<1>4. Given(s, o) /\ calls < MaxOutputs /\ calls' = calls + 1 /\ encoder[e] = NoEncode
  BY DEF BeginEncode
<1>5. /\ old(cutoff) \in DialogState
      /\ Repeated(old(cutoff), o) \subseteq Chunk
      /\ \A c \in Repeated(old(cutoff), o) : ledger'[s].carried[c] > 1
  BY <1>1, <1>3, <1>4, RepeatedCarried
<1>6. dialogs' = Entered(Unexpired(dialogs, cutoff), s, o)
  BY <1>2
<1> HIDE DEF known, old
<1>7. limit(cutoff) \in Nat /\ limit(cutoff) <= TextBytes(o.fast)
  BY <1>5, LimitFacts
<1> HIDE DEF limit
<1>8. /\ new(cutoff) \in Encode /\ new(cutoff).dialog = s /\ new(cutoff).limit = limit(cutoff)
      /\ new(cutoff).repeated = Repeated(old(cutoff), o)
  BY <1>5, <1>7 DEF Encode
<1> HIDE DEF new
<1>9. StoreAt(dialogs', calls')
  BY <1>1, <1>3, <1>4, <1>6, EnteredFacts
<1>10. encoder \in [Encoder -> {NoEncode} \cup Encode]
  BY <1>1 DEF ChunkTypeOK
<1>11. ChunkTypeOK'
  <2>1. ledger' \in [Dialog -> Ledger]
    BY <1>1, <1>4, GivenFacts
  <2>2. calls' \in 0..MaxOutputs
    BY <1>1, <1>4, ClockTypes
  <2>3. dialogs' \in [Dialog -> {NoDialog} \cup DialogState]
    BY <1>9 DEF StoreAt
  <2>4. encoder' \in [Encoder -> {NoEncode} \cup Encode]
    BY <1>2, <1>8, <1>10
  <2> QED
    BY <2>1, <2>2, <2>3, <2>4 DEF ChunkTypeOK
<1>12. CarriedBefore'
  <2>1. /\ \A t \in Live(dialogs') : \A c \in Chunks(dialogs'[t].seen) : ledger'[t].carried[c] > 0
        /\ RefersBack'
    BY <1>1, <1>3, <1>4, <1>6, EnteredCarried
  <2>2. \A t \in Dialog, k \in Chunk :
          /\ ledger[t].carried[k] \in Nat /\ ledger'[t].carried[k] \in Nat
          /\ ledger'[t].carried[k] >= ledger[t].carried[k]
    BY <1>1, <1>4, GivenCarries
  <2>3. ASSUME NEW d \in Encoder, encoder'[d] # NoEncode, NEW c \in encoder'[d].repeated
        PROVE  ledger'[encoder'[d].dialog].carried[c] > 1
    <3>1. CASE encoder'[d] = encoder[d]
      BY <1>1, <2>2, <2>3, <3>1, RepeatedKept
    <3>2. CASE encoder'[d] = new(cutoff)
      BY <1>5, <1>8, <2>3, <3>2
    <3>3. encoder'[d] \in {encoder[d], new(cutoff)}
      BY <1>2, <1>10
    <3> QED
      BY <3>1, <3>2, <3>3
  <2> QED
    BY <2>1, <2>3 DEF CarriedBefore
<1>13. ASSUME NEW t \in Dialog
       PROVE  Balanced(t)' /\ Reserved(t)'
  <2>1. Balanced(t) /\ Reserved(t)
    BY DEF ChunkInv
  <2>2. Balanced(t)'
    BY <1>1, <1>3, <1>4, <1>6, <2>1, EnteredBalanced
  <2>3. ASSUME MaxRefPct = 100
        PROVE  /\ IsFiniteSet(Pending(encoder', t))
               /\ ledger'[t].referred + Cardinality(Pending(encoder', t)) <= ledger'[t].given
    <3>1. /\ IsFiniteSet(Pending(encoder, t))
          /\ ledger[t].referred + Cardinality(Pending(encoder, t)) <= ledger[t].given
      BY <2>1, <2>3 DEF Reserved
    <3>2. Cardinality(Pending(encoder, t)) \in Nat
      BY <3>1, FS_CardinalityType
    <3>3. /\ IsFiniteSet(Pending(encoder', t))
          /\ Cardinality(Pending(encoder', t))
               <= Cardinality(Pending(encoder, t)) + (IF t = s THEN limit(cutoff) ELSE 0)
      <4>1. CASE encoder' = encoder
        BY <1>7, <3>1, <3>2, <4>1
      <4>2. CASE encoder' = [encoder EXCEPT ![e] = new(cutoff)]
        BY <1>4, <1>8, <1>10, <3>1, <4>2, PendingMore
      <4> QED
        BY <1>2, <4>1, <4>2
    <3>4. Cardinality(Pending(encoder', t)) \in Nat
      BY <3>3, FS_CardinalityType
    <3>5. ledger[t].given \in Nat /\ ledger[t].referred \in Nat /\ TextBytes(o.fast) \in Nat
      BY <1>1, LedgerTypes, OutputTypes
    <3>6. CASE t = s
      <4>1. /\ ledger'[t].referred = ledger[t].referred
            /\ ledger'[t].given = ledger[t].given + TextBytes(o.fast)
        BY <1>1, <1>4, <3>6, GivenFacts
      <4>2. Cardinality(Pending(encoder', t)) <= Cardinality(Pending(encoder, t)) + limit(cutoff)
        BY <3>3, <3>6
      <4> QED
        BY <1>7, <3>1, <3>2, <3>3, <3>4, <3>5, <4>1, <4>2
    <3>7. CASE t # s
      <4>1. ledger'[t] = ledger[t]
        BY <1>1, <1>4, <3>7, GivenFacts
      <4>2. Cardinality(Pending(encoder', t)) <= Cardinality(Pending(encoder, t)) + 0
        BY <3>3, <3>7
      <4> QED
        BY <3>1, <3>2, <3>3, <3>4, <3>5, <4>1, <4>2
    <3> QED
      BY <3>6, <3>7
  <2> QED
    BY <2>2, <2>3 DEF Reserved
<1> QED
  BY <1>9, <1>11, <1>12, <1>13 DEF ChunkInv

(* What an Encode refers to was known, and is within its limit.            *)
LEMMA ReferredFacts ==
  ASSUME NEW o \in Output, NEW repeated \in SUBSET Chunk, NEW limit \in Nat,
         NEW refs \in SUBSET Selected(BestPlan(o, repeated, limit), repeated, limit)
  PROVE  LET plan == BestPlan(o, repeated, limit)
         IN  /\ SizeAt(plan, refs) \in Nat /\ SizeAt(plan, refs) <= limit
             /\ {plan[i] : i \in refs} \subseteq repeated
<1> DEFINE plan == BestPlan(o, repeated, limit)
           selected == Selected(plan, repeated, limit)
<1>1. plan \in Seq(Chunk)
  BY OutputTypes DEF BestPlan
<1> HIDE DEF plan
<1>2. /\ selected \in SUBSET DOMAIN plan /\ \A i \in selected : plan[i] \in repeated
      /\ SizeAt(plan, selected) <= limit
  BY <1>1, SelectedFacts
<1>3. refs \in SUBSET selected
  BY DEF plan
<1> HIDE DEF selected
<1>4. SizeAt(plan, refs) <= SizeAt(plan, selected)
  BY <1>1, <1>2, <1>3, SizeMonotone
<1>5. SizeAt(plan, refs) \in Nat /\ SizeAt(plan, selected) \in Nat
  BY <1>1, <1>2, <1>3, SizeFacts
<1>6. SizeAt(plan, refs) <= limit
  BY <1>2, <1>4, <1>5
<1>7. {plan[i] : i \in refs} \subseteq repeated
  BY <1>2, <1>3
<1> QED
  BY <1>5, <1>6, <1>7 DEF plan

(* An Encode that passes its output in full.                               *)
LEMMA PassedStep ==
  ASSUME ChunkInv, NEW e \in Encoder, encoder[e] # NoEncode,
         encoder' = [encoder EXCEPT ![e] = NoEncode], UNCHANGED <<dialogs, ledger, calls>>
  PROVE  ChunkInv'
<1>1. ChunkTypeOK /\ StoreAt(dialogs, calls) /\ CarriedBefore
  BY DEF ChunkInv
<1>2. encoder \in [Encoder -> {NoEncode} \cup Encode]
  BY <1>1 DEF ChunkTypeOK
<1>3. ChunkTypeOK' /\ StoreAt(dialogs', calls')
  BY <1>1, <1>2 DEF ChunkTypeOK
<1>4. \A d \in Encoder : encoder'[d] # NoEncode => encoder'[d] = encoder[d]
  BY <1>2
<1>5. CarriedBefore'
  BY <1>1, <1>4 DEF CarriedBefore, RefersBack
<1>6. ASSUME NEW t \in Dialog
      PROVE  Balanced(t)' /\ Reserved(t)'
  <2>1. Balanced(t)'
    BY DEF ChunkInv, Balanced, Spent
  <2>2. ASSUME MaxRefPct = 100
        PROVE  /\ IsFiniteSet(Pending(encoder', t))
               /\ ledger'[t].referred + Cardinality(Pending(encoder', t)) <= ledger'[t].given
    <3>1. /\ IsFiniteSet(Pending(encoder, t))
          /\ ledger[t].referred + Cardinality(Pending(encoder, t)) <= ledger[t].given
      BY <2>2 DEF ChunkInv, Reserved
    <3>2. /\ IsFiniteSet(Pending(encoder', t))
          /\ Cardinality(Pending(encoder', t)) + (IF t = encoder[e].dialog THEN encoder[e].limit ELSE 0)
               <= Cardinality(Pending(encoder, t))
      BY <1>2, <3>1, PendingLess
    <3>3. Cardinality(Pending(encoder, t)) \in Nat /\ Cardinality(Pending(encoder', t)) \in Nat
      BY <3>1, <3>2, FS_CardinalityType
    <3>4. encoder[e].limit \in Nat /\ ledger[t].referred \in Nat /\ ledger[t].given \in Nat
      BY <1>1, <1>2, EncodeTypes, LedgerTypes
    <3> QED
      BY <3>1, <3>2, <3>3, <3>4
  <2> QED
    BY <2>1, <2>2 DEF Reserved
<1> QED
  BY <1>3, <1>5, <1>6 DEF ChunkInv

(* What the store records of n bytes that were replaced.                   *)
SpentFrom(s, n) ==
  /\ dialogs' \in [Dialog -> {NoDialog} \cup DialogState]
  /\ \A t \in Dialog \ {s} : dialogs'[t] = dialogs[t]
  /\ dialogs[s] = NoDialog => dialogs'[s] = NoDialog
  /\ dialogs[s] # NoDialog =>
       /\ dialogs'[s].refBytes = dialogs[s].refBytes + n
       /\ dialogs'[s].seen = dialogs[s].seen /\ dialogs'[s].seq = dialogs[s].seq
       /\ dialogs'[s].lastSeen = dialogs[s].lastSeen
       /\ dialogs'[s].inBytes = dialogs[s].inBytes
  /\ Live(dialogs') \subseteq Live(dialogs)

LEMMA SpentStore ==
  ASSUME ChunkTypeOK, StoreAt(dialogs, calls), NEW s \in Dialog, NEW n \in Nat,
         dialogs' = IF dialogs[s] = NoDialog THEN dialogs
                    ELSE [dialogs EXCEPT ![s].refBytes = @ + n]
  PROVE  SpentFrom(s, n)
<1> USE DEF SpentFrom
<1>1. dialogs \in [Dialog -> {NoDialog} \cup DialogState]
  BY DEF ChunkTypeOK
<1>2. CASE dialogs[s] = NoDialog
  BY <1>1, <1>2
<1>3. CASE dialogs[s] # NoDialog
  <2> DEFINE new == [dialogs[s] EXCEPT !.refBytes = dialogs[s].refBytes + n]
  <2>1. dialogs[s] \in DialogState
    BY <1>1, <1>3
  <2>2. dialogs[s].refBytes + n \in Nat
    BY <2>1, DialogTypes
  <2>3. /\ new \in DialogState /\ new.refBytes = dialogs[s].refBytes + n
        /\ new.seen = dialogs[s].seen /\ new.seq = dialogs[s].seq
        /\ new.lastSeen = dialogs[s].lastSeen /\ new.inBytes = dialogs[s].inBytes
    BY <2>1, <2>2 DEF DialogState
  <2>4. dialogs' = [dialogs EXCEPT ![s] = new]
    BY <1>3
  <2> HIDE DEF new
  <2>5. dialogs' \in [Dialog -> {NoDialog} \cup DialogState]
    BY <1>1, <2>3, <2>4
  <2>6. dialogs'[s] = new /\ \A t \in Dialog \ {s} : dialogs'[t] = dialogs[t]
    BY <1>1, <2>4
  <2>7. Live(dialogs') \subseteq Live(dialogs)
    BY <1>3, <2>6 DEF Live
  <2> QED
    BY <1>3, <2>3, <2>5, <2>6, <2>7
<1> QED
  BY <1>2, <1>3

(* What the history records of them.                                       *)
Referred(s, n, lost, names) ==
  /\ ledger' \in [Dialog -> Ledger]
  /\ \A t \in Dialog \ {s} : ledger'[t] = ledger[t]
  /\ ledger'[s].given = ledger[s].given
  /\ ledger'[s].referred = ledger[s].referred + n
  /\ ledger'[s].forgotten = ledger[s].forgotten + lost
  /\ ledger'[s].named = ledger[s].named \cup names
  /\ \A t \in Dialog : ledger'[t].carried = ledger[t].carried

LEMMA SpentLedger ==
  ASSUME ChunkTypeOK, NEW s \in Dialog, NEW n \in Nat, NEW names \in SUBSET Chunk,
         NEW lost \in Nat,
         ledger' = [ledger EXCEPT ![s].referred = @ + n, ![s].forgotten = @ + lost,
                                  ![s].named = @ \cup names]
  PROVE  Referred(s, n, lost, names)
<1> DEFINE referred == ledger[s].referred + n
           forgotten == ledger[s].forgotten + lost
           named == ledger[s].named \cup names
           new == [ledger[s] EXCEPT !.referred = referred, !.forgotten = forgotten, !.named = named]
<1>1. ledger \in [Dialog -> Ledger] /\ ledger[s] \in Ledger
  BY DEF ChunkTypeOK
<1>2. ledger' = [ledger EXCEPT ![s] = new]
  OBVIOUS
<1>3. referred \in Nat /\ forgotten \in Nat /\ named \subseteq Chunk
  BY LedgerTypes
<1> HIDE DEF referred, forgotten, named
<1>4. /\ new \in Ledger /\ new.referred = referred /\ new.forgotten = forgotten
      /\ new.named = named /\ new.given = ledger[s].given /\ new.carried = ledger[s].carried
  BY <1>1, <1>3 DEF Ledger
<1> HIDE DEF new
<1>5. ledger' \in [Dialog -> Ledger]
  BY <1>1, <1>2, <1>4
<1>6. ledger'[s] = new /\ \A t \in Dialog \ {s} : ledger'[t] = ledger[t]
  BY <1>1, <1>2
<1> QED
  BY <1>4, <1>5, <1>6 DEF referred, forgotten, named, Referred

(* What recordReferenceBudget accepts is in the budget.                    *)
LEMMA MaySpendFacts ==
  ASSUME NEW d \in DialogState, NEW n \in Nat, MaxRefPct < 100, MaySpend(d, n)
  PROVE  InBudget(d.refBytes + n, d.inBytes)
<1>1. MaxRefPct \in Nat /\ d.inBytes \in Nat
  BY DialogTypes, ChunkAssumption
<1>2. ~(MaxRefPct >= 100)
  BY <1>1
<1>3. (d.refBytes + n) * 100 <= d.inBytes * MaxRefPct
  BY <1>2 DEF MaySpend
<1>4. d.inBytes * MaxRefPct = MaxRefPct * d.inBytes
  BY <1>1
<1> QED
  BY <1>3, <1>4 DEF InBudget

(* An Encode that replaces n bytes, which the session may spend.           *)
LEMMA SpentStep ==
  ASSUME ChunkInv, NEW e \in Encoder, encoder[e] # NoEncode,
         encoder' = [encoder EXCEPT ![e] = NoEncode], calls' = calls,
         NEW s \in Dialog, s = encoder[e].dialog,
         NEW n \in Nat, n <= encoder[e].limit,
         NEW names \in SUBSET encoder[e].repeated,
         NEW lost \in Nat, lost = IF dialogs[s] = NoDialog THEN n ELSE 0,
         dialogs[s] = NoDialog \/ MaySpend(dialogs[s], n),
         SpentFrom(s, n), Referred(s, n, lost, names)
  PROVE  ChunkInv'
<1>1. ChunkTypeOK /\ StoreAt(dialogs, calls) /\ CarriedBefore
  BY DEF ChunkInv
<1>2. encoder \in [Encoder -> {NoEncode} \cup Encode]
  BY <1>1 DEF ChunkTypeOK
<1>3. encoder[e].limit \in Nat /\ names \subseteq Chunk
  BY <1>2, EncodeTypes
<1>4. /\ dialogs' \in [Dialog -> {NoDialog} \cup DialogState]
      /\ \A t \in Dialog \ {s} : dialogs'[t] = dialogs[t]
      /\ dialogs[s] = NoDialog => dialogs'[s] = NoDialog
      /\ dialogs[s] # NoDialog =>
           /\ dialogs'[s].refBytes = dialogs[s].refBytes + n
           /\ dialogs'[s].seen = dialogs[s].seen /\ dialogs'[s].seq = dialogs[s].seq
           /\ dialogs'[s].lastSeen = dialogs[s].lastSeen
           /\ dialogs'[s].inBytes = dialogs[s].inBytes
      /\ Live(dialogs') \subseteq Live(dialogs)
  BY Zenon DEF SpentFrom
<1>5. /\ ledger' \in [Dialog -> Ledger]
      /\ \A t \in Dialog \ {s} : ledger'[t] = ledger[t]
      /\ ledger'[s].given = ledger[s].given
      /\ ledger'[s].referred = ledger[s].referred + n
      /\ ledger'[s].forgotten = ledger[s].forgotten + lost
      /\ ledger'[s].named = ledger[s].named \cup names
      /\ \A t \in Dialog : ledger'[t].carried = ledger[t].carried
  BY Zenon DEF Referred
<1>6. ChunkTypeOK'
  BY <1>1, <1>2, <1>4, <1>5 DEF ChunkTypeOK
<1>7. \A t \in Live(dialogs') :
        /\ t \in Live(dialogs)
        /\ dialogs'[t].seen = dialogs[t].seen /\ dialogs'[t].seq = dialogs[t].seq
        /\ dialogs'[t].lastSeen = dialogs[t].lastSeen
  BY <1>4 DEF Live
<1>8. StoreAt(dialogs', calls')
  <2>1. IsFiniteSet(Live(dialogs')) /\ Cardinality(Live(dialogs')) <= MaxDialogs
    <3>1. IsFiniteSet(Live(dialogs)) /\ Cardinality(Live(dialogs)) <= MaxDialogs
      BY <1>1 DEF StoreAt
    <3>2. /\ IsFiniteSet(Live(dialogs'))
          /\ Cardinality(Live(dialogs')) <= Cardinality(Live(dialogs))
      BY <1>4, <3>1, FS_Subset
    <3>3. Cardinality(Live(dialogs)) \in Nat /\ Cardinality(Live(dialogs')) \in Nat
      BY <3>1, <3>2, FS_CardinalityType
    <3> QED
      BY <3>1, <3>2, <3>3, ChunkAssumption
  <2>2. ASSUME NEW t \in Live(dialogs')
        PROVE  /\ dialogs'[t].lastSeen <= calls' /\ Ordered(dialogs'[t])
               /\ Cardinality(Chunks(dialogs'[t].seen)) <= MaxChunks
    BY <1>1, <1>7 DEF StoreAt, Ordered
  <2>3. \A t, r \in Live(dialogs') : dialogs'[t].lastSeen = dialogs'[r].lastSeen => t = r
    BY <1>1, <1>7 DEF StoreAt
  <2> QED
    BY <1>4, <2>1, <2>2, <2>3 DEF StoreAt
<1>9. \A d \in Encoder : encoder'[d] # NoEncode => encoder'[d] = encoder[d]
  BY <1>2
<1>10. CarriedBefore'
  <2>1. \A t \in Live(dialogs') : \A c \in Chunks(dialogs'[t].seen) : ledger'[t].carried[c] > 0
    <3>1. \A t \in Live(dialogs') : t \in Dialog
      BY DEF Live
    <3> QED
      BY <1>1, <1>5, <1>7, <3>1 DEF CarriedBefore
  <2>2. ASSUME NEW d \in Encoder, encoder'[d] # NoEncode, NEW c \in encoder'[d].repeated
        PROVE  ledger'[encoder'[d].dialog].carried[c] > 1
    <3>1. encoder'[d] = encoder[d] /\ encoder[d] # NoEncode
      BY <1>9, <2>2
    <3>2. encoder[d].dialog \in Dialog
      BY <1>2, <3>1, EncodeTypes
    <3>3. ledger[encoder[d].dialog].carried[c] > 1
      BY <1>1, <2>2, <3>1 DEF CarriedBefore
    <3> QED
      BY <1>5, <3>1, <3>2, <3>3
  <2>3. ASSUME NEW t \in Dialog, NEW c \in ledger'[t].named
        PROVE  ledger'[t].carried[c] > 1
    <3>1. CASE c \in ledger[t].named
      <4>1. ledger[t].carried[c] > 1
        BY <1>1, <3>1 DEF CarriedBefore, RefersBack
      <4> QED
        BY <1>5, <4>1
    <3>2. CASE t = s /\ c \in names
      <4>1. ledger[s].carried[c] > 1
        BY <1>1, <3>2 DEF CarriedBefore
      <4> QED
        BY <1>5, <3>2, <4>1
    <3> QED
      BY <1>5, <2>3, <3>1, <3>2
  <2> QED
    BY <2>1, <2>2, <2>3 DEF CarriedBefore, RefersBack
<1>11. ASSUME NEW t \in Dialog, MaxRefPct = 100
       PROVE  /\ IsFiniteSet(Pending(encoder', t))
              /\ ledger'[t].referred + Cardinality(Pending(encoder', t)) <= ledger'[t].given
  <2>1. /\ IsFiniteSet(Pending(encoder, t))
        /\ ledger[t].referred + Cardinality(Pending(encoder, t)) <= ledger[t].given
    BY <1>11 DEF ChunkInv, Reserved
  <2>2. /\ IsFiniteSet(Pending(encoder', t))
        /\ Cardinality(Pending(encoder', t)) + (IF t = encoder[e].dialog THEN encoder[e].limit ELSE 0)
             <= Cardinality(Pending(encoder, t))
    BY <1>2, <2>1, PendingLess
  <2>3. Cardinality(Pending(encoder, t)) \in Nat /\ Cardinality(Pending(encoder', t)) \in Nat
    BY <2>1, <2>2, FS_CardinalityType
  <2>4. ledger[t].referred \in Nat /\ ledger[t].given \in Nat
    BY <1>1, LedgerTypes
  <2>5. CASE t = s
    <3>1. Cardinality(Pending(encoder', t)) + encoder[e].limit <= Cardinality(Pending(encoder, t))
      BY <2>2, <2>5
    <3>2. ledger'[t].referred = ledger[t].referred + n /\ ledger'[t].given = ledger[t].given
      BY <1>5, <2>5
    <3> QED
      BY <1>3, <2>1, <2>2, <2>3, <2>4, <3>1, <3>2
  <2>6. CASE t # s
    <3>1. Cardinality(Pending(encoder', t)) + 0 <= Cardinality(Pending(encoder, t))
      BY <2>2, <2>6
    <3>2. ledger'[t] = ledger[t]
      BY <1>5, <2>6
    <3> QED
      BY <2>1, <2>2, <2>3, <2>4, <3>1, <3>2
  <2> QED
    BY <2>5, <2>6
<1>12. Balanced(s)'
  <2>1. /\ ledger[s].forgotten <= ledger[s].referred
        /\ InBudget(Spent(s), ledger[s].given)
        /\ s \in Live(dialogs) =>
             /\ dialogs[s].refBytes <= Spent(s)
             /\ MaxRefPct < 100 =>
                  EarlierInBudget(Spent(s), dialogs[s].refBytes, ledger[s].given, dialogs[s].inBytes)
    BY DEF ChunkInv, Balanced
  <2>2. /\ ledger[s].given \in Nat /\ ledger[s].referred \in Nat /\ ledger[s].forgotten \in Nat
        /\ Spent(s) \in Nat
    BY <1>1, LedgerTypes, SpentType DEF ChunkInv
  <2>3. CASE dialogs[s] = NoDialog
    <3>1. s \notin Live(dialogs') /\ lost = n
      BY <1>4, <2>3 DEF Live
    <3>2. ledger'[s].forgotten <= ledger'[s].referred /\ Spent(s)' = Spent(s)
      <4> QED
        BY <1>5, <2>1, <2>2, <3>1 DEF Spent
    <3> QED
      BY <1>5, <2>1, <3>1, <3>2 DEF Balanced, InBudget
  <2>4. CASE dialogs[s] # NoDialog
    <3>1. s \in Live(dialogs) /\ lost = 0 /\ dialogs[s] \in DialogState
      BY <1>1, <2>4 DEF Live, ChunkTypeOK
    <3>2. dialogs[s].refBytes \in Nat /\ dialogs[s].inBytes \in Nat
      BY <3>1, DialogTypes
    <3>3. /\ ledger'[s].forgotten <= ledger'[s].referred
          /\ Spent(s)' = Spent(s) + n
      <4> QED
        BY <1>5, <2>1, <2>2, <3>1 DEF Spent
    <3>4. dialogs'[s].refBytes = dialogs[s].refBytes + n /\ dialogs'[s].inBytes = dialogs[s].inBytes
      BY <1>4, <2>4
    <3>5. dialogs'[s].refBytes <= Spent(s)'
      BY <2>1, <2>2, <3>1, <3>2, <3>3, <3>4
    <3>6. ASSUME MaxRefPct < 100
          PROVE  /\ InBudget(Spent(s) + n, ledger[s].given)
                 /\ InBudget(dialogs[s].refBytes + n, dialogs[s].inBytes)
                 /\ EarlierInBudget(Spent(s) + n, dialogs[s].refBytes + n, ledger[s].given,
                                    dialogs[s].inBytes)
      <4>1. MaySpend(dialogs[s], n)
        BY <2>4
      <4>2. InBudget(dialogs[s].refBytes + n, dialogs[s].inBytes)
        BY <3>1, <3>6, <4>1, MaySpendFacts
      <4>3. EarlierInBudget(Spent(s), dialogs[s].refBytes, ledger[s].given, dialogs[s].inBytes)
        BY <2>1, <3>1, <3>6
      <4> DEFINE spent == Spent(s)
                 ref == dialogs[s].refBytes
                 in == dialogs[s].inBytes
                 given == ledger[s].given
      <4>4. spent \in Nat /\ ref \in Nat /\ in \in Nat /\ given \in Nat
        BY <2>2, <3>2
      <4>5. EarlierInBudget(spent, ref, given, in) /\ InBudget(ref + n, in)
        BY <4>2, <4>3
      <4>6. EarlierInBudget(spent + n, ref + n, given, in) /\ InBudget(spent + n, given)
        <5> HIDE DEF spent, ref, in, given
        <5> QED
          BY <4>4, <4>5, EarlierSpends
      <4> QED
        BY <4>2, <4>6
    <3>7. ASSUME MaxRefPct = 100
          PROVE  InBudget(Spent(s) + n, ledger[s].given)
      <4>1. /\ IsFiniteSet(Pending(encoder', s))
            /\ ledger'[s].referred + Cardinality(Pending(encoder', s)) <= ledger'[s].given
        BY <1>11, <3>7
      <4>2. Cardinality(Pending(encoder', s)) \in Nat
        BY <4>1, FS_CardinalityType
      <4>3. ledger[s].referred + n <= ledger[s].given
        BY <1>5, <2>2, <4>1, <4>2
      <4>4. Spent(s) + n <= ledger[s].given
        BY <2>1, <2>2, <4>3 DEF Spent
      <4>5. (Spent(s) + n) * 100 <= 100 * ledger[s].given
        BY <2>2, <4>4
      <4> QED
        BY <3>7, <4>5 DEF InBudget
    <3>8. InBudget(Spent(s) + n, ledger[s].given)
      BY <3>6, <3>7, ChunkAssumption
    <3> QED
      BY <1>5, <3>3, <3>4, <3>5, <3>6, <3>8 DEF Balanced, InBudget, EarlierInBudget
  <2> QED
    BY <2>3, <2>4
<1>13. ASSUME NEW t \in Dialog
       PROVE  Balanced(t)' /\ Reserved(t)'
  <2>1. CASE t # s
    <3>1. dialogs'[t] = dialogs[t] /\ ledger'[t] = ledger[t]
      BY <1>4, <1>5, <2>1
    <3>2. t \in Live(dialogs') <=> t \in Live(dialogs)
      BY <3>1 DEF Live
    <3>3. Balanced(t)
      BY DEF ChunkInv
    <3> QED
      BY <1>11, <3>1, <3>2, <3>3 DEF Balanced, Reserved, Spent, InBudget, EarlierInBudget
  <2>2. CASE t = s
    BY <1>11, <1>12, <2>2 DEF Reserved
  <2> QED
    BY <2>1, <2>2
<1> QED
  BY <1>6, <1>8, <1>10, <1>13 DEF ChunkInv

LEMMA FinishEncodeStep ==
  ASSUME ChunkInv, NEW e \in Encoder, FinishEncode(e)
  PROVE  ChunkInv'
<1> DEFINE s == encoder[e].dialog
           repeated == encoder[e].repeated
           limit == encoder[e].limit
           plan == BestPlan(encoder[e].output, repeated, limit)
<1>1. encoder[e] # NoEncode /\ encoder' = [encoder EXCEPT ![e] = NoEncode] /\ calls' = calls
  BY DEF FinishEncode
<1>2. /\ s \in Dialog /\ encoder[e].output \in Output /\ repeated \subseteq Chunk /\ limit \in Nat
  <2>1. encoder \in [Encoder -> {NoEncode} \cup Encode]
    BY Zenon DEF ChunkInv, ChunkTypeOK
  <2>2. encoder[e] # NoEncode
    BY <1>1
  <2> QED
    BY <2>1, <2>2, EncodeTypes
<1>3. PICK refs \in SUBSET Selected(plan, repeated, limit) :
        \/ /\ dialogs[s] = NoDialog \/ MaySpend(dialogs[s], SizeAt(plan, refs))
           /\ dialogs' = IF dialogs[s] = NoDialog THEN dialogs
                         ELSE [dialogs EXCEPT ![s].refBytes = @ + SizeAt(plan, refs)]
           /\ ledger' = [ledger EXCEPT
                ![s].referred = @ + SizeAt(plan, refs),
                ![s].forgotten = @ + (IF dialogs[s] = NoDialog THEN SizeAt(plan, refs) ELSE 0),
                ![s].named = @ \cup {plan[i] : i \in refs}]
        \/ UNCHANGED <<dialogs, ledger>>
  BY Zenon DEF FinishEncode
<1> DEFINE n == SizeAt(plan, refs)
           names == {plan[i] : i \in refs}
<1>4. n \in Nat /\ n <= limit /\ names \subseteq repeated
  BY <1>2, ReferredFacts
<1>5. CASE UNCHANGED <<dialogs, ledger>>
  BY <1>1, <1>5, PassedStep
<1> DEFINE lost == IF dialogs[s] = NoDialog THEN n ELSE 0
<1>6. CASE /\ dialogs[s] = NoDialog \/ MaySpend(dialogs[s], n)
           /\ dialogs' = IF dialogs[s] = NoDialog THEN dialogs
                         ELSE [dialogs EXCEPT ![s].refBytes = @ + n]
           /\ ledger' = [ledger EXCEPT ![s].referred = @ + n, ![s].forgotten = @ + lost,
                                       ![s].named = @ \cup names]
  <2> HIDE DEF n, names, plan
  <2>1. ChunkTypeOK /\ StoreAt(dialogs, calls)
    BY DEF ChunkInv
  <2>2. SpentFrom(s, n)
    BY <1>2, <1>4, <1>6, <2>1, SpentStore
  <2>3. names \in SUBSET Chunk /\ lost \in Nat
    <3>1. names \in SUBSET Chunk
      BY <1>2, <1>4
    <3>2. n \in Nat /\ 0 \in Nat
      BY <1>4
    <3> QED
      BY <3>1, <3>2, Zenon
  <2>4. Referred(s, n, lost, names)
    <3> HIDE DEF lost
    <3> QED
      BY <1>2, <1>4, <1>6, <2>1, <2>3, SpentLedger
  <2>5. dialogs[s] = NoDialog \/ MaySpend(dialogs[s], n)
    BY <1>6
  <2>6. lost = IF dialogs[s] = NoDialog THEN n ELSE 0
    OBVIOUS
  <2> HIDE DEF lost
  <2> QED
    BY <1>1, <1>2, <1>4, <2>2, <2>3, <2>4, <2>5, <2>6, SpentStep
<1> QED
  BY <1>3, <1>5, <1>6

LEMMA ChunkQuiet ==
  ASSUME ChunkInv, UNCHANGED chunkVars
  PROVE  ChunkInv'
<1>1. UNCHANGED <<dialogs, encoder, ledger, calls>>
  BY DEF chunkVars
<1>2. ChunkTypeOK'
  BY <1>1 DEF ChunkInv, ChunkTypeOK
<1>3. StoreAt(dialogs', calls')
  BY <1>1 DEF ChunkInv
<1>4. CarriedBefore'
  BY <1>1 DEF ChunkInv, CarriedBefore, RefersBack
<1>5. ASSUME NEW s \in Dialog
      PROVE  Balanced(s)' /\ Reserved(s)'
  <2>1. Balanced(s) /\ Reserved(s)
    BY DEF ChunkInv
  <2> QED
    BY <1>1, <2>1 DEF Balanced, Reserved, Spent
<1> QED
  BY <1>2, <1>3, <1>4, <1>5 DEF ChunkInv

LEMMA ChunkStep == ChunkInv /\ [ChunkNext]_chunkVars => ChunkInv'
<1> SUFFICES ASSUME ChunkInv, [ChunkNext]_chunkVars
             PROVE  ChunkInv'
  OBVIOUS
<1>1. ASSUME NEW s \in Dialog, NEW o \in Output, Observe(s, o)
      PROVE  ChunkInv'
  BY <1>1, ObserveStep
<1>2. ASSUME NEW s \in Dialog, NEW o \in Output, NEW e \in Encoder, BeginEncode(e, s, o)
      PROVE  ChunkInv'
  BY <1>2, BeginEncodeStep
<1>3. ASSUME NEW e \in Encoder, FinishEncode(e)
      PROVE  ChunkInv'
  BY <1>3, FinishEncodeStep
<1>4. CASE UNCHANGED chunkVars
  BY <1>4, ChunkQuiet
<1> QED
  BY <1>1, <1>2, <1>3, <1>4 DEF ChunkNext

LEMMA ChunkAlways == ChunkSpec => []ChunkInv
<1>1. ChunkInit => ChunkInv
  BY ChunkInitial
<1>2. ChunkInv /\ [ChunkNext]_chunkVars => ChunkInv'
  BY ChunkStep
<1> QED
  BY <1>1, <1>2, PTL DEF ChunkSpec

(* The invariant says what the references promise.                         *)
LEMMA ChunkInvHonest == ChunkInv => ReferencesHonest
<1> SUFFICES ASSUME ChunkInv
             PROVE  ReferencesHonest
  OBVIOUS
<1>1. WithinBudget
  <2>1. ASSUME NEW s \in Dialog
        PROVE  /\ (ledger[s].referred - ledger[s].forgotten) * 100 <= MaxRefPct * ledger[s].given
               /\ dialogs[s] # NoDialog =>
                    dialogs[s].refBytes <= ledger[s].referred - ledger[s].forgotten
    <3>1. Balanced(s)
      BY DEF ChunkInv
    <3> QED
      BY <3>1 DEF Balanced, InBudget, Spent, Live
  <2> QED
    BY <2>1 DEF WithinBudget
<1>2. RefersBack
  BY DEF ChunkInv, CarriedBefore
<1>3. StoreBounded
  <2>1. StoreAt(dialogs, calls)
    BY DEF ChunkInv
  <2> QED
    BY <2>1 DEF StoreBounded, StoreAt, Live
<1> QED
  BY <1>1, <1>2, <1>3 DEF ReferencesHonest

(* The variables of the chunk store have their types in every state: what  *)
(* is recorded, pruned and spent (store.go) stays a session's.             *)
THEOREM ChunkTypeCorrect == ChunkSpec => []ChunkTypeOK
<1>1. ChunkInv => ChunkTypeOK
  BY DEF ChunkInv
<1> QED
  BY <1>1, ChunkAlways, PTL

(* References stay honest, whatever outputs come, in whatever order the    *)
(* Encodes of a session hold the lock, whenever the store prunes, for any  *)
(* limits: what was replaced is within the share of the session's bytes    *)
(* (markRepeatedLocked, selectReferenceIndexes, recordReferenceBudget), it *)
(* refers to an earlier output, and the store keeps to its limits.         *)
THEOREM ReferencesAlwaysHonest == ChunkSpec => []ReferencesHonest
<1> QED
  BY ChunkAlways, ChunkInvHonest, PTL
=============================================================================
