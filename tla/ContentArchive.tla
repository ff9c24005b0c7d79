---------------------------- MODULE ContentArchive ----------------------------
(***************************************************************************)
(* The archive of original blocks (src/internal/contentarchive).           *)
(* Goroutines of the daemon and command wrappers share a directory and no  *)
(* lock: per block a payload and a metadata file, and one file of          *)
(* statistics. A file is written by truncating it and then filling it      *)
(* (os.WriteFile). An id is a hash of the content, so a block stands for   *)
(* its id.                                                                 *)
(***************************************************************************)
EXTENDS Naturals, Sequences, FiniteSets, SequencesExt

CONSTANTS
  Block, Archiver,
  NoBlock,
  MaxEntries, MaxBytes,   \* Limits
  Size,        \* per block: the size of its payload
  MaxCalls,    \* bound: calls of Put and GetBlock
  MaxFaults    \* bound: writes that fail and processes that die

ASSUME ArchiveAssumption ==
  /\ MaxEntries \in Nat \ {0} /\ MaxBytes \in Nat \ {0} /\ Size \in [Block -> Nat]
  /\ MaxCalls \in Nat /\ MaxFaults \in Nat
  /\ NoBlock \notin Block

VARIABLES
  file,    \* per file: what it holds
  order,   \* the blocks that have a payload, the oldest first
  archiver, \* per goroutine or process: the call it executes
  past     \* history: what has become of the blocks

archiveVars == <<file, order, archiver, past>>

Payload(b) == <<b, "payload">>
Meta(b) == <<b, "meta">>
Stats == <<NoBlock, "stats">>
ArchiveFile == Block \X {"payload", "meta"} \cup {Stats}

(* "empty": truncated and not yet filled, for good if its writer dies.     *)
(* "garbled": filled twice, and the text of the first was the longer one.  *)
Held == {"none", "empty", "whole", "garbled"}

(* The writes of a Put in their order, and the only one of a Get.          *)
PutWrite == {"payload", "meta", "archived", "evictions", "reconcile"}
Writing == PutWrite \cup {"expanded"}
ArchiverPlace == Writing \cup {"idle", "stats", "list", "sweep", "unlink", "due", "return"}

(* phase: whether the file of the present write has been truncated, and    *)
(* whether it was then removed. doomed: what a sweep has yet to remove.    *)
ArchiverState ==
  [at : ArchiverPlace, block : Block \cup {NoBlock}, phase : {"open", "fill", "lost"},
   doomed : Seq(Block), swept : Nat]
IdleArchiver ==
  [at |-> "idle", block |-> NoBlock, phase |-> "open", doomed |-> <<>>, swept |-> 0]

(* handed: returned to a caller, who refers to it from then on. evicted:   *)
(* removed and not archived again. clash: see Clash. unswept: left behind  *)
(* by a Put that stopped, and not seen by a sweep since.                   *)
Past == [handed : SUBSET Block, evicted : SUBSET Block, clash : SUBSET Block,
         unswept : SUBSET Block, calls : Nat, faults : Nat]

ArchiveTypeOK ==
  /\ file \in [ArchiveFile -> Held]
  /\ order \in Seq(Block)
  /\ archiver \in [Archiver -> ArchiverState]
  /\ past \in Past

ArchiveInit ==
  /\ file = [f \in ArchiveFile |-> IF f = Stats THEN "whole" ELSE "none"]
  /\ order = <<>>
  /\ archiver = [w \in Archiver |-> IdleArchiver]
  /\ past = [handed |-> {}, evicted |-> {}, clash |-> {}, unswept |-> {},
             calls |-> 0, faults |-> 0]

-----------------------------------------------------------------------------
BlockOf(w) == archiver[w].block
ArchiverAt(w, place) == archiver[w].at = place
ArchiverGoes(w, place) == archiver' = [archiver EXCEPT ![w].at = place, ![w].phase = "open"]
CallEnds(w) == archiver' = [archiver EXCEPT ![w] = IdleArchiver]

(* w is between its look-up of b and the end of b's metadata, or between   *)
(* the removals of b's two files.                                          *)
Archiving(w, b) == BlockOf(w) = b /\ archiver[w].at \in {"payload", "meta"}
Removing(w, b) == ArchiverAt(w, "unlink") /\ Head(archiver[w].doomed) = b

(* Two at work on the same block leave a reference without its payload,    *)
(* and nothing that repairs it, in three cases: a sweep and a Put; two     *)
(* Puts, one of which stops while its file is empty; two Puts that fill    *)
(* the metadata at the same time.                                          *)
Clash(b, happens) == IF happens THEN past.clash \cup {b} ELSE past.clash

FileOf(state) ==
  CASE state.at = "payload" -> Payload(state.block)
    [] state.at = "meta"    -> Meta(state.block)
    [] OTHER                -> Stats
TargetFile(w) == FileOf(archiver[w])

(* A mutant: metadata counts when it is merely there.                      *)
ArchivedSomehow(b) == file[Meta(b)] # "none"

(* What Put and Peek find (loadEntry).                                     *)
Archived(b) == file[Meta(b)] = "whole"

Expandable(b) == file[Meta(b)] = "whole" /\ file[Payload(b)] = "whole"
CallsLeft == past.calls < MaxCalls

(* Put of a block whose metadata can be read returns at once.              *)
PutExisting(w, b) ==
  /\ ArchiverAt(w, "idle") /\ CallsLeft
  /\ Archived(b)
  /\ past' = [past EXCEPT !.handed = @ \cup {b}, !.calls = @ + 1]
  /\ UNCHANGED <<file, order, archiver>>

PutNew(w, b) ==
  /\ ArchiverAt(w, "idle") /\ CallsLeft
  /\ ~Archived(b)
  /\ archiver' = [archiver EXCEPT ![w] = [IdleArchiver EXCEPT !.at = "payload", !.block = b]]
  /\ past' = [past EXCEPT !.calls = @ + 1,
                          !.clash = Clash(b, \E v \in Archiver : Removing(v, b))]
  /\ UNCHANGED <<file, order>>

(* Get expands the block, then counts it if it can read the statistics.    *)
GetBlock(w, b) ==
  /\ ArchiverAt(w, "idle") /\ CallsLeft
  /\ Expandable(b)
  /\ file[Stats] = "whole"
  /\ archiver' = [archiver EXCEPT ![w] = [IdleArchiver EXCEPT !.at = "expanded"]]
  /\ past' = [past EXCEPT !.calls = @ + 1]
  /\ UNCHANGED <<file, order>>

(* LoadStats in Put, for the counts it then saves.                         *)
StatsLoaded(w) ==
  /\ ArchiverAt(w, "stats")
  /\ file[Stats] = "whole"
  /\ ArchiverGoes(w, "archived")
  /\ UNCHANGED <<file, order, past>>

(* The statistics cannot be read: Put returns an error, before it has      *)
(* looked at the limits.                                                   *)
StatsUnreadable(w) ==
  /\ ArchiverAt(w, "stats")
  /\ file[Stats] # "whole"
  /\ CallEnds(w)
  /\ past' = [past EXCEPT !.unswept = @ \cup {BlockOf(w)}]
  /\ UNCHANGED <<file, order>>

(* A block has one payload: b's place in the list, if it has any, is left. *)
OrderBut(b) ==
  IF b \in ToSet(order)
    THEN RemoveAt(order, CHOOSE i \in DOMAIN order : order[i] = b) ELSE order
Newest(b) == Append(OrderBut(b), b)

OpenFile(w) ==
  /\ archiver[w].at \in Writing /\ archiver[w].phase = "open"
  /\ file' = [file EXCEPT ![TargetFile(w)] = "empty"]
  /\ archiver' = [archiver EXCEPT ![w].phase = "fill"]
  /\ order' = IF ArchiverAt(w, "payload") THEN Newest(BlockOf(w)) ELSE order
  /\ UNCHANGED past

(* What a file holds once it is filled. Two writers of one payload write   *)
(* the same bytes; metadata and statistics differ in length.               *)
Filled(w) ==
  IF ArchiverAt(w, "payload") \/ file[TargetFile(w)] = "empty"
    THEN {"whole"} ELSE {"whole", "garbled"}

After(place) ==
  CASE place = "payload"   -> "meta"
    [] place = "meta"      -> "stats"
    [] place = "archived"  -> "list"
    [] place = "evictions" -> "due"
    [] place = "reconcile" -> "return"

FillFile(w) ==
  /\ archiver[w].at \in PutWrite /\ archiver[w].phase = "fill"
  /\ ArchiverGoes(w, After(archiver[w].at))
  /\ order' = IF ArchiverAt(w, "payload") THEN Newest(BlockOf(w)) ELSE order
  /\ \E held \in Filled(w) :
       /\ file' = [file EXCEPT ![TargetFile(w)] = held]
       /\ past' = IF ArchiverAt(w, "meta")
                    THEN [past EXCEPT !.evicted = @ \ {BlockOf(w)},
                                      !.clash = Clash(BlockOf(w), held = "garbled")]
                    ELSE past

(* A sweep has removed the file that was being written: the bytes go to a  *)
(* file without a name.                                                    *)
FillLost(w) ==
  /\ archiver[w].phase = "lost"
  /\ ArchiverGoes(w, After(archiver[w].at))
  /\ UNCHANGED <<file, order, past>>

FillExpanded(w) ==
  /\ ArchiverAt(w, "expanded") /\ archiver[w].phase = "fill"
  /\ \E held \in Filled(w) : file' = [file EXCEPT ![Stats] = held]
  /\ CallEnds(w)
  /\ UNCHANGED <<order, past>>

-----------------------------------------------------------------------------
(* enforceLimits                                                           *)

Bytes(s) ==
  LET of[i \in 0..Len(s)] ==
        IF i = 0 THEN 0
        ELSE of[i - 1] + (IF file[Payload(s[i])] = "whole" THEN Size[s[i]] ELSE 0)
  IN  of[Len(s)]
From(s, i) == SubSeq(s, i, Len(s))

Fits(s) == Len(s) <= MaxEntries /\ Bytes(s) <= MaxBytes

(* The oldest go until the rest fits the limits.                           *)
FirstKept ==
  CHOOSE i \in 1..(Len(order) + 1) :
    /\ Fits(From(order, i))
    /\ \A j \in 1..(i - 1) : ~Fits(From(order, j))

(* A mutant: the loop counts a removal before it has made it.              *)
DoomedButOne == SubSeq(order, 1, FirstKept - 2)

Doomed == SubSeq(order, 1, FirstKept - 1)

ListArchive(w) ==
  /\ ArchiverAt(w, "list")
  /\ archiver' = [archiver EXCEPT ![w].at = "sweep", ![w].doomed = Doomed]
  /\ past' = [past EXCEPT !.unswept = {}]
  /\ UNCHANGED <<file, order>>

(* The writers of a file that is removed keep it open, without its name.   *)
Unlink(f, states) ==
  /\ file' = [file EXCEPT ![f] = "none"]
  /\ archiver' = [v \in Archiver |->
                  IF states[v].phase = "fill" /\ FileOf(states[v]) = f
                    THEN [states[v] EXCEPT !.phase = "lost"] ELSE states[v]]

RemoveMeta(w) ==
  LET b == Head(archiver[w].doomed)
  IN  /\ ArchiverAt(w, "sweep") /\ archiver[w].doomed # <<>>
      /\ Unlink(Meta(b), [archiver EXCEPT ![w].at = "unlink"])
      /\ past' = [past EXCEPT !.evicted = @ \cup {b},
                              !.clash = Clash(b, \E v \in Archiver : Archiving(v, b))]
      /\ UNCHANGED order

RemovePayload(w) ==
  LET b == Head(archiver[w].doomed)
  IN  /\ ArchiverAt(w, "unlink")
      /\ Unlink(Payload(b), [archiver EXCEPT ![w].at = "sweep", ![w].doomed = Tail(@),
                                           ![w].swept = @ + 1])
      /\ order' = OrderBut(b)
      /\ UNCHANGED past

SweepEnds(w) ==
  /\ ArchiverAt(w, "sweep") /\ archiver[w].doomed = <<>>
  /\ ArchiverGoes(w, IF archiver[w].swept > 0 THEN "evictions" ELSE "due")
  /\ UNCHANGED <<file, order, past>>

(* Once in a while Put recounts the statistics, for which it has to read   *)
(* all the metadata.                                                       *)
Reconcile(w) ==
  /\ ArchiverAt(w, "due")
  /\ \A f \in ArchiveFile : f[2] # "payload" => file[f] \in {"none", "whole"}
  /\ ArchiverGoes(w, "reconcile")
  /\ UNCHANGED <<file, order, past>>

PutReturns(w) ==
  /\ archiver[w].at \in {"due", "return"}
  /\ past' = [past EXCEPT !.handed = @ \cup {BlockOf(w)}]
  /\ CallEnds(w)
  /\ UNCHANGED <<file, order>>

(* These saves may fail without consequence for the Put.                   *)
SaveFails(w) ==
  /\ archiver[w].at \in {"evictions", "reconcile"} /\ archiver[w].phase = "fill"
  /\ past.faults < MaxFaults
  /\ ArchiverGoes(w, After(archiver[w].at))
  /\ past' = [past EXCEPT !.faults = @ + 1]
  /\ UNCHANGED <<file, order>>

(* Another write or a removal fails, or the process dies.                  *)
WriteFault(w) ==
  LET b == BlockOf(w)
      left == IF archiver[w].at \in {"sweep", "unlink"} THEN ToSet(archiver[w].doomed)
              ELSE IF archiver[w].at \in {"payload", "meta", "stats", "archived", "list"} THEN {b}
              ELSE {}
  IN  /\ ~ArchiverAt(w, "idle")
      /\ past.faults < MaxFaults
      /\ CallEnds(w)
      /\ past' = [past EXCEPT
           !.faults = @ + 1, !.unswept = @ \cup left,
           !.clash = Clash(b, /\ Archiving(w, b) /\ archiver[w].phase = "fill"
                              /\ \/ file[Meta(b)] = "whole" \/ b \in past.handed \ past.evicted
                                 \/ \E v \in Archiver \ {w} : BlockOf(v) = b)]
      /\ UNCHANGED <<file, order>>

ArchiveNext ==
  \E w \in Archiver :
    \/ \E b \in Block : PutExisting(w, b) \/ PutNew(w, b) \/ GetBlock(w, b)
    \/ StatsLoaded(w) \/ StatsUnreadable(w) \/ OpenFile(w) \/ FillFile(w) \/ FillLost(w) \/ FillExpanded(w)
    \/ ListArchive(w) \/ RemoveMeta(w) \/ RemovePayload(w) \/ SweepEnds(w)
    \/ Reconcile(w) \/ PutReturns(w) \/ SaveFails(w) \/ WriteFault(w)

ArchiveSpec == ArchiveInit /\ [][ArchiveNext]_archiveVars

-----------------------------------------------------------------------------
(* A block that Put has returned, and to which the context refers instead  *)
(* of containing it, can be expanded until the limits evict it, whatever   *)
(* writes fail and processes die, unless two were at work on it.           *)
ExpandableUntilEvicted ==
  \A b \in past.handed \ (past.evicted \cup past.clash) :
    Expandable(b) \/ \E w \in Archiver : Archiving(w, b)

(* While no Put is under way the archive is within its limit, but for what *)
(* Puts that stopped before their sweep was done have left behind.         *)
ArchiveBounded ==
  (\A w \in Archiver : archiver[w].at \in {"idle", "expanded"}) =>
    Len(order) <= MaxEntries + Cardinality(past.unswept)

(* Nothing that is owed is removed, and nothing else is kept.              *)
ArchiveHonest == ExpandableUntilEvicted /\ ArchiveBounded
=============================================================================
