------------------------------ MODULE MCStorage ------------------------------
(***************************************************************************)
(* What the program keeps of the texts it has seen, model-checked in one   *)
(* run: the content archive, the read cache, the tool-use cache or the     *)
(* chunk store, as "part" says; the others stay in their initial state.    *)
(***************************************************************************)
EXTENDS ContentArchive, ReadCache, ToolUseCache, ChunkDedup

CONSTANTS b1, b2, x, y,   \* blocks, and who archives them
          t1, t2, d1, d2, \* texts, and who reads them
          a1, a2, g1, g2, g3, \* adapters of a session, and flushes
          ca, cb, cd, cl, cm, s1, s2, e1, e2  \* chunks, sessions, encoders
VARIABLE part

Part == {"archive", "readcache", "tooluse", "chunks"}
vars == <<part, archiveVars, readCacheVars, toolVars, chunkVars>>

(* A session of the read cache is new, or begins with knowledge of t1.     *)
Init ==
  /\ part \in Part
  /\ ArchiveInit
  /\ ReadCacheInit /\ stored \in (IF part = "readcache" THEN {{}, {t1}} ELSE {{}})
  /\ ToolUseInit
  /\ ChunkInit

Next ==
  \/ part = "archive" /\ ArchiveNext /\ UNCHANGED <<part, readCacheVars, toolVars, chunkVars>>
  \/ part = "readcache" /\ ReadCacheNext /\ UNCHANGED <<part, archiveVars, toolVars, chunkVars>>
  \/ part = "tooluse" /\ ToolUseNext /\ UNCHANGED <<part, archiveVars, readCacheVars, chunkVars>>
  \/ part = "chunks" /\ ChunkNext /\ UNCHANGED <<part, archiveVars, readCacheVars, toolVars>>

Spec == Init /\ [][Next]_vars

(* The variables of every part have their types.                           *)
TypeOK ==
  part \in Part /\ ArchiveTypeOK /\ ReadCacheTypeOK /\ ToolUseTypeOK /\ ChunkTypeOK

(* Two outputs that begin with the same chunk; one is cut by lines, too.   *)
MCChunkSize ==
  [c \in Chunk |-> CASE c \in {ca, cd} -> 4 [] c = cb -> 2 [] c = cl -> 5 [] c = cm -> 1]
MCOutput == {[fast |-> <<ca, cb>>, line |-> <<cl, cm>>], [fast |-> <<ca, cd>>, line |-> <<>>]}

(* The goroutines of the daemon that read are interchangeable.             *)
MCSymmetry == Permutations(Evaluator)

(* One block alone is larger than the archive may be.                      *)
MCSize == [b \in Block |-> IF b = b2 THEN 3 ELSE 1]
=============================================================================
