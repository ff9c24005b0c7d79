----------------------------- MODULE ChunkDedup -----------------------------
(***************************************************************************)
(* The chunk store (src/internal/chunkdedup/store.go): per session it      *)
(* knows the chunks of the tool outputs the model has been given, so that  *)
(* a later output may refer to one instead of repeating it, as far as a    *)
(* budget of the session allows.  An Encode holds the lock twice: to mark  *)
(* and record the chunks, and, after it has archived those it refers to,   *)
(* to spend the budget.                                                    *)
(***************************************************************************)
EXTENDS Naturals, Sequences, FiniteSets, FiniteSetsExt, Functions

CONSTANTS
  Dialog, NoDialog, \* sessions; the store knows nothing of one
  Chunk,            \* chunk ids, those of a cut by lines among them
  ChunkSize,        \* bytes of a chunk
  RefSize,          \* bytes of a reference
  Output,           \* tool outputs, as they are cut
  Encoder,          \* goroutines that handle requests
  MaxDialogs,       \* StoreLimits.MaxSessions
  MaxChunks,        \* StoreLimits.MaxChunksPerSession
  MaxRefPct,        \* StoreLimits.MaxSessionRefPct
  OutputPct,        \* the caller's limit for one output
  MaxOutputs        \* bound: calls

(* The bytes at some places of a cut, counted one by one.                  *)
SizeAt(plan, places) == Cardinality(UNION {{i} \X (1..ChunkSize[plan[i]]) : i \in places})
TextBytes(plan) == SizeAt(plan, DOMAIN plan)

(* fast: the cut by content; line: that by lines, if there is one.         *)
ASSUME ChunkAssumption ==
  /\ ChunkSize \in [Chunk -> Nat \ {0}] /\ RefSize \in Nat
  /\ Output \subseteq [fast : Seq(Chunk), line : Seq(Chunk)]
  /\ \A o \in Output : o.fast # <<>> /\ o.line # <<>> => TextBytes(o.line) = TextBytes(o.fast)
  /\ MaxDialogs \in Nat \ {0} /\ MaxChunks \in Nat \ {0}
  /\ MaxRefPct \in 1..100 /\ OutputPct \in 1..100 /\ MaxOutputs \in Nat

VARIABLES
  dialogs,  \* per session: what the store knows of it
  encoder,  \* per goroutine: the Encode it executes
  ledger,   \* history, per session
  calls     \* calls so far, which is the time

chunkVars == <<dialogs, encoder, ledger, calls>>

(* seen: when a chunk was last seen, and in which order.                   *)
DialogState == [seen : [Chunk -> [when : Nat, seq : Nat]], seq : Nat, lastSeen : Nat,
                inBytes : Nat, refBytes : Nat]
Unseen == [when |-> 0, seq |-> 0]
NewDialog == [seen |-> [c \in Chunk |-> Unseen], seq |-> 0, lastSeen |-> 0,
              inBytes |-> 0, refBytes |-> 0]

(* Between the locks: repeated are the chunks that were known, limit the   *)
(* bytes that may be replaced.                                             *)
Encode == [dialog : Dialog, output : Output, repeated : SUBSET Chunk, limit : Nat]
NoEncode == [dialog |-> NoDialog]

(* given: bytes of the session's outputs. referred: bytes of them that     *)
(* were replaced; forgotten: those replaced when the store had dropped the *)
(* session. carried: how many outputs had the chunk. named: chunks that    *)
(* were referred to.                                                       *)
Ledger == [given : Nat, referred : Nat, forgotten : Nat,
           carried : [Chunk -> Nat], named : SUBSET Chunk]

ChunkTypeOK ==
  /\ dialogs \in [Dialog -> {NoDialog} \cup DialogState]
  /\ encoder \in [Encoder -> {NoEncode} \cup Encode]
  /\ ledger \in [Dialog -> Ledger]
  /\ calls \in 0..MaxOutputs

ChunkInit ==
  /\ dialogs = [s \in Dialog |-> NoDialog]
  /\ encoder = [e \in Encoder |-> NoEncode]
  /\ ledger = [s \in Dialog |-> [given |-> 0, referred |-> 0, forgotten |-> 0,
                                 carried |-> [c \in Chunk |-> 0], named |-> {}]]
  /\ calls = 0

-----------------------------------------------------------------------------
(* The store.                                                              *)

Chunks(seen) == {c \in Chunk : seen[c] # Unseen}

(* pruneExpiredLocked, with what was last seen before the cutoff.          *)
Unexpired(known, cutoff) ==
  [s \in Dialog |->
     LET old == known[s]
         kept == [c \in Chunk |-> IF old.seen[c].when < cutoff THEN Unseen ELSE old.seen[c]]
     IN  IF old = NoDialog \/ old.lastSeen < cutoff \/ Chunks(kept) = {} THEN NoDialog
         ELSE [old EXCEPT !.seen = kept]]

(* seedPlanLocked: a chunk that is known gets a new seq; one that is in    *)
(* the cut twice has that of its last place.                               *)
Seed(old, plan) ==
  [old EXCEPT
     !.seen = [c \in Chunk |->
                 IF c \in Range(plan)
                 THEN [when |-> calls + 1, seq |-> old.seq + Max({i \in DOMAIN plan : plan[i] = c})]
                 ELSE @[c]],
     !.seq = @ + Len(plan)]

(* Those of a set after which fewer than n others come.                    *)
Latest(S, time, n) == {x \in S : Cardinality({y \in S : time[y] > time[x]}) < n}

(* pruneSessionLocked, pruneSessionsLocked: the least recently seen go.    *)
FewChunks(seen) ==
  LET kept == Latest(Chunks(seen), [c \in Chunk |-> seen[c].seq], MaxChunks)
  IN  [c \in Chunk |-> IF c \in kept THEN seen[c] ELSE Unseen]
FewDialogs(known) ==
  LET live == {s \in Dialog : known[s] # NoDialog}
      kept == Latest(live, [s \in live |-> known[s].lastSeen], MaxDialogs)
  IN  [s \in Dialog |-> IF s \in kept THEN known[s] ELSE NoDialog]

(* Both cuts of an output are recorded, with its bytes.                    *)
Entered(known, s, o) ==
  LET old == IF known[s] = NoDialog THEN NewDialog ELSE known[s]
      new == Seed(Seed(old, o.fast), o.line)
  IN  FewDialogs([known EXCEPT ![s] =
        [new EXCEPT !.seen = FewChunks(@), !.lastSeen = calls + 1,
                    !.inBytes = @ + TextBytes(o.fast)]])

(* remainingReferenceBudgetLocked, in a session that has n bytes more.     *)
Budget(old, n) ==
  LET total == old.inBytes + n
      most == (total * MaxRefPct) \div 100
  IN  IF MaxRefPct >= 100 THEN total
      ELSE IF old.refBytes > most THEN 0 ELSE most - old.refBytes

(* markRepeatedLocked: what was known before this output is recorded. A    *)
(* mutant: its own chunks are known.                                       *)
RepeatedInside(old, o) == Range(o.fast) \cup Range(o.line)
Repeated(old, o) == (Range(o.fast) \cup Range(o.line)) \cap Chunks(old.seen)

(* recordReferenceBudget's check: what may be spent now, whatever was left *)
(* when the Encode began. A mutant: the budget was checked at the start.   *)
SpendsUnchecked(d, n) == TRUE
MaySpend(d, n) == MaxRefPct >= 100 \/ (d.refBytes + n) * 100 <= d.inBytes * MaxRefPct

-----------------------------------------------------------------------------
(* The choice of references in one cut.                                    *)

SavedAt(plan, refs) == SizeAt(plan, refs) - RefSize * Cardinality(refs)

(* selectReferenceIndexes: the largest first, what does not fit beside     *)
(* those before it is left.                                                *)
Before(plan, i, j) ==
  \/ ChunkSize[plan[i]] > ChunkSize[plan[j]]
  \/ ChunkSize[plan[i]] = ChunkSize[plan[j]] /\ i < j
Selected(plan, repeated, limit) ==
  LET fits == {i \in DOMAIN plan : /\ plan[i] \in repeated
                                   /\ ChunkSize[plan[i]] \in (RefSize + 1)..limit}
  IN  CHOOSE refs \in SUBSET fits :
        \A i \in fits :
          i \in refs <=> SizeAt(plan, {j \in refs : Before(plan, j, i)})
                           + ChunkSize[plan[i]] <= limit

(* The cut that saves more; that by content if both save the same.         *)
BestPlan(o, repeated, limit) ==
  IF SavedAt(o.line, Selected(o.line, repeated, limit))
     > SavedAt(o.fast, Selected(o.fast, repeated, limit))
  THEN o.line ELSE o.fast

-----------------------------------------------------------------------------
(* The operations.                                                         *)

Given(s, o) ==
  ledger' = [ledger EXCEPT ![s].given = @ + TextBytes(o.fast),
    ![s].carried = [c \in Chunk |-> @[c] + (IF c \in Range(o.fast) \cup Range(o.line)
                                            THEN 1 ELSE 0)]]

(* Observe, for an output that is passed in full.                          *)
Observe(s, o) ==
  /\ calls < MaxOutputs
  /\ \E cutoff \in 0..(calls + 1) : dialogs' = Entered(Unexpired(dialogs, cutoff), s, o)
  /\ Given(s, o)
  /\ calls' = calls + 1
  /\ UNCHANGED encoder

(* EncodeWithReportWithMaxReferencePercent up to Unlock: it goes on if     *)
(* something of the output may be replaced.                                *)
BeginEncode(e, s, o) ==
  /\ calls < MaxOutputs
  /\ encoder[e] = NoEncode
  /\ \E cutoff \in 0..(calls + 1) :
       LET known == Unexpired(dialogs, cutoff)
           old == IF known[s] = NoDialog THEN NewDialog ELSE known[s]
           repeated == Repeated(old, o)
           limit == Min({Budget(old, TextBytes(o.fast)),
                         (TextBytes(o.fast) * OutputPct) \div 100})
           plan == BestPlan(o, repeated, limit)
       IN  /\ dialogs' = Entered(known, s, o)
           /\ encoder' = IF limit > 0 /\ Selected(plan, repeated, limit) # {}
                         THEN [encoder EXCEPT ![e] = [dialog |-> s, output |-> o,
                                 repeated |-> repeated, limit |-> limit]]
                         ELSE encoder
  /\ Given(s, o)
  /\ calls' = calls + 1

(* encodePlan with the archive, which may refuse any chunk, and            *)
(* recordReferenceBudget: an Encode that may not spend what it refers to   *)
(* passes the output in full; that of a session which is gone may.         *)
FinishEncode(e) ==
  /\ encoder[e] # NoEncode
  /\ LET s == encoder[e].dialog
         repeated == encoder[e].repeated
         limit == encoder[e].limit
         plan == BestPlan(encoder[e].output, repeated, limit)
     IN  \E refs \in SUBSET Selected(plan, repeated, limit) :
           LET n == SizeAt(plan, refs)
               gone == dialogs[s] = NoDialog
           IN  IF n > 0 /\ (gone \/ MaySpend(dialogs[s], n))
               THEN /\ dialogs' = IF gone THEN dialogs
                                  ELSE [dialogs EXCEPT ![s].refBytes = @ + n]
                    /\ ledger' = [ledger EXCEPT
                         ![s].referred = @ + n,
                         ![s].forgotten = @ + (IF gone THEN n ELSE 0),
                         ![s].named = @ \cup {plan[i] : i \in refs}]
               ELSE UNCHANGED <<dialogs, ledger>>
  /\ encoder' = [encoder EXCEPT ![e] = NoEncode]
  /\ UNCHANGED calls

ChunkNext ==
  \/ \E s \in Dialog, o \in Output : Observe(s, o) \/ \E e \in Encoder : BeginEncode(e, s, o)
  \/ \E e \in Encoder : FinishEncode(e)

ChunkSpec == ChunkInit /\ [][ChunkNext]_chunkVars

-----------------------------------------------------------------------------
(* The bytes of a session's outputs that were replaced stay within the     *)
(* share the limits allow, although each Encode chooses between its two    *)
(* locks what to replace, and other Encodes spend what it has seen left:   *)
(* except for those that finish when the store has dropped the session     *)
(* (recordReferenceBudget accepts them and records nothing).               *)
WithinBudget ==
  \A s \in Dialog :
    /\ (ledger[s].referred - ledger[s].forgotten) * 100 <= MaxRefPct * ledger[s].given
    /\ dialogs[s] # NoDialog =>
         dialogs[s].refBytes <= ledger[s].referred - ledger[s].forgotten

(* No output refers to a chunk that only it carries: the same chunk was in *)
(* an earlier output of the session.                                       *)
RefersBack == \A s \in Dialog : \A c \in ledger[s].named : ledger[s].carried[c] > 1

(* A store at its limits stays there.                                      *)
StoreBounded ==
  /\ Cardinality({s \in Dialog : dialogs[s] # NoDialog}) <= MaxDialogs
  /\ \A s \in Dialog : dialogs[s] # NoDialog => Cardinality(Chunks(dialogs[s].seen)) <= MaxChunks

(* References are honest: in the budget and to what came before, from a    *)
(* store within its limits.                                                *)
ReferencesHonest == WithinBudget /\ RefersBack /\ StoreBounded
=============================================================================
