--------------------------- MODULE ReadCache_proofs ---------------------------
(***************************************************************************)
(* Proofs about the read cache (ReadCache): what is kept back from the     *)
(* model it has or had, and what has come to rest on the disk is what the  *)
(* daemon saved last.                                                      *)
(***************************************************************************)
EXTENDS ReadCache, TLAPS

Modes == [helper : {"none", "hook", "wrapper"}, daemon : {"up", "clearing", "stopping"}]
Accidents == {"reinstalled", "overtaken", "foreign", "failed", "cut", "cleared", "pruned",
              "mixed"}
Histories == [given : SUBSET Text, evicted : SUBSET Text, last : Known, calls : Nat,
              upsets : Nat, kinds : SUBSET Accidents]

-----------------------------------------------------------------------------
(* What is known of the file, in the memories, on the disk and on the way  *)
(* to it, was given to the model, or is just being given to it; and what   *)
(* it has a URI of was archived.                                           *)
Fair == told.given \cup {eval[o].text : o \in Evaluation} \cup {NoText, Blank}
Archived == stored \cup told.evicted
GoodIn(known, fair, archived) ==
  /\ known.hash \in fair /\ known.cached \in fair
  /\ known.uri \in fair /\ known.read \in fair
  /\ known.uri \in archived \cup {NoText}
Has(known) ==
  \/ disk \notin {Emptied, Torn} /\ known = disk
  \/ \E p \in CacheProcess : mem[p] # NoEntry /\ known = mem[p].known
  \/ \E f \in flight : known = f.known
  \/ \E e \in Evaluation : known = eval[e].known
AllGood == \A known \in Known : Has(known) => GoodIn(known, Fair, Archived)

(* Nothing is given, or kept back, before it has been decided what.        *)
Undecided == {"idle", "read", "install", "decide"}
NothingYet ==
  \A e \in Evaluation :
    IF eval[e].at \in Undecided THEN eval[e].text = NoText /\ eval[e].reply = "full"
    ELSE eval[e].text # NoText

(* What is about to be said can be said.                                   *)
Others(e) == (told.given \cup {eval[o].text : o \in Evaluation \ {e}}) \ {NoText}
SaidFairly(e) ==
  /\ eval[e].reply = "unchanged" => eval[e].text \in Others(e)
  /\ eval[e].reply = "unchanged" /\ Observes(e) =>
       \/ eval[e].names = eval[e].text /\ eval[e].names \in Archived
       \/ "mixed" \in told.kinds
  /\ eval[e].reply = "delta" => eval[e].names \in Others(e)
AllFair == \A e \in Evaluation : eval[e].at \in {"flush", "reply"} => SaidFairly(e)

-----------------------------------------------------------------------------
(* Unless one of the accidents has come in between, at most one flush is   *)
(* under way, and what it writes is what the daemon has saved, or the      *)
(* daemon has saved something else since.                                  *)
Calm ==
  told.kinds \cap {"reinstalled", "cleared", "pruned", "cut", "foreign", "overtaken"} = {}
Quiet == told.kinds \subseteq {"mixed"}
Single == \A f, g \in flight : f = g
Grounded ==
  \A f \in flight :
    /\ f.at # "lost"
    /\ f.at = "fill" => disk = Emptied
    /\ f.at = "done" => f.process = Daemon /\ disk = f.known
    /\ f.process = Daemon =>
         /\ mem[Daemon] # NoEntry /\ f.version <= mem[Daemon].version
         /\ f.version = mem[Daemon].version => f.known = mem[Daemon].known
         /\ f.version # mem[Daemon].version => mem[Daemon].dirty
Clean == \/ mem[Daemon] = NoEntry
         \/ ~mem[Daemon].dirty /\ \A f \in flight : f.process # Daemon
Remembered ==
  /\ mem[Daemon] # NoEntry => mem[Daemon].known = told.last
  /\ mem[Daemon] = NoEntry =>
       \A e \in Evaluator : eval[e].at = "install" => eval[e].known = told.last
  /\ Clean => disk \in {told.last, Emptied}
Scheduled ==
  mem[Daemon] # NoEntry =>
    /\ mem[Daemon].dirty => mem[Daemon].scheduled
    /\ mem[Daemon].scheduled => sleepers[Daemon] > 0
Rested == Clean /\ (\A f \in flight : f.at # "fill") => disk = told.last

Settled ==
  /\ mode.daemon = "clearing" => "cleared" \in told.kinds
  /\ Calm => Single /\ Grounded /\ Remembered
  /\ Quiet => Scheduled /\ Rested

ReadCacheInv == ReadCacheTypeOK /\ AllGood /\ NothingYet /\ AllFair /\ Settled

-----------------------------------------------------------------------------
(* Types.                                                                  *)

LEMMA Processes ==
  /\ Daemon \in CacheProcess /\ Helper \in CacheProcess /\ Daemon # Helper
  /\ Helper \in Evaluation /\ Helper \notin Evaluator /\ Evaluator \subseteq Evaluation
  /\ \A e \in Evaluation : /\ ProcessOf(e) \in CacheProcess
                           /\ e \in Evaluator => ProcessOf(e) = Daemon
                           /\ e \notin Evaluator => e = Helper /\ ProcessOf(e) = Helper
BY ReadCacheAssumption DEF CacheProcess, Evaluation, ProcessOf

LEMMA TypeFacts ==
  ASSUME ReadCacheTypeOK
  PROVE  /\ disk \in Known \cup {Emptied, Torn}
         /\ mem \in [CacheProcess -> Entry \cup {NoEntry}]
         /\ sleepers \in [CacheProcess -> Nat] /\ flight \in SUBSET Flight
         /\ eval \in [Evaluation -> Eval] /\ stored \in SUBSET Text
         /\ mode \in Modes /\ told \in Histories
BY DEF ReadCacheTypeOK, Modes, Histories, Accidents

LEMMA TypeBack ==
  ASSUME disk' \in Known \cup {Emptied, Torn},
         mem' \in [CacheProcess -> Entry \cup {NoEntry}],
         sleepers' \in [CacheProcess -> Nat], flight' \in SUBSET Flight,
         eval' \in [Evaluation -> Eval], stored' \in SUBSET Text,
         mode' \in Modes, told' \in Histories
  PROVE  ReadCacheTypeOK'
BY DEF ReadCacheTypeOK, Modes, Histories, Accidents

LEMMA NothingType == Nothing \in Known /\ IdleEval \in Eval
BY DEF Nothing, Known, IdleEval, Eval, Reply

LEMMA ObservedType ==
  ASSUME NEW text \in Text, NEW uri \in Text \cup {NoText}
  PROVE  Observed(text, uri) \in Known
BY DEF Observed, Known

LEMMA StatedType ==
  ASSUME NEW known \in Known, NEW text \in Text \cup {NoText}, NEW cached \in Text \cup {NoText}
  PROVE  Stated(known, text, cached) \in Known
BY DEF Stated, Known

LEMMA EntryType ==
  ASSUME NEW known \in Known
  PROVE  /\ CleanEntry(known) \in Entry /\ CleanEntry(known).known = known
         /\ ~CleanEntry(known).dirty /\ ~CleanEntry(known).scheduled
BY DEF CleanEntry, Entry

LEMMA KindsType ==
  ASSUME told \in Histories, NEW kind \in Accidents, NEW happens \in BOOLEAN
  PROVE  /\ Kinds(kind, happens) \in SUBSET Accidents
         /\ told.kinds \subseteq Kinds(kind, happens)
         /\ happens => kind \in Kinds(kind, happens)
         /\ ~happens => Kinds(kind, happens) = told.kinds
BY DEF Histories, Kinds

(* A happening counted: what was known of the history stays well typed.    *)
LEMMA Counted ==
  ASSUME told \in Histories
  PROVE  told.upsets + 1 \in Nat
<1>1. told.upsets \in Nat
  BY DEF Histories
<1> QED BY <1>1

-----------------------------------------------------------------------------
(* What is known stays known.                                              *)

Growing ==
  /\ told.given \subseteq told'.given /\ told.kinds \subseteq told'.kinds
  /\ Archived \subseteq Archived'
  /\ \A o \in Evaluation : \/ eval'[o].text = eval[o].text \/ eval[o].text = NoText
                           \/ eval[o].text \in told'.given

LEMMA FairGrows ==
  ASSUME Growing
  PROVE  Fair \subseteq Fair' /\ \A e \in Evaluation : Others(e) \subseteq Others(e)'
<1>1. Fair \subseteq Fair'
  BY DEF Growing, Fair
<1>2. ASSUME NEW e \in Evaluation PROVE Others(e) \subseteq Others(e)'
  BY DEF Growing, Others
<1> QED BY <1>1, <1>2

LEMMA GoodGrows ==
  ASSUME NEW known, NEW fair, NEW more, NEW archived, NEW kept,
         GoodIn(known, fair, archived), fair \subseteq more, archived \subseteq kept
  PROVE  GoodIn(known, more, kept)
BY DEF GoodIn

LEMMA NothingGood ==
  ASSUME NEW archived PROVE GoodIn(Nothing, Fair, archived) /\ GoodIn(Nothing, Fair', archived)
BY DEF GoodIn, Nothing, Fair

LEMMA GoodKept ==
  ASSUME AllGood, Growing,
         \A known \in Known : Has(known)' => Has(known) \/ GoodIn(known, Fair', Archived')
  PROVE  AllGood'
<1> SUFFICES ASSUME NEW known \in Known, Has(known)' PROVE GoodIn(known, Fair', Archived')
  BY DEF AllGood
<1>1. CASE Has(known)
  <2>1. GoodIn(known, Fair, Archived)
    BY <1>1 DEF AllGood
  <2> QED BY <2>1, FairGrows, GoodGrows DEF Growing
<1>2. CASE GoodIn(known, Fair', Archived')
  BY <1>2
<1> QED BY <1>1, <1>2

LEMMA SaidStays ==
  ASSUME AllFair, Growing, NEW e \in Evaluation, eval[e].at \in {"flush", "reply"},
         eval'[e].text = eval[e].text, eval'[e].names = eval[e].names,
         eval'[e].reply \in {eval[e].reply, "full"}, Observes(e)' <=> Observes(e)
  PROVE  SaidFairly(e)'
<1>1. SaidFairly(e)
  BY DEF AllFair
<1>2. Others(e) \subseteq Others(e)'
  BY FairGrows
<1> QED BY <1>1, <1>2 DEF SaidFairly, Growing

(* What is fair to say, and is not said by the one that asks.              *)
LEMMA FairElse ==
  ASSUME NEW e \in Evaluation, eval[e].text = NoText, NEW x \in Fair, x # NoText, x # Blank
  PROVE  x \in Others(e)
BY DEF Fair, Others

-----------------------------------------------------------------------------
(* A decision.                                                             *)

Decision(e, text) ==
  \/ FullPass(e, text) \/ ReferUnchanged(e, text) \/ ReferChanged(e, text)
  \/ HookUnchanged(e, text) \/ HookChanged(e, text)

(* A decision that is fair, and saves what is good to know.                *)
FairDecision(e, text, known, reply, names) ==
  /\ Decides(e, text, known, reply, names)
  /\ stored \subseteq stored' /\ stored' \subseteq stored \cup {text}
  /\ GoodIn(known, Fair \cup {text}, stored' \cup told.evicted)
  /\ reply = "unchanged" => text \in Others(e)
  /\ reply = "unchanged" /\ Observes(e) =>
       \/ names = text /\ names \in Archived
       \/ known.uri \notin {NoText, known.hash}
  /\ reply = "delta" => names \in Others(e)

(* Only an evaluation that has loaded decides.                             *)
LEMMA DecidesThere ==
  ASSUME NEW e \in Evaluation, NEW text \in Text, Decision(e, text)
  PROVE  eval[e].at = "decide"
BY Zenon DEF Decision, FullPass, ReferUnchanged, ReferChanged, HookUnchanged, HookChanged,
     Observing, Hooking, EvalAt

LEMMA DecisionsAreFair ==
  ASSUME ReadCacheInv, NEW e \in Evaluation, NEW text \in Text, Decision(e, text)
  PROVE  \E known \in Known, reply \in Reply, names \in Text \cup {NoText} :
           FairDecision(e, text, known, reply, names)
<1> DEFINE k == eval[e].known
<1>1. eval[e] \in Eval /\ k \in Known
  <2>1. eval \in [Evaluation -> Eval]
    BY TypeFacts DEF ReadCacheInv
  <2>2. eval[e] \in Eval
    BY <2>1
  <2> QED BY <2>2 DEF Eval
<1>2. eval[e].at = "decide"
  BY DecidesThere
<1>3. eval[e].text = NoText
  BY <1>2 DEF ReadCacheInv, NothingYet, Undecided
<1>4. GoodIn(k, Fair, Archived)
  BY <1>1 DEF ReadCacheInv, AllGood, Has
<1>5. /\ k.hash \in Text \cup {NoText, Blank} /\ k.cached \in Text \cup {NoText}
      /\ k.uri \in Text \cup {NoText} /\ k.read \in Text \cup {NoText}
      /\ NoText \notin Text /\ Blank \notin Text /\ NoText # Blank /\ stored \subseteq Text
  BY <1>1, TypeFacts, ReadCacheAssumption DEF Known, ReadCacheInv
<1>6. NoText \in Fair /\ Blank \in Fair
  BY DEF Fair
<1>7. \A x \in Fair : x \in Text => x \in Others(e)
  BY <1>3, <1>5, FairElse
<1> HIDE DEF k
<1>8. ASSUME NEW uri \in {text, NoText}, Archive(uri)
      PROVE  /\ Observed(text, uri) \in Known
             /\ stored \subseteq stored' /\ stored' \subseteq stored \cup {text}
             /\ GoodIn(Observed(text, uri), Fair \cup {text}, stored' \cup told.evicted)
  <2>1. Observed(text, uri) \in Known
    BY ObservedType
  <2>2. stored' = stored \cup ({uri} \ {NoText})
    BY <1>8 DEF Archive
  <2>3. uri \in stored' \cup {NoText}
    BY <2>2
  <2>4. GoodIn(Observed(text, uri), Fair \cup {text}, stored' \cup told.evicted)
    BY <1>6, <2>3 DEF GoodIn, Observed
  <2> QED BY <2>1, <2>2, <2>4
<1>9. CASE FullPass(e, text)
  <2>1. PICK uri \in {text, NoText} :
          Archive(uri) /\ Decides(e, text, Observed(text, uri), "full", NoText)
    BY <1>9 DEF FullPass
  <2>2. FairDecision(e, text, Observed(text, uri), "full", NoText)
    BY <2>1, <1>8 DEF FairDecision
  <2> QED BY <2>1, <2>2, <1>8 DEF Reply
<1>10. CASE ReferUnchanged(e, text)
  <2> DEFINE next == Observed(text, k.uri)
  <2>1. /\ Unchanged(k, text) /\ stored' = stored
        /\ Decides(e, text, next, "unchanged", k.uri)
    BY <1>10 DEF ReferUnchanged, k
  <2>2. k.hash = text /\ k.uri # NoText /\ k.uri \in Archived /\ k.uri \in Fair
    BY <1>4, <2>1 DEF Unchanged, GoodIn
  <2>3. text \in Others(e)
    BY <1>4, <1>7, <2>2 DEF GoodIn
  <2>4. next \in Known
    BY <1>5, ObservedType
  <2>5. next.hash = text /\ next.uri = k.uri
    BY DEF Observed
  <2>6. GoodIn(next, Fair \cup {text}, stored' \cup told.evicted)
    BY <1>6, <2>1, <2>2 DEF GoodIn, Observed, Archived
  <2> HIDE DEF next
  <2>7. FairDecision(e, text, next, "unchanged", k.uri)
    BY <2>1, <2>2, <2>3, <2>5, <2>6 DEF FairDecision
  <2> QED BY <1>5, <2>4, <2>7 DEF Reply
<1>11. CASE ReferChanged(e, text)
  <2> DEFINE old == IF k.cached # NoText THEN k.cached
                    ELSE IF k.uri \in stored THEN k.uri ELSE NoText
  <2>1. PICK uri \in {text, NoText}, reply \in {"full", "delta"} :
          /\ Archive(uri)
          /\ reply = "delta" => uri # NoText /\ old \notin {NoText, text}
          /\ Decides(e, text, Observed(text, uri), reply,
                     IF reply = "delta" THEN old ELSE NoText)
    BY <1>11 DEF ReferChanged, k
  <2>2. old \in Text \cup {NoText} /\ old \in Fair
    BY <1>4, <1>5, <1>6 DEF GoodIn
  <2> HIDE DEF old
  <2> DEFINE names == IF reply = "delta" THEN old ELSE NoText
  <2>3. names \in Text \cup {NoText} /\ (reply = "delta" => names \in Others(e))
    BY <1>7, <2>1, <2>2
  <2>4. reply \in Reply /\ reply # "unchanged"
    BY DEF Reply
  <2>5. Decides(e, text, Observed(text, uri), reply, names)
    BY <2>1
  <2> HIDE DEF names
  <2>6. FairDecision(e, text, Observed(text, uri), reply, names)
    BY <2>1, <2>3, <2>4, <2>5, <1>8 DEF FairDecision
  <2> QED BY <2>1, <2>3, <2>4, <2>6, <1>8
<1>12. CASE HookUnchanged(e, text)
  <2> DEFINE next == Stated(k, k.read, k.cached)
  <2>1. /\ k.read = text /\ stored' = stored /\ ~Observes(e)
        /\ Decides(e, text, next, "unchanged", NoText)
    BY <1>12 DEF HookUnchanged, Hooking, k
  <2>2. next \in Known
    BY <1>1, <1>5, StatedType DEF k
  <2>3. text \in Others(e)
    BY <1>4, <1>7, <2>1 DEF GoodIn
  <2>4. GoodIn(next, Fair \cup {text}, stored' \cup told.evicted)
    BY <1>1, <1>4, <1>6, <2>1 DEF GoodIn, Stated, Archived, Known, k
  <2> HIDE DEF next
  <2>5. FairDecision(e, text, next, "unchanged", NoText)
    BY <2>1, <2>3, <2>4 DEF FairDecision
  <2> QED BY <2>2, <2>5 DEF Reply
<1>13. CASE HookChanged(e, text)
  <2> DEFINE cached == IF text \in Large THEN NoText ELSE text
             next == Stated(k, text, cached)
  <2>1. PICK reply \in {"full", "delta"} :
          /\ reply = "delta" => k.cached \notin {NoText, text}
          /\ Decides(e, text, next, reply, IF reply = "delta" THEN k.cached ELSE NoText)
          /\ stored' = stored
    BY <1>13 DEF HookChanged, k
  <2>2. cached \in Text \cup {NoText} /\ cached \in Fair \cup {text}
    BY <1>6
  <2> HIDE DEF cached
  <2>3. next \in Known
    BY <1>1, <2>2, StatedType DEF k
  <2>4. GoodIn(next, Fair \cup {text}, stored' \cup told.evicted)
    BY <1>1, <1>4, <1>6, <2>1, <2>2 DEF GoodIn, Stated, Archived, Known, k
  <2> DEFINE names == IF reply = "delta" THEN k.cached ELSE NoText
  <2>5. names \in Text \cup {NoText} /\ (reply = "delta" => names \in Others(e))
    BY <1>4, <1>5, <1>7, <2>1 DEF GoodIn
  <2>6. reply \in Reply /\ reply # "unchanged"
    BY DEF Reply
  <2>7. Decides(e, text, next, reply, names)
    BY <2>1
  <2> HIDE DEF next, names
  <2>8. FairDecision(e, text, next, reply, names)
    BY <2>1, <2>4, <2>5, <2>6, <2>7 DEF FairDecision
  <2> QED BY <2>3, <2>5, <2>6, <2>8
<1> QED BY <1>9, <1>10, <1>11, <1>12, <1>13 DEF Decision

LEMMA Saves ==
  ASSUME ReadCacheTypeOK, NEW p \in CacheProcess, NEW known \in Known, Saved(p, known)
  PROVE  /\ mem' \in [CacheProcess -> Entry \cup {NoEntry}]
         /\ \A q \in CacheProcess \ {p} : mem'[q] = mem[q] /\ sleepers'[q] = sleepers[q]
         /\ mem'[p] # NoEntry
         /\ mem'[p].known = known /\ mem'[p].dirty /\ mem'[p].scheduled
         /\ mem[p] # NoEntry => /\ mem[p].version \in Nat
                                /\ mem'[p].version = mem[p].version + 1
         /\ sleepers' \in [CacheProcess -> Nat]
         /\ sleepers'[p] \in {sleepers[p], sleepers[p] + 1}
         /\ (mem[p] # NoEntry /\ mem[p].scheduled) \/ sleepers'[p] > 0
<1> DEFINE old == IF mem[p] = NoEntry THEN CleanEntry(known) ELSE mem[p]
           version == old.version + 1
           new == [known |-> known, dirty |-> TRUE, scheduled |-> TRUE, version |-> version]
           asleep == IF old.scheduled THEN sleepers[p] ELSE sleepers[p] + 1
<1>1. mem' = [mem EXCEPT ![p] = new] /\ sleepers' = [sleepers EXCEPT ![p] = asleep]
  BY DEF Saved
<1>2. old \in Entry /\ (mem[p] # NoEntry => old = mem[p])
      /\ (mem[p] = NoEntry => ~old.scheduled)
  BY TypeFacts, EntryType
<1>3. old.version \in Nat /\ version \in Nat
  BY <1>2 DEF Entry
<1>4. new \in Entry /\ new.known = known /\ new.dirty /\ new.scheduled /\ new.version = version
  BY <1>3 DEF Entry
<1>5. sleepers[p] \in Nat /\ asleep \in Nat /\ asleep \in {sleepers[p], sleepers[p] + 1}
  BY TypeFacts
<1>6. old.scheduled \/ asleep > 0
  BY <1>5
<1>7. /\ mem \in [CacheProcess -> Entry \cup {NoEntry}] /\ sleepers \in [CacheProcess -> Nat]
  BY TypeFacts
<1>8. mem[p] # NoEntry => /\ mem[p].version \in Nat /\ version = mem[p].version + 1
  BY <1>2, <1>3
<1>9. old.scheduled => mem[p] # NoEntry /\ mem[p].scheduled
  BY <1>2
<1> HIDE DEF old, version, new, asleep
<1>10. mem'[p] = new /\ sleepers'[p] = asleep /\ new # NoEntry
  BY <1>1, <1>4, <1>7, ReadCacheAssumption
<1> QED BY <1>1, <1>4, <1>5, <1>6, <1>7, <1>8, <1>9, <1>10

(* What a decision changes.                                                *)
LEMMA DecisionMoves ==
  ASSUME ReadCacheTypeOK, NEW e \in Evaluation, NEW text \in Text, NEW known \in Known,
         NEW reply \in Reply, NEW names \in Text \cup {NoText},
         Decides(e, text, known, reply, names)
  PROVE  /\ Saved(ProcessOf(e), known)
         /\ eval' \in [Evaluation -> Eval]
         /\ \A o \in Evaluation \ {e} : eval'[o] = eval[o]
         /\ eval'[e].at \in {"flush", "reply"} /\ eval'[e].text = text
         /\ eval'[e].known = Nothing /\ eval'[e].reply = reply /\ eval'[e].names = names
         /\ told' \in Histories /\ told'.given = told.given /\ told'.evicted = told.evicted
         /\ told'.kinds \in {told.kinds, told.kinds \cup {"mixed"}}
         /\ known.uri \notin {NoText, known.hash} => "mixed" \in told'.kinds
         /\ told'.last = IF ProcessOf(e) = Daemon THEN known ELSE told.last
         /\ UNCHANGED <<disk, flight, mode>>
<1> DEFINE at == IF e = Helper /\ mode.helper = "wrapper" THEN "flush" ELSE "reply"
           next == [eval[e] EXCEPT !.at = at, !.text = text, !.known = Nothing,
                                   !.reply = reply, !.names = names]
           mixed == known.uri \notin {NoText, known.hash}
           last == IF ProcessOf(e) = Daemon THEN known ELSE told.last
           kinds == Kinds("mixed", mixed)
<1>1. eval' = [eval EXCEPT ![e] = next]
  BY DEF Decides
<1>2. next \in Eval /\ next.at = at /\ next.text = text /\ next.known = Nothing
      /\ next.reply = reply /\ next.names = names
  <2>1. eval[e] \in Eval
    BY TypeFacts
  <2> DEFINE old == eval[e]
  <2>2. old \in Eval
    BY <2>1
  <2>3. at \in {"flush", "reply"}
    OBVIOUS
  <2> HIDE DEF old, at
  <2>4. next = [old EXCEPT !.at = at, !.text = text, !.known = Nothing,
                           !.reply = reply, !.names = names]
    BY DEF old
  <2> HIDE DEF next
  <2> QED BY <2>2, <2>3, <2>4, NothingType DEF Eval
<1>3. PICK upsets \in Nat :
        told' = [told EXCEPT !.last = last, !.upsets = upsets, !.kinds = kinds]
  <2>1. told.upsets \in Nat /\ told.upsets + 1 \in Nat
    BY TypeFacts DEF Histories
  <2> DEFINE upsets == IF Observes(e) /\ known.uri = NoText THEN told.upsets + 1 ELSE told.upsets
  <2>2. told' = [told EXCEPT !.last = last, !.upsets = upsets, !.kinds = kinds]
    BY DEF Decides
  <2> QED BY <2>1, <2>2
<1>4. kinds \in SUBSET Accidents /\ kinds \in {told.kinds, told.kinds \cup {"mixed"}}
      /\ (mixed => "mixed" \in kinds)
  BY TypeFacts DEF Kinds, Histories, Accidents
<1>5. last \in Known
  BY TypeFacts DEF Histories
<1> HIDE DEF kinds, last
<1>6. /\ told' \in Histories /\ told'.given = told.given /\ told'.evicted = told.evicted
      /\ told'.kinds = kinds /\ told'.last = last
  BY <1>3, <1>4, <1>5, TypeFacts DEF Histories
<1>7. Saved(ProcessOf(e), known) /\ UNCHANGED <<disk, flight, mode>>
  BY DEF Decides
<1>8. eval \in [Evaluation -> Eval] /\ at \in {"flush", "reply"}
  BY TypeFacts
<1> HIDE DEF next, at
<1>9. eval' \in [Evaluation -> Eval] /\ eval'[e] = next
      /\ \A o \in Evaluation \ {e} : eval'[o] = eval[o]
  BY <1>1, <1>2, <1>8
<1> QED BY <1>2, <1>4, <1>6, <1>7, <1>8, <1>9 DEF last

LEMMA DecisionKeeps ==
  ASSUME ReadCacheInv, NEW e \in Evaluation, NEW text \in Text, Decision(e, text)
  PROVE  ReadCacheInv'
<1> DEFINE p == ProcessOf(e)
<1>0. ReadCacheTypeOK
  BY DEF ReadCacheInv
<1>1. PICK known \in Known, reply \in Reply, names \in Text \cup {NoText} :
        FairDecision(e, text, known, reply, names)
  BY DecisionsAreFair
<1>2. /\ Decides(e, text, known, reply, names)
      /\ stored \subseteq stored' /\ stored' \subseteq stored \cup {text}
      /\ GoodIn(known, Fair \cup {text}, stored' \cup told.evicted)
      /\ reply = "unchanged" => text \in Others(e)
      /\ reply = "unchanged" /\ Observes(e) =>
           \/ names = text /\ names \in Archived
           \/ known.uri \notin {NoText, known.hash}
      /\ reply = "delta" => names \in Others(e)
  BY <1>1 DEF FairDecision
<1>3. /\ eval[e].at = "decide" /\ Saved(p, known)
      /\ eval' \in [Evaluation -> Eval]
      /\ \A o \in Evaluation \ {e} : eval'[o] = eval[o]
      /\ eval'[e].at \in {"flush", "reply"} /\ eval'[e].text = text
      /\ eval'[e].known = Nothing /\ eval'[e].reply = reply /\ eval'[e].names = names
      /\ told' \in Histories /\ told'.given = told.given /\ told'.evicted = told.evicted
      /\ told'.kinds \in {told.kinds, told.kinds \cup {"mixed"}}
      /\ known.uri \notin {NoText, known.hash} => "mixed" \in told'.kinds
      /\ told'.last = IF p = Daemon THEN known ELSE told.last
      /\ UNCHANGED <<disk, flight, mode>>
  BY <1>0, <1>2, DecisionMoves, DecidesThere
<1>4. p \in CacheProcess
  BY Processes
<1> HIDE DEF p
<1>5. /\ mem' \in [CacheProcess -> Entry \cup {NoEntry}]
      /\ \A q \in CacheProcess \ {p} : mem'[q] = mem[q] /\ sleepers'[q] = sleepers[q]
      /\ mem'[p] # NoEntry
      /\ mem'[p].known = known /\ mem'[p].dirty /\ mem'[p].scheduled
      /\ mem[p] # NoEntry => /\ mem[p].version \in Nat
                             /\ mem'[p].version = mem[p].version + 1
      /\ sleepers' \in [CacheProcess -> Nat]
      /\ sleepers'[p] \in {sleepers[p], sleepers[p] + 1}
      /\ (mem[p] # NoEntry /\ mem[p].scheduled) \/ sleepers'[p] > 0
  BY <1>0, <1>3, <1>4, Saves
<1>6. ReadCacheTypeOK'
  <2>1. stored' \in SUBSET Text
    BY <1>0, <1>2, TypeFacts
  <2>2. /\ disk' \in Known \cup {Emptied, Torn} /\ flight' \in SUBSET Flight /\ mode' \in Modes
    BY <1>0, <1>3, TypeFacts
  <2> QED BY <1>3, <1>5, <2>1, <2>2, TypeBack
<1>7. eval[e].text = NoText
  BY <1>3 DEF ReadCacheInv, NothingYet, Undecided
<1>8. Growing
  <2>1. Archived \subseteq Archived'
    BY <1>2, <1>3 DEF Archived
  <2> QED BY <1>3, <1>7, <2>1 DEF Growing
<1>9. AllGood'
  <2>1. GoodIn(known, Fair', Archived')
    <3>1. Fair \cup {text} \subseteq Fair'
      BY <1>3, <1>8, FairGrows DEF Fair
    <3>2. stored' \cup told.evicted \subseteq Archived'
      BY <1>3 DEF Archived
    <3> QED BY <1>2, <3>1, <3>2, GoodGrows
  <2>2. ASSUME NEW k \in Known, Has(k)'
        PROVE  Has(k) \/ k = known \/ k = Nothing
    <3>1. CASE disk' \notin {Emptied, Torn} /\ k = disk'
      BY <1>3, <3>1 DEF Has
    <3>2. CASE \E q \in CacheProcess : mem'[q] # NoEntry /\ k = mem'[q].known
      BY <1>5, <3>2 DEF Has
    <3>3. CASE \E f \in flight' : k = f.known
      BY <1>3, <3>3 DEF Has
    <3>4. CASE \E o \in Evaluation : k = eval'[o].known
      BY <1>3, <3>4 DEF Has
    <3> QED BY <2>2, <3>1, <3>2, <3>3, <3>4 DEF Has
  <2>3. AllGood
    BY DEF ReadCacheInv
  <2> QED BY <1>8, <2>1, <2>2, <2>3, NothingGood, GoodKept
<1>10. NothingYet'
  <2>1. text # NoText
    BY ReadCacheAssumption
  <2> QED BY <1>3, <2>1 DEF ReadCacheInv, NothingYet, Undecided
<1>11. AllFair'
  <2>1. Observes(e)' <=> Observes(e)
    BY <1>3 DEF Observes
  <2>2. SaidFairly(e)'
    <3>1. Others(e) \subseteq Others(e)' /\ Archived \subseteq Archived'
      BY <1>8, FairGrows DEF Growing
    <3> QED BY <1>2, <1>3, <2>1, <3>1 DEF SaidFairly
  <2>3. ASSUME NEW o \in Evaluation, o # e, eval'[o].at \in {"flush", "reply"}
        PROVE  SaidFairly(o)'
    <3>1. Observes(o)' <=> Observes(o)
      BY <1>3 DEF Observes
    <3>2. eval'[o] = eval[o] /\ AllFair
      BY <1>3, <2>3 DEF ReadCacheInv
    <3> QED BY <1>8, <2>3, <3>1, <3>2, SaidStays
  <2> QED BY <2>2, <2>3 DEF AllFair
<1>12. Settled'
  <2>1. /\ mode.daemon = "clearing" => "cleared" \in told.kinds
        /\ Calm => Single /\ Grounded /\ Remembered
        /\ Quiet => Scheduled /\ Rested
    BY DEF ReadCacheInv, Settled
  <2>2. (Calm' => Calm) /\ (Quiet' => Quiet)
    BY <1>3 DEF Calm, Quiet
  <2>3. CASE p # Daemon
    <3>1. /\ mem'[Daemon] = mem[Daemon] /\ sleepers'[Daemon] = sleepers[Daemon]
          /\ told'.last = told.last
      BY <1>3, <1>5, <2>3, Processes
    <3>2. e \notin Evaluator /\ \A o \in Evaluator : o \in Evaluation \ {e}
      BY <2>3, Processes DEF p
    <3>3. \A o \in Evaluator : eval'[o] = eval[o]
      BY <1>3, <3>2
    <3>4. (Single' <=> Single) /\ (Grounded' <=> Grounded) /\ (Clean' <=> Clean)
      BY <1>3, <3>1 DEF Single, Grounded, Clean
    <3>5. Remembered' <=> Remembered
      BY <1>3, <3>1, <3>3, <3>4 DEF Remembered
    <3>6. (Scheduled' <=> Scheduled) /\ (Rested' <=> Rested)
      BY <1>3, <3>1, <3>4 DEF Scheduled, Rested
    <3>7. mode'.daemon = "clearing" => "cleared" \in told'.kinds
      BY <1>3, <2>1
    <3> QED BY <2>1, <2>2, <3>4, <3>5, <3>6, <3>7 DEF Settled
  <2>4. CASE p = Daemon
    <3>1. mode'.daemon = "clearing" => "cleared" \in told'.kinds
      BY <1>3, <2>1
    <3>2. mem'[Daemon].known = told'.last /\ mem'[Daemon].dirty /\ mem'[Daemon].scheduled
      BY <1>3, <1>5, <2>4
    <3>3. ~Clean'
      BY <1>5, <2>4, <3>2 DEF Clean
    <3>4. ASSUME Calm' PROVE Single' /\ Grounded' /\ Remembered'
      <4>1. Single /\ Grounded
        BY <2>1, <2>2, <3>4
      <4>2. Single'
        BY <1>3, <4>1 DEF Single
      <4>3. ASSUME NEW f \in flight, f.process = Daemon
            PROVE  /\ f.version <= mem'[Daemon].version
                   /\ f.version # mem'[Daemon].version
        <5>1. mem[Daemon] # NoEntry /\ f.version <= mem[Daemon].version
          BY <4>1, <4>3 DEF Grounded
        <5>2. f.version \in Nat
          BY <1>0, TypeFacts DEF Flight
        <5>3. /\ mem[Daemon].version \in Nat
              /\ mem'[Daemon].version = mem[Daemon].version + 1
          BY <1>5, <2>4, <5>1
        <5> QED BY <5>1, <5>2, <5>3
      <4>4. Grounded'
        BY <1>3, <1>5, <2>4, <3>2, <4>1, <4>3 DEF Grounded
      <4>5. Remembered'
        BY <1>5, <2>4, <3>2, <3>3 DEF Remembered
      <4> QED BY <4>2, <4>4, <4>5
    <3>5. ASSUME Quiet' PROVE Scheduled' /\ Rested'
      <4>1. Scheduled
        BY <2>1, <2>2, <3>5
      <4>2. sleepers'[Daemon] > 0
        <5>1. CASE mem[Daemon] # NoEntry /\ mem[Daemon].scheduled
          <6>1. sleepers[Daemon] > 0 /\ sleepers[Daemon] \in Nat
            BY <1>0, <4>1, <5>1, TypeFacts, Processes DEF Scheduled
          <6> QED BY <1>5, <2>4, <6>1
        <5> QED BY <1>5, <2>4, <5>1
      <4> QED BY <3>2, <3>3, <4>2 DEF Scheduled, Rested
    <3> QED BY <3>1, <3>4, <3>5 DEF Settled
  <2> QED BY <2>3, <2>4
<1> QED BY <1>6, <1>9, <1>10, <1>11, <1>12 DEF ReadCacheInv

-----------------------------------------------------------------------------
(* Loading.                                                                *)

LEMMA EvalMoves ==
  ASSUME ReadCacheInv, NEW e \in Evaluation, NEW next \in Eval,
         eval' = [eval EXCEPT ![e] = next],
         UNCHANGED <<disk, mem, sleepers, flight, stored>>,
         mode' \in Modes, mode'.daemon = mode.daemon,
         mode'.helper = mode.helper \/ e = Helper,
         told' \in Histories, told.given \subseteq told'.given,
         told'.evicted = told.evicted, told'.kinds = told.kinds, told'.last = told.last,
         eval[e].text = NoText \/ eval[e].text \in told'.given,
         GoodIn(next.known, Fair, Archived),
         next.at \in Undecided <=> next.text = NoText,
         next.reply = "full",
         next.at = "install" /\ Calm /\ e \in Evaluator /\ mem[Daemon] = NoEntry =>
           next.known = told.last
  PROVE  ReadCacheInv'
<1>0. ReadCacheTypeOK /\ AllGood /\ NothingYet /\ AllFair /\ Settled
  BY DEF ReadCacheInv
<1>1. /\ eval \in [Evaluation -> Eval] /\ eval'[e] = next
      /\ \A o \in Evaluation \ {e} : eval'[o] = eval[o]
  BY <1>0, TypeFacts
<1>2. ReadCacheTypeOK'
  <2>1. eval' \in [Evaluation -> Eval]
    BY <1>1
  <2> QED BY <1>0, <2>1, TypeFacts, TypeBack
<1>3. Growing
  <2>1. Archived' = Archived
    BY DEF Archived
  <2> QED BY <1>1, <2>1 DEF Growing
<1>4. AllGood'
  <2>1. ASSUME NEW k \in Known, Has(k)' PROVE Has(k) \/ k = next.known
    BY <1>1, <2>1 DEF Has
  <2>2. GoodIn(next.known, Fair', Archived')
    BY <1>3, FairGrows, GoodGrows DEF Growing
  <2> QED BY <1>0, <1>3, <2>1, <2>2, GoodKept
<1>5. NothingYet'
  BY <1>0, <1>1 DEF NothingYet
<1>6. AllFair'
  <2>1. SaidFairly(e)'
    BY <1>1 DEF SaidFairly
  <2>2. ASSUME NEW o \in Evaluation, o # e, eval'[o].at \in {"flush", "reply"}
        PROVE  SaidFairly(o)'
    <3>1. eval'[o] = eval[o]
      BY <1>1, <2>2
    <3>2. Observes(o)' <=> Observes(o)
      BY <2>2 DEF Observes, Evaluation
    <3> QED BY <1>0, <1>3, <2>2, <3>1, <3>2, SaidStays
  <2> QED BY <2>1, <2>2 DEF AllFair
<1>7. Settled'
  <2>1. (Calm' <=> Calm) /\ (Quiet' <=> Quiet) /\ (Single' <=> Single)
        /\ (Grounded' <=> Grounded) /\ (Clean' <=> Clean)
        /\ (Scheduled' <=> Scheduled) /\ (Rested' <=> Rested)
    BY DEF Calm, Quiet, Single, Grounded, Clean, Scheduled, Rested
  <2>2. ASSUME Calm, Remembered PROVE Remembered'
    <3>1. ASSUME NEW o \in Evaluator, mem[Daemon] = NoEntry, eval'[o].at = "install"
          PROVE  eval'[o].known = told.last
      <4>1. CASE o = e
        BY <1>1, <2>2, <3>1, <4>1
      <4>2. CASE o # e
        BY <1>1, <2>2, <3>1, <4>2, Processes DEF Remembered
      <4> QED BY <4>1, <4>2
    <3> QED BY <2>1, <2>2, <3>1 DEF Remembered
  <2> QED BY <1>0, <2>1, <2>2 DEF Settled
<1> QED BY <1>2, <1>4, <1>5, <1>6, <1>7 DEF ReadCacheInv

LEMMA BeginsKeeps ==
  ASSUME ReadCacheInv, NEW e \in Evaluation, NEW place \in {"read", "decide"},
         NEW known \in Known, Begins(e, place, known),
         mode' \in Modes, mode'.daemon = mode.daemon,
         mode'.helper = mode.helper \/ e = Helper,
         GoodIn(known, Fair, Archived)
  PROVE  ReadCacheInv'
<1> DEFINE next == [IdleEval EXCEPT !.at = place, !.known = known]
<1>1. next \in Eval /\ next.at \in Undecided /\ next.at # "install" /\ next.known = known
      /\ next.text = NoText /\ next.reply = "full"
  BY DEF Eval, IdleEval, Reply, Undecided
<1>2. /\ eval' = [eval EXCEPT ![e] = next] /\ eval[e].at = "idle"
      /\ told' = [told EXCEPT !.calls = told.calls + 1]
      /\ UNCHANGED <<disk, mem, sleepers, flight, stored>>
  BY DEF Begins, EvalAt
<1>3. /\ told' \in Histories /\ told'.given = told.given /\ told'.evicted = told.evicted
      /\ told'.kinds = told.kinds /\ told'.last = told.last
  BY <1>2, TypeFacts DEF ReadCacheInv, Histories
<1>4. eval[e].text = NoText
  BY <1>2 DEF ReadCacheInv, NothingYet, Undecided
<1> HIDE DEF next
<1> QED BY <1>1, <1>2, <1>3, <1>4, EvalMoves

LEMMA LoadHitKeeps ==
  ASSUME ReadCacheInv, NEW e \in Evaluation, LoadHit(e)
  PROVE  ReadCacheInv'
<1> DEFINE entry == mem[ProcessOf(e)]
<1>1. entry # NoEntry /\ Begins(e, "decide", entry.known) /\ mode' = mode
  BY DEF LoadHit
<1>2. ProcessOf(e) \in CacheProcess /\ mode \in Modes /\ entry.known \in Known
  BY <1>1, TypeFacts, Processes DEF ReadCacheInv, Entry
<1>3. GoodIn(entry.known, Fair, Archived)
  BY <1>1, <1>2 DEF ReadCacheInv, AllGood, Has
<1> HIDE DEF entry
<1> QED BY <1>1, <1>2, <1>3, BeginsKeeps

LEMMA LoadMissKeeps ==
  ASSUME ReadCacheInv, NEW e \in Evaluation, LoadMiss(e)
  PROVE  ReadCacheInv'
<1>1. Begins(e, "read", Nothing)
  BY DEF LoadMiss
<1>2. mode \in Modes
  BY TypeFacts DEF ReadCacheInv
<1>3. /\ mode' \in Modes /\ mode'.daemon = mode.daemon
      /\ mode'.helper = mode.helper \/ e = Helper
  BY <1>2 DEF LoadMiss, Modes
<1> QED BY <1>1, <1>3, NothingType, NothingGood, BeginsKeeps

LEMMA ReadFailsKeeps ==
  ASSUME ReadCacheInv, NEW e \in Evaluation, NEW text \in Text, ReadFails(e, text)
  PROVE  ReadCacheInv'
<1> DEFINE old == eval[e]
           next == [old EXCEPT !.at = "reply", !.text = text]
<1>1. old \in Eval /\ old.known \in Known /\ mode \in Modes /\ told \in Histories
  BY TypeFacts DEF ReadCacheInv, Eval
<1>2. old.at = "read" /\ eval' = [eval EXCEPT ![e] = next]
      /\ UNCHANGED <<disk, mem, sleepers, flight, stored, mode, told>>
  BY DEF ReadFails, EvalAt
<1>3. old.text = NoText /\ old.reply = "full" /\ GoodIn(old.known, Fair, Archived)
  BY <1>1, <1>2 DEF ReadCacheInv, NothingYet, Undecided, AllGood, Has
<1>4. eval[e].text = NoText
  BY <1>3
<1> HIDE DEF old
<1>5. next \in Eval /\ next.at = "reply" /\ next.known = old.known /\ next.reply = old.reply
      /\ next.text # NoText
  BY <1>1, ReadCacheAssumption DEF Eval
<1> HIDE DEF next
<1> QED BY <1>1, <1>2, <1>3, <1>4, <1>5, EvalMoves DEF Undecided

LEMMA ReadDiskKeeps ==
  ASSUME ReadCacheInv, NEW e \in Evaluation, ReadDisk(e)
  PROVE  ReadCacheInv'
<1> DEFINE old == eval[e]
           next == [old EXCEPT !.at = "install", !.known = disk]
<1>1. old \in Eval /\ mode \in Modes /\ told \in Histories
  BY TypeFacts DEF ReadCacheInv
<1>2. old.at = "read" /\ eval' = [eval EXCEPT ![e] = next] /\ disk \notin {Emptied, Torn}
      /\ UNCHANGED <<disk, mem, sleepers, flight, stored, mode, told>>
  BY DEF ReadDisk, EvalAt
<1>3. old.text = NoText /\ old.reply = "full"
  BY <1>2 DEF ReadCacheInv, NothingYet, Undecided
<1>4. disk \in Known
  BY <1>2, TypeFacts DEF ReadCacheInv
<1>5. GoodIn(disk, Fair, Archived)
  BY <1>2, <1>4 DEF ReadCacheInv, AllGood, Has
<1>6. Calm /\ mem[Daemon] = NoEntry => disk = told.last
  BY <1>2 DEF ReadCacheInv, Settled, Remembered, Clean
<1>7. eval[e].text = NoText
  BY <1>3
<1> HIDE DEF old
<1>8. next \in Eval /\ next.known = disk /\ next.text = old.text /\ next.reply = old.reply
      /\ next.at \in Undecided
  BY <1>1, <1>4 DEF Eval, Undecided
<1> HIDE DEF next
<1> QED BY <1>1, <1>2, <1>3, <1>5, <1>6, <1>7, <1>8, EvalMoves

LEMMA InstallKeeps ==
  ASSUME ReadCacheInv, NEW e \in Evaluation, InstallEntry(e)
  PROVE  ReadCacheInv'
<1> DEFINE p == ProcessOf(e)
           known == eval[e].known
           new == CleanEntry(known)
           old == eval[e]
<1>0. ReadCacheTypeOK /\ AllGood /\ NothingYet /\ AllFair /\ Settled
  BY DEF ReadCacheInv
<1>1. /\ eval[e].at = "install" /\ mem' = [mem EXCEPT ![p] = new]
      /\ eval' = [eval EXCEPT ![e] = [old EXCEPT !.at = "decide"]]
      /\ told' = [told EXCEPT !.kinds = Kinds("reinstalled", mem[p] # NoEntry /\ mem[p] # new)]
      /\ UNCHANGED <<disk, sleepers, flight, stored, mode>>
  BY DEF InstallEntry, EvalAt
<1>2. /\ p \in CacheProcess /\ eval[e] \in Eval /\ known \in Known /\ old \in Eval
      /\ mem \in [CacheProcess -> Entry \cup {NoEntry}] /\ eval \in [Evaluation -> Eval]
  BY <1>0, TypeFacts, Processes DEF Eval
<1>3. new \in Entry /\ new.known = known /\ ~new.dirty /\ ~new.scheduled /\ new # NoEntry
  BY <1>2, EntryType, ReadCacheAssumption
<1>4. known = old.known
  OBVIOUS
<1> HIDE DEF new, known, old
<1> DEFINE next == [old EXCEPT !.at = "decide"]
<1>5. next \in Eval /\ next.at = "decide" /\ next.text = old.text /\ next.known = old.known
      /\ next.reply = old.reply
  BY <1>2 DEF Eval
<1> HIDE DEF next, p
<1>6. /\ mem' \in [CacheProcess -> Entry \cup {NoEntry}] /\ mem'[p] = new
      /\ \A q \in CacheProcess \ {p} : mem'[q] = mem[q]
      /\ eval' \in [Evaluation -> Eval] /\ eval'[e] = next
      /\ \A o \in Evaluation \ {e} : eval'[o] = eval[o]
  BY <1>1, <1>2, <1>3, <1>5 DEF next
<1>7. /\ told' \in Histories /\ told'.given = told.given /\ told'.evicted = told.evicted
      /\ told'.last = told.last /\ told.kinds \subseteq told'.kinds
      /\ mem[p] # NoEntry /\ mem[p] # new => "reinstalled" \in told'.kinds
  <2> DEFINE kinds == Kinds("reinstalled", mem[p] # NoEntry /\ mem[p] # new)
  <2>1. kinds \in SUBSET Accidents /\ told.kinds \subseteq kinds
        /\ (mem[p] # NoEntry /\ mem[p] # new => "reinstalled" \in kinds)
    BY <1>0, TypeFacts DEF Kinds, Histories, Accidents
  <2> HIDE DEF kinds
  <2>2. told' = [told EXCEPT !.kinds = kinds]
    BY <1>1 DEF kinds
  <2> QED BY <1>0, <2>1, <2>2, TypeFacts DEF Histories
<1>8. ReadCacheTypeOK'
  BY <1>0, <1>1, <1>6, <1>7, TypeFacts, TypeBack
<1>9. old = eval[e] /\ old.text = NoText /\ old.reply = "full"
  BY <1>0, <1>1 DEF old, NothingYet, Undecided
<1>10. Growing
  BY <1>1, <1>6, <1>7, <1>9, <1>5 DEF Growing, Archived
<1>11. AllGood'
  <2>1. Has(known)
    BY <1>4, <1>9 DEF Has
  <2>2. ASSUME NEW k \in Known, Has(k)' PROVE Has(k) \/ k = known
    <3>1. CASE \E q \in CacheProcess : mem'[q] # NoEntry /\ k = mem'[q].known
      BY <1>3, <1>6, <3>1 DEF Has
    <3>2. CASE \E o \in Evaluation : k = eval'[o].known
      BY <1>4, <1>5, <1>6, <3>2 DEF Has
    <3> QED BY <1>1, <2>2, <3>1, <3>2 DEF Has
  <2> QED BY <1>0, <1>10, <2>1, <2>2, GoodKept
<1>12. NothingYet'
  BY <1>0, <1>5, <1>6, <1>9 DEF NothingYet, Undecided
<1>13. AllFair'
  <2> SUFFICES ASSUME NEW o \in Evaluation, eval'[o].at \in {"flush", "reply"}
               PROVE  SaidFairly(o)'
    BY DEF AllFair
  <2>1. o # e /\ eval'[o] = eval[o]
    BY <1>5, <1>6
  <2>2. Observes(o)' <=> Observes(o)
    BY <1>1 DEF Observes
  <2> QED BY <1>0, <1>10, <2>1, <2>2, SaidStays
<1>14. Settled'
  <2>0. (Calm' => Calm) /\ (Quiet' => Quiet)
        /\ (mode.daemon = "clearing" => "cleared" \in told'.kinds)
    BY <1>0, <1>7 DEF Settled, Calm, Quiet
  <2>1. CASE mem[Daemon] # NoEntry \/ p # Daemon
    <3>1. Calm' \/ Quiet' => mem'[Daemon] = mem[Daemon]
      BY <1>6, <1>7, <2>1, Processes DEF Calm, Quiet
    <3>2. \A o \in Evaluator : eval'[o].at = "install" => eval'[o] = eval[o]
      BY <1>5, <1>6, Processes
    <3>3. ASSUME Calm' PROVE Single' /\ Grounded' /\ Remembered'
      BY <1>0, <1>1, <1>7, <2>0, <3>1, <3>2, <3>3
      DEF Settled, Single, Grounded, Remembered, Clean
    <3>4. ASSUME Quiet' PROVE Scheduled' /\ Rested'
      BY <1>0, <1>1, <1>7, <2>0, <3>1, <3>4 DEF Settled, Scheduled, Rested, Clean
    <3> QED BY <1>1, <2>0, <3>3, <3>4 DEF Settled
  <2>2. CASE mem[Daemon] = NoEntry /\ p = Daemon
    <3>1. mem'[Daemon] = new /\ e \in Evaluator
      BY <1>6, <2>2, Processes DEF p
    <3>2. Calm => known = told.last
      BY <1>0, <1>1, <1>4, <1>9, <2>2, <3>1 DEF Settled, Remembered
    <3>3. Calm => \A f \in flight : f.process # Daemon
      BY <1>0, <2>2 DEF Settled, Grounded
    <3>4. Clean
      BY <2>2 DEF Clean
    <3>5. ASSUME Calm' PROVE Single' /\ Grounded' /\ Remembered'
      <4>1. Single' /\ Grounded'
        BY <1>0, <1>1, <2>0, <3>3, <3>5 DEF Settled, Single, Grounded
      <4>2. Remembered'
        BY <1>0, <1>1, <1>3, <1>7, <2>0, <3>1, <3>2, <3>4, <3>5 DEF Settled, Remembered
      <4> QED BY <4>1, <4>2
    <3>6. ASSUME Quiet' PROVE Scheduled' /\ Rested'
      BY <1>0, <1>1, <1>3, <1>7, <2>0, <3>1, <3>4, <3>6 DEF Settled, Scheduled, Rested
    <3> QED BY <1>1, <2>0, <3>5, <3>6 DEF Settled
  <2> QED BY <2>1, <2>2
<1> QED BY <1>8, <1>11, <1>12, <1>13, <1>14 DEF ReadCacheInv

-----------------------------------------------------------------------------
(* Flushing.                                                               *)

(* An evaluation at most goes on to answer.                                *)
OnlyGoesOn ==
  \A e \in Evaluation :
    /\ eval'[e].text = eval[e].text /\ eval'[e].known = eval[e].known
    /\ eval'[e].reply = eval[e].reply /\ eval'[e].names = eval[e].names
    /\ \/ eval'[e].at = eval[e].at
       \/ eval[e].at = "flush" /\ eval'[e].at = "reply"

LEMMA TakesKeeps ==
  ASSUME ReadCacheInv, NEW p \in CacheProcess, NEW by \in {"timer", "caller"}, Takes(p, by),
         UNCHANGED <<disk, stored>>,
         sleepers' \in [CacheProcess -> Nat],
         p # Daemon => sleepers'[Daemon] = sleepers[Daemon],
         eval' \in [Evaluation -> Eval], OnlyGoesOn,
         mode' \in Modes, mode'.helper = mode.helper,
         mode'.daemon \in {mode.daemon, "stopping"}
  PROVE  ReadCacheInv'
<1> DEFINE taken == mem[p] # NoEntry /\ mem[p].dirty
           new == [process |-> p, known |-> mem[p].known, by |-> by,
                   version |-> mem[p].version, at |-> "open"]
<1>0. ReadCacheTypeOK /\ AllGood /\ NothingYet /\ AllFair /\ Settled
  BY DEF ReadCacheInv
<1>1. /\ mem \in [CacheProcess -> Entry \cup {NoEntry}] /\ flight \in SUBSET Flight
      /\ told \in Histories
  BY <1>0, TypeFacts
<1>2. /\ flight' = IF taken THEN flight \cup {new} ELSE flight
      /\ told' = IF taken THEN [told EXCEPT !.kinds = Kinds("overtaken", flight # {})] ELSE told
      /\ taken => mem' = [mem EXCEPT ![p].dirty = FALSE, ![p].scheduled = FALSE]
      /\ ~taken => mem' = IF mem[p] = NoEntry THEN mem ELSE [mem EXCEPT ![p].scheduled = FALSE]
  BY DEF Takes
<1>3. taken => /\ new \in Flight /\ new.process = p /\ new.known = mem[p].known
               /\ new.version = mem[p].version /\ new.at = "open"
  BY <1>1 DEF Flight, Entry
<1>4. /\ mem' \in [CacheProcess -> Entry \cup {NoEntry}]
      /\ \A q \in CacheProcess \ {p} : mem'[q] = mem[q]
      /\ mem[p] = NoEntry => mem'[p] = NoEntry
      /\ mem[p] # NoEntry =>
           /\ mem'[p] \in Entry /\ mem'[p] # NoEntry
           /\ mem'[p].known = mem[p].known /\ mem'[p].version = mem[p].version
           /\ ~mem'[p].dirty /\ ~mem'[p].scheduled
  <2>1. CASE mem[p] = NoEntry
    BY <1>1, <1>2, <2>1
  <2>2. CASE mem[p] # NoEntry
    <3> DEFINE old == mem[p]
               next == [old EXCEPT !.dirty = FALSE, !.scheduled = FALSE]
    <3>1. old \in Entry
      BY <1>1, <2>2
    <3>2. mem' = [mem EXCEPT ![p] = next]
      <4>1. CASE taken
        BY <1>2, <4>1
      <4>2. CASE ~taken
        <5>1. mem' = [mem EXCEPT ![p] = [old EXCEPT !.scheduled = FALSE]]
          BY <1>2, <2>2, <4>2
        <5>2. old.dirty = FALSE
          BY <3>1, <2>2, <4>2 DEF Entry
        <5> HIDE DEF old
        <5>3. [old EXCEPT !.scheduled = FALSE] = next
          BY <3>1, <5>2 DEF Entry
        <5> QED BY <5>1, <5>3
      <4> QED BY <4>1, <4>2
    <3> HIDE DEF old
    <3>3. next \in Entry /\ next.known = old.known /\ next.version = old.version
          /\ ~next.dirty /\ ~next.scheduled
      BY <3>1 DEF Entry
    <3> HIDE DEF next
    <3>4. next # NoEntry
      BY <3>3, ReadCacheAssumption
    <3>5. mem'[p] = next /\ \A q \in CacheProcess \ {p} : mem'[q] = mem[q]
      BY <1>1, <3>2
    <3>6. mem' \in [CacheProcess -> Entry \cup {NoEntry}]
      BY <1>1, <3>2, <3>3
    <3> QED BY <2>2, <3>3, <3>4, <3>5, <3>6 DEF old
  <2> QED BY <2>1, <2>2
<1>5. /\ told' \in Histories /\ told'.given = told.given /\ told'.evicted = told.evicted
      /\ told'.last = told.last /\ told.kinds \subseteq told'.kinds
      /\ taken /\ flight # {} => "overtaken" \in told'.kinds
  <2> DEFINE kinds == Kinds("overtaken", flight # {})
  <2>1. kinds \in SUBSET Accidents /\ told.kinds \subseteq kinds
        /\ (flight # {} => "overtaken" \in kinds)
    BY <1>1 DEF Kinds, Histories, Accidents
  <2>2. told' = IF taken THEN [told EXCEPT !.kinds = kinds] ELSE told
    BY <1>2
  <2> HIDE DEF kinds, taken
  <2> QED BY <1>1, <2>1, <2>2 DEF Histories
<1> HIDE DEF taken, new
<1>6. ReadCacheTypeOK'
  <2>1. flight' \in SUBSET Flight
    BY <1>1, <1>2, <1>3
  <2> QED BY <1>0, <1>4, <1>5, <2>1, TypeFacts, TypeBack
<1>7. Growing
  BY <1>5 DEF Growing, Archived, OnlyGoesOn
<1>8. AllGood'
  <2>1. ASSUME NEW k \in Known, Has(k)' PROVE Has(k)
    <3>1. CASE \E q \in CacheProcess : mem'[q] # NoEntry /\ k = mem'[q].known
      <4>1. PICK q \in CacheProcess : mem'[q] # NoEntry /\ k = mem'[q].known
        BY <3>1
      <4>2. mem[q] # NoEntry /\ k = mem[q].known
        BY <1>4, <4>1
      <4> QED BY <4>2 DEF Has
    <3>2. CASE \E f \in flight' : k = f.known
      <4>1. PICK f \in flight' : k = f.known
        BY <3>2
      <4>2. CASE f \in flight
        BY <4>1, <4>2 DEF Has
      <4>3. CASE f \notin flight
        <5>1. taken /\ k = mem[p].known
          BY <1>2, <1>3, <4>1, <4>3
        <5> QED BY <5>1 DEF Has, taken
      <4> QED BY <4>2, <4>3
    <3>3. CASE \E e \in Evaluation : k = eval'[e].known
      BY <3>3 DEF Has, OnlyGoesOn
    <3> QED BY <2>1, <3>1, <3>2, <3>3 DEF Has
  <2> QED BY <1>0, <1>7, <2>1, GoodKept
<1>9. NothingYet'
  BY <1>0 DEF NothingYet, Undecided, OnlyGoesOn
<1>10. AllFair'
  <2> SUFFICES ASSUME NEW e \in Evaluation, eval'[e].at \in {"flush", "reply"}
               PROVE  SaidFairly(e)'
    BY DEF AllFair
  <2>1. /\ eval[e].at \in {"flush", "reply"}
        /\ eval'[e].text = eval[e].text /\ eval'[e].names = eval[e].names
        /\ eval'[e].reply = eval[e].reply
    BY DEF OnlyGoesOn
  <2>2. Observes(e)' <=> Observes(e)
    BY DEF Observes
  <2> QED BY <1>0, <1>7, <2>1, <2>2, SaidStays
<1>11. Settled'
  <2>0. /\ Calm' => Calm /\ Single /\ Grounded /\ Remembered
        /\ Quiet' => Quiet /\ Scheduled /\ Rested
        /\ mode'.daemon = "clearing" => "cleared" \in told'.kinds
    BY <1>0, <1>5 DEF Settled, Calm, Quiet
  <2>1. \A e \in Evaluator : eval'[e].at = "install" =>
          eval[e].at = "install" /\ eval'[e].known = eval[e].known
    BY Processes DEF OnlyGoesOn
  <2>2. Calm' /\ taken => flight = {}
    BY <1>5 DEF Calm
  <2>3. Clean' => Clean
    <3>1. CASE p = Daemon
      BY <1>2, <1>3, <1>4, <3>1 DEF Clean, taken
    <3>2. CASE p # Daemon
      <4>1. mem'[Daemon] = mem[Daemon] /\ flight \subseteq flight'
        BY <1>2, <1>4, <3>2, Processes
      <4> QED BY <4>1 DEF Clean
    <3> QED BY <3>1, <3>2
  <2>4. /\ mem'[Daemon] = NoEntry <=> mem[Daemon] = NoEntry
        /\ mem[Daemon] # NoEntry => /\ mem'[Daemon].known = mem[Daemon].known
                                    /\ mem'[Daemon].version = mem[Daemon].version
    <3>1. CASE p = Daemon
      BY <1>4, <3>1
    <3>2. CASE p # Daemon
      BY <1>4, <3>2, Processes
    <3> QED BY <3>1, <3>2
  <2>5. ASSUME Calm' PROVE Single' /\ Grounded' /\ Remembered'
    <3>1. Single'
      BY <1>2, <2>0, <2>2, <2>5 DEF Single
    <3>2. Grounded'
      <4> SUFFICES ASSUME NEW f \in flight'
                   PROVE  /\ f.at # "lost"
                          /\ f.at = "fill" => disk = Emptied
                          /\ f.at = "done" => f.process = Daemon /\ disk = f.known
                          /\ f.process = Daemon =>
                               /\ mem'[Daemon] # NoEntry /\ f.version <= mem'[Daemon].version
                               /\ f.version = mem'[Daemon].version => f.known = mem'[Daemon].known
                               /\ f.version # mem'[Daemon].version => mem'[Daemon].dirty
        BY DEF Grounded
      <4>1. CASE f \in flight
        <5>1. ~taken
          BY <2>2, <2>5, <4>1
        <5>2. f.process = Daemon /\ f.version # mem[Daemon].version => p # Daemon
          <6>1. f.process = Daemon => mem[Daemon] # NoEntry
            BY <2>0, <2>5, <4>1 DEF Grounded
          <6>2. f.process = Daemon /\ f.version # mem[Daemon].version => mem[Daemon].dirty
            BY <2>0, <2>5, <4>1 DEF Grounded
          <6> QED BY <5>1, <6>1, <6>2 DEF taken
        <5>3. p # Daemon => mem'[Daemon] = mem[Daemon]
          BY <1>4, Processes
        <5> QED BY <2>0, <2>4, <2>5, <4>1, <5>2, <5>3 DEF Grounded
      <4>2. CASE f \notin flight
        <5>1. taken /\ f = new
          BY <1>2, <4>2
        <5>2. /\ f.at = "open" /\ f.process = p /\ f.known = mem[p].known
              /\ f.version = mem[p].version
          BY <1>3, <5>1
        <5>3. mem[p] # NoEntry /\ mem[p].version \in Nat
          BY <1>1, <5>1 DEF taken, Entry
        <5> QED BY <2>4, <5>2, <5>3
      <4> QED BY <4>1, <4>2
    <3>3. Remembered'
      BY <1>5, <2>0, <2>1, <2>3, <2>4, <2>5 DEF Remembered
    <3> QED BY <3>1, <3>2, <3>3
  <2>6. ASSUME Quiet' PROVE Scheduled' /\ Rested'
    <3>1. Scheduled'
      <4>1. CASE p = Daemon
        BY <1>4, <2>4, <4>1 DEF Scheduled
      <4>2. CASE p # Daemon
        <5>1. mem'[Daemon] = mem[Daemon]
          BY <1>4, <4>2, Processes
        <5> QED BY <2>0, <2>6, <4>2, <5>1 DEF Scheduled
      <4> QED BY <4>1, <4>2
    <3>2. flight \subseteq flight'
      BY <1>2
    <3>3. Rested'
      BY <1>5, <2>0, <2>3, <2>6, <3>2 DEF Rested
    <3> QED BY <3>1, <3>3
  <2> QED BY <2>0, <2>5, <2>6 DEF Settled
<1> QED BY <1>6, <1>8, <1>9, <1>10, <1>11 DEF ReadCacheInv

LEMMA TimerKeeps ==
  ASSUME ReadCacheInv, NEW p \in CacheProcess, TimerFlush(p)
  PROVE  ReadCacheInv'
<1>1. /\ Takes(p, "timer") /\ sleepers[p] > 0
      /\ sleepers' = [sleepers EXCEPT ![p] = sleepers[p] - 1]
      /\ UNCHANGED <<disk, eval, stored, mode>>
  BY DEF TimerFlush
<1>2. /\ sleepers \in [CacheProcess -> Nat] /\ eval \in [Evaluation -> Eval] /\ mode \in Modes
  BY TypeFacts DEF ReadCacheInv
<1>3. sleepers[p] - 1 \in Nat
  BY <1>1, <1>2
<1>4. sleepers' \in [CacheProcess -> Nat] /\ (p # Daemon => sleepers'[Daemon] = sleepers[Daemon])
  BY <1>1, <1>2, <1>3, Processes
<1>5. OnlyGoesOn
  BY <1>1 DEF OnlyGoesOn
<1> QED BY <1>1, <1>2, <1>4, <1>5, TakesKeeps

LEMMA WrapperFlushKeeps == ASSUME ReadCacheInv, WrapperFlush PROVE ReadCacheInv'
<1>1. /\ Takes(Helper, "caller") /\ eval[Helper].at = "flush"
      /\ eval' = [eval EXCEPT ![Helper].at = "reply"]
      /\ UNCHANGED <<disk, sleepers, stored, mode>>
  BY DEF WrapperFlush, EvalAt
<1>2. /\ sleepers \in [CacheProcess -> Nat] /\ eval \in [Evaluation -> Eval] /\ mode \in Modes
  BY TypeFacts DEF ReadCacheInv
<1> DEFINE old == eval[Helper]
           next == [old EXCEPT !.at = "reply"]
<1>3. old \in Eval
  BY <1>2, Processes
<1>4. eval' = [eval EXCEPT ![Helper] = next]
  BY <1>1
<1> HIDE DEF old
<1>5. /\ next \in Eval /\ next.at = "reply" /\ next.text = old.text /\ next.known = old.known
      /\ next.reply = old.reply /\ next.names = old.names
  BY <1>3 DEF Eval
<1> HIDE DEF next
<1>6. /\ eval' \in [Evaluation -> Eval] /\ eval'[Helper] = next
      /\ \A e \in Evaluation \ {Helper} : eval'[e] = eval[e]
  BY <1>2, <1>4, <1>5, Processes
<1>7. OnlyGoesOn
  <2>1. next.text = eval[Helper].text /\ next.known = eval[Helper].known
        /\ next.reply = eval[Helper].reply /\ next.names = eval[Helper].names
    BY <1>5 DEF old
  <2> QED BY <1>1, <1>5, <1>6, <2>1 DEF OnlyGoesOn
<1> QED BY <1>1, <1>2, <1>6, <1>7, Processes, TakesKeeps

LEMMA ShutdownFlushKeeps == ASSUME ReadCacheInv, ShutdownFlush PROVE ReadCacheInv'
<1>1. /\ Takes(Daemon, "caller") /\ mode' = [mode EXCEPT !.daemon = "stopping"]
      /\ UNCHANGED <<disk, sleepers, eval, stored>>
  BY DEF ShutdownFlush
<1>2. /\ sleepers \in [CacheProcess -> Nat] /\ eval \in [Evaluation -> Eval] /\ mode \in Modes
  BY TypeFacts DEF ReadCacheInv
<1>3. mode' \in Modes /\ mode'.helper = mode.helper /\ mode'.daemon = "stopping"
  BY <1>1, <1>2 DEF Modes
<1>4. OnlyGoesOn
  BY <1>1 DEF OnlyGoesOn
<1> QED BY <1>1, <1>2, <1>3, <1>4, Processes, TakesKeeps

(* An error turns what is kept back into the text.                         *)
LEMMA RecordFailsKeeps ==
  ASSUME ReadCacheInv, NEW e \in Evaluation, RecordFails(e)
  PROVE  ReadCacheInv'
<1> DEFINE old == eval[e]
           next == [old EXCEPT !.at = "reply", !.reply = "full"]
<1>0. ReadCacheTypeOK /\ AllGood /\ NothingYet /\ AllFair /\ Settled
  BY DEF ReadCacheInv
<1>1. /\ old.at \in {"flush", "reply"}
      /\ eval' = [eval EXCEPT ![e] = next]
      /\ told' = [told EXCEPT !.upsets = told.upsets + 1]
      /\ UNCHANGED <<disk, mem, sleepers, flight, stored, mode>>
  BY DEF RecordFails, EvalAt
<1>2. old \in Eval /\ eval \in [Evaluation -> Eval] /\ told \in Histories
  BY <1>0, TypeFacts
<1>3. old = eval[e]
  OBVIOUS
<1> HIDE DEF old
<1>4. /\ next \in Eval /\ next.at = "reply" /\ next.reply = "full" /\ next.text = old.text
      /\ next.known = old.known /\ next.names = old.names
  BY <1>2 DEF Eval, Reply
<1> HIDE DEF next
<1>5. /\ eval' \in [Evaluation -> Eval] /\ eval'[e] = next
      /\ \A o \in Evaluation \ {e} : eval'[o] = eval[o]
  BY <1>1, <1>2, <1>4
<1>6. \A o \in Evaluation :
        /\ eval'[o].text = eval[o].text /\ eval'[o].known = eval[o].known
        /\ eval'[o].names = eval[o].names /\ eval'[o].reply \in {eval[o].reply, "full"}
        /\ \/ eval'[o].at = eval[o].at
           \/ eval[o].at = "flush" /\ eval'[o].at = "reply"
  BY <1>1, <1>3, <1>4, <1>5
<1>7. /\ told' \in Histories /\ told'.given = told.given /\ told'.evicted = told.evicted
      /\ told'.last = told.last /\ told'.kinds = told.kinds
  <2> DEFINE upsets == told.upsets + 1
  <2>1. upsets \in Nat /\ told' = [told EXCEPT !.upsets = upsets]
    BY <1>1, <1>2, Counted
  <2> HIDE DEF upsets
  <2> QED BY <1>2, <2>1 DEF Histories
<1>8. ReadCacheTypeOK'
  BY <1>0, <1>1, <1>5, <1>7, TypeFacts, TypeBack
<1>9. Growing
  BY <1>1, <1>6, <1>7 DEF Growing, Archived
<1>10. AllGood'
  <2>1. ASSUME NEW k \in Known, Has(k)' PROVE Has(k)
    BY <1>1, <1>6, <2>1 DEF Has
  <2> QED BY <1>0, <1>9, <2>1, GoodKept
<1>11. NothingYet'
  BY <1>0, <1>6 DEF NothingYet, Undecided
<1>12. AllFair'
  <2> SUFFICES ASSUME NEW o \in Evaluation, eval'[o].at \in {"flush", "reply"}
               PROVE  SaidFairly(o)'
    BY DEF AllFair
  <2>1. Observes(o)' <=> Observes(o)
    BY <1>1 DEF Observes
  <2>2. eval[o].at \in {"flush", "reply"}
    BY <1>6
  <2> QED BY <1>0, <1>6, <1>9, <2>1, <2>2, SaidStays
<1>13. Settled'
  <2>1. \A o \in Evaluator : eval'[o].at = "install" => /\ eval[o].at = "install"
                                                      /\ eval'[o].known = eval[o].known
    BY <1>6, Processes
  <2>2. (Calm' <=> Calm) /\ (Quiet' <=> Quiet) /\ (Single' <=> Single)
        /\ (Grounded' <=> Grounded) /\ (Clean' <=> Clean)
        /\ (Scheduled' <=> Scheduled) /\ (Rested' <=> Rested)
    BY <1>1, <1>7 DEF Calm, Quiet, Single, Grounded, Clean, Scheduled, Rested
  <2>3. Remembered => Remembered'
    BY <1>1, <1>7, <2>1, <2>2 DEF Remembered
  <2> QED BY <1>0, <1>1, <1>7, <2>2, <2>3 DEF Settled
<1> QED BY <1>8, <1>10, <1>11, <1>12, <1>13 DEF ReadCacheInv

LEMMA FlightsGo ==
  ASSUME ReadCacheInv, NEW f \in flight, NEW place \in {"fill", "done"}, FlightGoes(f, place)
  PROVE  \E g \in Flight :
           /\ flight' = (flight \ {f}) \cup {g} /\ g.at = place
           /\ g.process = f.process /\ g.known = f.known /\ g.version = f.version
<1> DEFINE g == [f EXCEPT !.at = place]
<1>1. f \in Flight
  BY TypeFacts DEF ReadCacheInv
<1>2. g \in Flight /\ g.at = place /\ g.process = f.process /\ g.known = f.known
      /\ g.version = f.version
  BY <1>1 DEF Flight
<1> QED BY <1>2 DEF FlightGoes

(* A flush that goes on, while the memories stay as they are.              *)
LEMMA WritesKeep ==
  ASSUME ReadCacheInv, NEW f \in flight, OpenDisk(f) \/ FillDisk(f) \/ FillUnlinked(f)
  PROVE  ReadCacheInv'
<1>0. ReadCacheTypeOK /\ AllGood /\ NothingYet /\ AllFair /\ Settled
  BY DEF ReadCacheInv
<1>1. UNCHANGED <<mem, sleepers, eval, stored, mode>>
  BY DEF OpenDisk, FillDisk, FillUnlinked
<1>2. f \in Flight /\ f.known \in Known /\ told \in Histories
  BY <1>0, TypeFacts DEF Flight
<1>3. /\ told' \in Histories /\ told'.given = told.given /\ told'.evicted = told.evicted
      /\ told'.last = told.last /\ told.kinds \subseteq told'.kinds
      /\ FillDisk(f) /\ f.process = Helper => "foreign" \in told'.kinds
  <2>1. CASE OpenDisk(f)
    BY <1>2, <2>1 DEF OpenDisk, FillDisk
  <2>2. CASE FillDisk(f)
    <3> DEFINE kinds == Kinds("foreign", f.process = Helper)
    <3>1. kinds \in SUBSET Accidents /\ told.kinds \subseteq kinds
          /\ (f.process = Helper => "foreign" \in kinds)
      BY <1>2 DEF Kinds, Histories, Accidents
    <3>2. told' = [told EXCEPT !.kinds = kinds]
      BY <2>2 DEF FillDisk
    <3> HIDE DEF kinds
    <3> QED BY <1>2, <3>1, <3>2 DEF Histories
  <2>3. CASE FillUnlinked(f)
    BY <1>2, <2>3 DEF FillUnlinked, FillDisk
  <2> QED BY <2>1, <2>2, <2>3
<1>4. PICK g \in Flight :
        /\ flight' = (flight \ {f}) \cup {g} /\ g.at = IF OpenDisk(f) THEN "fill" ELSE "done"
        /\ g.process = f.process /\ g.known = f.known /\ g.version = f.version
  <2>1. CASE OpenDisk(f)
    BY <2>1, FlightsGo DEF OpenDisk
  <2>2. CASE ~OpenDisk(f)
    BY <2>2, FlightsGo DEF FillDisk, FillUnlinked
  <2> QED BY <2>1, <2>2
<1>5. /\ OpenDisk(f) => disk' = Emptied /\ f.at = "open"
      /\ f.at = "lost" => disk' = disk
      /\ ~OpenDisk(f) /\ f.at # "lost" =>
           /\ f.at = "fill" /\ FillDisk(f)
           /\ disk' \in IF disk = Emptied THEN {f.known} ELSE {f.known, Torn}
  BY DEF OpenDisk, FillDisk, FillUnlinked
<1>6. ReadCacheTypeOK'
  <2>1. disk' \in Known \cup {Emptied, Torn} /\ flight' \in SUBSET Flight
    BY <1>0, <1>2, <1>4, <1>5, TypeFacts
  <2> QED BY <1>0, <1>1, <1>3, <2>1, TypeFacts, TypeBack
<1>7. Growing
  BY <1>1, <1>3 DEF Growing, Archived
<1>8. AllGood'
  <2>1. Has(f.known)
    BY DEF Has
  <2>2. ASSUME NEW k \in Known, Has(k)' PROVE Has(k)
    <3>1. CASE disk' \notin {Emptied, Torn} /\ k = disk'
      <4>1. CASE f.at = "lost"
        BY <1>5, <3>1, <4>1 DEF Has
      <4>2. CASE f.at # "lost"
        BY <1>5, <2>1, <3>1, <4>2
      <4> QED BY <4>1, <4>2
    <3>2. CASE \E h \in flight' : k = h.known
      <4>1. \E h \in flight : k = h.known
        BY <1>4, <3>2
      <4> QED BY <4>1 DEF Has
    <3> QED BY <1>1, <2>2, <3>1, <3>2 DEF Has
  <2> QED BY <1>0, <1>7, <2>2, GoodKept
<1>9. NothingYet'
  BY <1>0, <1>1 DEF NothingYet
<1>10. AllFair'
  <2> SUFFICES ASSUME NEW e \in Evaluation, eval'[e].at \in {"flush", "reply"}
               PROVE  SaidFairly(e)'
    BY DEF AllFair
  <2>1. Observes(e)' <=> Observes(e)
    BY <1>1 DEF Observes
  <2> QED BY <1>0, <1>1, <1>7, <2>1, SaidStays
<1>11. Settled'
  <2>0. /\ Calm' => Calm /\ Single /\ Grounded /\ Remembered
        /\ Quiet' => Quiet /\ Scheduled /\ Rested
        /\ mode'.daemon = "clearing" => "cleared" \in told'.kinds
    BY <1>0, <1>1, <1>3 DEF Settled, Calm, Quiet
  <2>1. Quiet' => Calm'
    BY DEF Quiet, Calm
  <2>2. Calm' => flight' = {g}
    BY <1>4, <2>0 DEF Single
  <2>3. Clean' <=> Clean
    BY <1>1, <1>4 DEF Clean
  <2>4. Calm' => (Clean => f.process # Daemon) /\ f.at # "lost"
    BY <2>0 DEF Clean, Grounded
  <2>5. CASE OpenDisk(f)
    <3>1. ASSUME Calm' PROVE Single' /\ Grounded' /\ Remembered'
      BY <1>1, <1>3, <1>4, <1>5, <2>0, <2>2, <2>3, <2>5, <3>1
      DEF Single, Grounded, Remembered
    <3>2. ASSUME Quiet' PROVE Scheduled' /\ Rested'
      BY <1>1, <1>4, <2>0, <2>5, <3>2 DEF Scheduled, Rested
    <3> QED BY <2>0, <3>1, <3>2 DEF Settled
  <2>6. CASE ~OpenDisk(f)
    <3>1. Calm' => /\ f.process = Daemon /\ disk = Emptied /\ disk' = f.known /\ ~Clean
                   /\ g.at = "done"
      <4>1. Calm' => f.process # Helper
        BY <1>3, <1>5, <2>4, <2>6 DEF Calm
      <4>2. f.process \in {Daemon, Helper}
        BY <1>2 DEF Flight, CacheProcess
      <4>3. Calm' => disk = Emptied
        BY <1>5, <2>0, <2>4, <2>6 DEF Grounded
      <4> QED BY <1>4, <1>5, <2>4, <2>6, <4>1, <4>2, <4>3
    <3>2. ASSUME Calm' PROVE Single' /\ Grounded' /\ Remembered'
      BY <1>1, <1>3, <1>4, <2>0, <2>2, <2>3, <3>1, <3>2 DEF Single, Grounded, Remembered
    <3>3. ASSUME Quiet' PROVE Scheduled' /\ Rested'
      BY <1>1, <2>0, <2>1, <2>3, <3>1, <3>3 DEF Scheduled, Rested
    <3> QED BY <2>0, <3>2, <3>3 DEF Settled
  <2> QED BY <2>5, <2>6
<1> QED BY <1>6, <1>8, <1>9, <1>10, <1>11 DEF ReadCacheInv

LEMMA FlushDoneKeeps ==
  ASSUME ReadCacheInv, NEW f \in flight, FlushDone(f)
  PROVE  ReadCacheInv'
<1> DEFINE p == f.process
           new == [known |-> f.known, dirty |-> FALSE, scheduled |-> FALSE,
                   version |-> mem[p].version]
<1>0. ReadCacheTypeOK /\ AllGood /\ NothingYet /\ AllFair /\ Settled
  BY DEF ReadCacheInv
<1>1. /\ f.at = "done" /\ flight' = flight \ {f}
      /\ mem' = IF SameVersion(f) THEN [mem EXCEPT ![p] = new] ELSE mem
      /\ UNCHANGED <<disk, sleepers, eval, stored, mode, told>>
  BY DEF FlushDone
<1>2. /\ f \in Flight /\ f.known \in Known /\ p \in CacheProcess /\ f.version \in Nat
      /\ mem \in [CacheProcess -> Entry \cup {NoEntry}]
  BY <1>0, TypeFacts DEF Flight
<1>3. /\ mem' \in [CacheProcess -> Entry \cup {NoEntry}]
      /\ \A q \in CacheProcess \ {p} : mem'[q] = mem[q]
      /\ ~SameVersion(f) => mem'[p] = mem[p]
      /\ SameVersion(f) =>
           /\ mem[p] # NoEntry /\ mem[p].version = f.version /\ mem'[p] # NoEntry
           /\ mem'[p].known = f.known /\ mem'[p].version = mem[p].version
           /\ ~mem'[p].dirty /\ ~mem'[p].scheduled
  <2>1. CASE SameVersion(f)
    <3>1. mem[p] # NoEntry /\ mem[p].version = f.version
      BY <2>1 DEF SameVersion
    <3>2. new \in Entry /\ new.known = f.known /\ new.version = mem[p].version
          /\ ~new.dirty /\ ~new.scheduled
      BY <1>2, <3>1 DEF Entry
    <3> HIDE DEF new, p
    <3>3. mem'[p] = new /\ \A q \in CacheProcess \ {p} : mem'[q] = mem[q]
      BY <1>1, <1>2, <2>1
    <3>4. mem' \in [CacheProcess -> Entry \cup {NoEntry}]
      BY <1>1, <1>2, <2>1, <3>2
    <3> QED BY <2>1, <3>1, <3>2, <3>3, <3>4, ReadCacheAssumption
  <2>2. CASE ~SameVersion(f)
    BY <1>1, <1>2, <2>2
  <2> QED BY <2>1, <2>2
<1> HIDE DEF new
<1>4. ReadCacheTypeOK'
  BY <1>0, <1>1, <1>3, TypeFacts, TypeBack
<1>5. Growing
  BY <1>1 DEF Growing, Archived
<1>6. AllGood'
  <2>1. Has(f.known)
    BY DEF Has
  <2>2. ASSUME NEW k \in Known, Has(k)' PROVE Has(k)
    <3>1. CASE \E q \in CacheProcess : mem'[q] # NoEntry /\ k = mem'[q].known
      <4>1. PICK q \in CacheProcess : mem'[q] # NoEntry /\ k = mem'[q].known
        BY <3>1
      <4>2. k = f.known \/ (mem[q] # NoEntry /\ k = mem[q].known)
        <5>1. CASE q = p /\ SameVersion(f)
          BY <1>3, <4>1, <5>1
        <5>2. CASE ~(q = p /\ SameVersion(f))
          <6>1. mem'[q] = mem[q]
            BY <1>3, <5>2
          <6> QED BY <4>1, <6>1
        <5> QED BY <5>1, <5>2
      <4> QED BY <2>1, <4>2 DEF Has
    <3>2. CASE \E h \in flight' : k = h.known
      BY <1>1, <3>2 DEF Has
    <3> QED BY <1>1, <2>2, <3>1, <3>2 DEF Has
  <2> QED BY <1>0, <1>5, <2>2, GoodKept
<1>7. NothingYet'
  BY <1>0, <1>1 DEF NothingYet
<1>8. AllFair'
  <2> SUFFICES ASSUME NEW e \in Evaluation, eval'[e].at \in {"flush", "reply"}
               PROVE  SaidFairly(e)'
    BY DEF AllFair
  <2>1. Observes(e)' <=> Observes(e)
    BY <1>1 DEF Observes
  <2> QED BY <1>0, <1>1, <1>5, <2>1, SaidStays
<1>9. Settled'
  <2>0. /\ Calm' => Calm /\ Single /\ Grounded /\ Remembered
        /\ Quiet' => Quiet /\ Scheduled /\ Rested
        /\ mode'.daemon = "clearing" => "cleared" \in told'.kinds
    BY <1>0, <1>1 DEF Settled, Calm, Quiet
  <2>1. Quiet' => Calm'
    BY DEF Quiet, Calm
  <2>2. Calm' => flight' = {} /\ p = Daemon /\ disk = f.known
    BY <1>1, <2>0 DEF Single, Grounded
  <2>3. Calm' => /\ mem[Daemon] # NoEntry /\ mem'[Daemon] # NoEntry
                 /\ mem'[Daemon].known = mem[Daemon].known
                 /\ SameVersion(f) => f.known = mem[Daemon].known
                 /\ ~SameVersion(f) => mem'[Daemon] = mem[Daemon] /\ mem[Daemon].dirty
    <3> SUFFICES ASSUME Calm'
                 PROVE  /\ mem[Daemon] # NoEntry /\ mem'[Daemon] # NoEntry
                        /\ mem'[Daemon].known = mem[Daemon].known
                        /\ SameVersion(f) => f.known = mem[Daemon].known
                        /\ ~SameVersion(f) => mem'[Daemon] = mem[Daemon] /\ mem[Daemon].dirty
      OBVIOUS
    <3>1. /\ mem[Daemon] # NoEntry /\ p = Daemon
          /\ f.version = mem[Daemon].version => f.known = mem[Daemon].known
          /\ f.version # mem[Daemon].version => mem[Daemon].dirty
      BY <2>0, <2>2 DEF Grounded
    <3>2. SameVersion(f) <=> f.version = mem[Daemon].version
      BY <3>1 DEF SameVersion
    <3> QED BY <1>3, <3>1, <3>2
  <2>4. ASSUME Calm' PROVE Single' /\ Grounded' /\ Remembered'
    <3>1. Single' /\ Grounded'
      BY <2>2, <2>4 DEF Single, Grounded
    <3>2. Clean' => disk' \in {told'.last, Emptied}
      <4>1. CASE SameVersion(f)
        BY <1>1, <2>0, <2>2, <2>3, <2>4, <4>1 DEF Remembered
      <4>2. CASE ~SameVersion(f)
        BY <2>3, <2>4, <4>2 DEF Clean
      <4> QED BY <4>1, <4>2
    <3>3. mem'[Daemon] # NoEntry /\ mem'[Daemon].known = told'.last
      BY <1>1, <2>0, <2>3, <2>4 DEF Remembered
    <3> QED BY <3>1, <3>2, <3>3 DEF Remembered
  <2>5. ASSUME Quiet' PROVE Scheduled' /\ Rested'
    <3>1. Calm' /\ mem[Daemon].known = told.last
      BY <2>0, <2>1, <2>3, <2>5 DEF Remembered
    <3>2. Scheduled'
      <4>1. CASE SameVersion(f)
        BY <1>3, <2>2, <3>1, <4>1 DEF Scheduled
      <4>2. CASE ~SameVersion(f)
        BY <1>1, <2>0, <2>3, <2>5, <3>1, <4>2 DEF Scheduled
      <4> QED BY <4>1, <4>2
    <3>3. Rested'
      <4>1. CASE SameVersion(f)
        BY <1>1, <2>2, <2>3, <3>1, <4>1 DEF Rested
      <4>2. CASE ~SameVersion(f)
        BY <2>3, <3>1, <4>2 DEF Rested, Clean
      <4> QED BY <4>1, <4>2
    <3> QED BY <3>2, <3>3
  <2> QED BY <2>0, <2>4, <2>5 DEF Settled
<1> QED BY <1>4, <1>6, <1>7, <1>8, <1>9 DEF ReadCacheInv

LEMMA FlushFailsKeeps ==
  ASSUME ReadCacheInv, NEW f \in flight, FlushFails(f)
  PROVE  ReadCacheInv'
<1> DEFINE p == f.process
           new == [mem[p] EXCEPT !.dirty = TRUE]
<1>0. ReadCacheTypeOK /\ AllGood /\ NothingYet /\ AllFair /\ Settled
  BY DEF ReadCacheInv
<1>1. /\ flight' = flight \ {f}
      /\ mem' = IF mem[p] = NoEntry THEN mem ELSE [mem EXCEPT ![p] = new]
      /\ \/ eval' = [eval EXCEPT ![Helper].reply = "full"]
         \/ eval' = eval
      /\ told' = [told EXCEPT !.upsets = told.upsets + 1, !.kinds = told.kinds \cup {"failed"}]
      /\ UNCHANGED <<disk, sleepers, stored, mode>>
  BY DEF FlushFails
<1>2. /\ f \in Flight /\ p \in CacheProcess /\ told \in Histories
      /\ mem \in [CacheProcess -> Entry \cup {NoEntry}] /\ eval \in [Evaluation -> Eval]
  BY <1>0, TypeFacts DEF Flight
<1>3. /\ mem' \in [CacheProcess -> Entry \cup {NoEntry}]
      /\ \A q \in CacheProcess \ {p} : mem'[q] = mem[q]
      /\ mem[p] = NoEntry => mem'[p] = NoEntry
      /\ mem[p] # NoEntry =>
           /\ mem'[p] # NoEntry /\ mem'[p].known = mem[p].known
           /\ mem'[p].version = mem[p].version /\ mem'[p].dirty
  <2>1. CASE mem[p] = NoEntry
    BY <1>1, <1>2, <2>1
  <2>2. CASE mem[p] # NoEntry
    <3> DEFINE old == mem[p]
    <3>1. old \in Entry
      BY <1>2, <2>2
    <3>2. mem' = [mem EXCEPT ![p] = new]
      BY <1>1, <2>2
    <3> HIDE DEF old
    <3> DEFINE next == [old EXCEPT !.dirty = TRUE]
    <3>3. next \in Entry /\ next.known = old.known /\ next.version = old.version /\ next.dirty
      BY <3>1 DEF Entry
    <3>4. mem' = [mem EXCEPT ![p] = next]
      BY <3>2 DEF old
    <3> HIDE DEF next, p, new
    <3>5. mem'[p] = next /\ \A q \in CacheProcess \ {p} : mem'[q] = mem[q]
      BY <1>2, <3>4
    <3>6. mem' \in [CacheProcess -> Entry \cup {NoEntry}]
      BY <1>2, <3>3, <3>4
    <3> QED BY <2>2, <3>3, <3>5, <3>6, ReadCacheAssumption DEF old
  <2> QED BY <2>1, <2>2
<1> HIDE DEF new
<1>4. /\ eval' \in [Evaluation -> Eval]
      /\ \A e \in Evaluation :
           /\ eval'[e].text = eval[e].text /\ eval'[e].known = eval[e].known
           /\ eval'[e].at = eval[e].at /\ eval'[e].names = eval[e].names
           /\ eval'[e].reply \in {eval[e].reply, "full"}
  <2>1. CASE eval' = eval
    BY <1>2, <2>1
  <2>2. CASE eval' = [eval EXCEPT ![Helper].reply = "full"]
    <3> DEFINE old == eval[Helper]
               next == [old EXCEPT !.reply = "full"]
    <3>1. old \in Eval
      BY <1>2, Processes
    <3>2. eval' = [eval EXCEPT ![Helper] = next]
      BY <2>2
    <3> HIDE DEF old
    <3>3. /\ next \in Eval /\ next.text = old.text /\ next.known = old.known
          /\ next.at = old.at /\ next.names = old.names /\ next.reply = "full"
      BY <3>1 DEF Eval, Reply
    <3> HIDE DEF next
    <3>4. /\ eval' \in [Evaluation -> Eval] /\ eval'[Helper] = next
          /\ \A e \in Evaluation \ {Helper} : eval'[e] = eval[e]
      BY <1>2, <3>2, <3>3, Processes
    <3>5. /\ next.text = eval[Helper].text /\ next.known = eval[Helper].known
          /\ next.at = eval[Helper].at /\ next.names = eval[Helper].names
      BY <3>3 DEF old
    <3> QED BY <3>3, <3>4, <3>5
  <2> QED BY <1>1, <2>1, <2>2
<1>5. /\ told' \in Histories /\ told'.given = told.given /\ told'.evicted = told.evicted
      /\ told'.last = told.last /\ told'.kinds = told.kinds \cup {"failed"}
  <2> DEFINE kinds == told.kinds \cup {"failed"}
             upsets == told.upsets + 1
  <2>1. kinds \in SUBSET Accidents /\ upsets \in Nat
    BY <1>2, Counted DEF Histories, Accidents
  <2>2. told' = [told EXCEPT !.upsets = upsets, !.kinds = kinds]
    BY <1>1
  <2> HIDE DEF kinds, upsets
  <2>3. told' \in Histories /\ told'.given = told.given /\ told'.evicted = told.evicted
        /\ told'.last = told.last /\ told'.kinds = kinds
    BY <1>2, <2>1, <2>2 DEF Histories
  <2> QED BY <2>3 DEF kinds
<1>6. ReadCacheTypeOK'
  <2>1. flight' \in SUBSET Flight
    BY <1>0, <1>1, TypeFacts
  <2> QED BY <1>0, <1>1, <1>3, <1>4, <1>5, <2>1, TypeFacts, TypeBack
<1>7. Growing
  BY <1>1, <1>4, <1>5 DEF Growing, Archived
<1>8. AllGood'
  <2>1. ASSUME NEW k \in Known, Has(k)' PROVE Has(k)
    <3>1. CASE \E q \in CacheProcess : mem'[q] # NoEntry /\ k = mem'[q].known
      <4>1. PICK q \in CacheProcess : mem'[q] # NoEntry /\ k = mem'[q].known
        BY <3>1
      <4>2. mem[q] # NoEntry /\ k = mem[q].known
        <5>1. CASE q = p
          BY <1>3, <4>1, <5>1
        <5>2. CASE q # p
          BY <1>3, <4>1, <5>2
        <5> QED BY <5>1, <5>2
      <4> QED BY <4>2 DEF Has
    <3>2. CASE \E h \in flight' : k = h.known
      BY <1>1, <3>2 DEF Has
    <3>3. CASE \E e \in Evaluation : k = eval'[e].known
      BY <1>4, <3>3 DEF Has
    <3> QED BY <1>1, <2>1, <3>1, <3>2, <3>3 DEF Has
  <2> QED BY <1>0, <1>7, <2>1, GoodKept
<1>9. NothingYet'
  BY <1>0, <1>4 DEF NothingYet
<1>10. AllFair'
  <2> SUFFICES ASSUME NEW e \in Evaluation, eval'[e].at \in {"flush", "reply"}
               PROVE  SaidFairly(e)'
    BY DEF AllFair
  <2>1. Observes(e)' <=> Observes(e)
    BY <1>1 DEF Observes
  <2> QED BY <1>0, <1>4, <1>7, <2>1, SaidStays
<1>11. Settled'
  <2>0. /\ Calm' => Calm /\ Single /\ Grounded /\ Remembered
        /\ ~Quiet'
        /\ mode'.daemon = "clearing" => "cleared" \in told'.kinds
    BY <1>0, <1>1, <1>5 DEF Settled, Calm, Quiet
  <2>1. ASSUME Calm' PROVE Single' /\ Grounded' /\ Remembered'
    <3>1. flight' = {}
      BY <1>1, <2>0, <2>1 DEF Single
    <3>2. Single' /\ Grounded'
      BY <3>1 DEF Single, Grounded
    <3>3. \A e \in Evaluator : eval'[e].at = eval[e].at /\ eval'[e].known = eval[e].known
      BY <1>4, Processes
    <3>4. CASE p = Daemon
      <4>1. mem[Daemon] # NoEntry
        BY <2>0, <2>1, <3>4 DEF Grounded
      <4>2. mem'[Daemon] # NoEntry /\ mem'[Daemon].known = mem[Daemon].known
            /\ mem'[Daemon].dirty
        BY <1>3, <3>4, <4>1
      <4> QED BY <1>5, <2>0, <2>1, <3>2, <4>1, <4>2 DEF Remembered, Clean
    <3>5. CASE p # Daemon
      <4>1. mem'[Daemon] = mem[Daemon]
        BY <1>3, <3>5, Processes
      <4>2. \A h \in flight : h.process # Daemon
        BY <2>0, <2>1, <3>5 DEF Single
      <4>3. Clean' => Clean
        BY <4>1, <4>2 DEF Clean
      <4> QED BY <1>1, <1>5, <2>0, <2>1, <3>2, <3>3, <4>1, <4>3 DEF Remembered
    <3> QED BY <3>4, <3>5
  <2> QED BY <2>0, <2>1 DEF Settled
<1> QED BY <1>6, <1>8, <1>9, <1>10, <1>11 DEF ReadCacheInv

-----------------------------------------------------------------------------
(* The ends of processes.                                                  *)

LEMMA EndsKeeps ==
  ASSUME ReadCacheInv, NEW p \in CacheProcess, Ends(p), UNCHANGED <<disk, stored>>,
         eval' \in [Evaluation -> Eval],
         \A e \in Evaluation :
           IF ProcessOf(e) = p
             THEN eval'[e] = IdleEval /\ eval[e].text \in told'.given \cup {NoText}
             ELSE eval'[e] = eval[e],
         told' \in Histories, told.given \subseteq told'.given,
         told'.evicted = told.evicted, told'.last = told.last,
         told.kinds \subseteq told'.kinds, Cut(p) => "cut" \in told'.kinds
  PROVE  ReadCacheInv'
<1>0. ReadCacheTypeOK /\ AllGood /\ NothingYet /\ AllFair /\ Settled
  BY DEF ReadCacheInv
<1>1. /\ mem' = [mem EXCEPT ![p] = NoEntry] /\ sleepers' = [sleepers EXCEPT ![p] = 0]
      /\ flight' = {f \in flight : f.process # p}
      /\ mode' = IF p = Helper THEN [mode EXCEPT !.helper = "none"]
                 ELSE [mode EXCEPT !.daemon = "up"]
  BY DEF Ends
<1>2. /\ mem \in [CacheProcess -> Entry \cup {NoEntry}] /\ sleepers \in [CacheProcess -> Nat]
      /\ flight \in SUBSET Flight /\ mode \in Modes /\ eval \in [Evaluation -> Eval]
  BY <1>0, TypeFacts
<1>3. /\ mem' \in [CacheProcess -> Entry \cup {NoEntry}] /\ mem'[p] = NoEntry
      /\ \A q \in CacheProcess \ {p} : mem'[q] = mem[q] /\ sleepers'[q] = sleepers[q]
      /\ sleepers' \in [CacheProcess -> Nat]
  BY <1>1, <1>2
<1>4. /\ mode' \in Modes
      /\ p = Helper => mode'.daemon = mode.daemon
      /\ p # Helper => mode'.helper = mode.helper /\ mode'.daemon = "up"
  BY <1>1, <1>2 DEF Modes
<1>5. IdleEval.at = "idle" /\ IdleEval.text = NoText /\ IdleEval.reply = "full"
      /\ IdleEval.known = Nothing
  BY DEF IdleEval
<1>6. ReadCacheTypeOK'
  <2>1. flight' \in SUBSET Flight
    BY <1>1, <1>2
  <2> QED BY <1>0, <1>3, <1>4, <2>1, TypeFacts, TypeBack
<1>7. Growing
  <2>1. Archived' = Archived
    BY DEF Archived
  <2> QED BY <2>1 DEF Growing
<1>8. AllGood'
  <2>1. ASSUME NEW k \in Known, Has(k)' PROVE Has(k) \/ k = Nothing
    <3>1. CASE \E q \in CacheProcess : mem'[q] # NoEntry /\ k = mem'[q].known
      BY <1>3, <3>1 DEF Has
    <3>2. CASE \E f \in flight' : k = f.known
      BY <1>1, <3>2 DEF Has
    <3>3. CASE \E e \in Evaluation : k = eval'[e].known
      BY <1>5, <3>3 DEF Has
    <3> QED BY <2>1, <3>1, <3>2, <3>3 DEF Has
  <2> QED BY <1>0, <1>7, <2>1, NothingGood, GoodKept
<1>9. NothingYet'
  BY <1>0, <1>5 DEF NothingYet, Undecided
<1>10. AllFair'
  <2> SUFFICES ASSUME NEW e \in Evaluation, eval'[e].at \in {"flush", "reply"}
               PROVE  SaidFairly(e)'
    BY DEF AllFair
  <2>1. eval'[e] = eval[e] /\ ProcessOf(e) # p
    BY <1>5
  <2>2. Observes(e)' <=> Observes(e)
    BY <1>4, <2>1, Processes DEF Observes
  <2> QED BY <1>0, <1>7, <2>1, <2>2, SaidStays
<1>11. Settled'
  <2>0. /\ Calm' => Calm /\ Single /\ Grounded /\ Remembered /\ ~Cut(p)
        /\ Quiet' => Quiet /\ Scheduled /\ Rested /\ ~Cut(p)
        /\ mode.daemon = "clearing" => "cleared" \in told'.kinds
    BY <1>0 DEF Settled, Calm, Quiet
  <2>1. mode'.daemon = "clearing" => "cleared" \in told'.kinds
    BY <1>4, <2>0
  <2>2. CASE p = Daemon
    <3>1. mem'[Daemon] = NoEntry /\ Clean'
      BY <1>3, <2>2 DEF Clean
    <3>2. \A e \in Evaluator : eval'[e] = IdleEval
      BY <2>2, Processes
    <3>3. ~Cut(p) => Clean /\ \A f \in flight : f.process # Daemon
      BY <2>2 DEF Cut, Clean
    <3>4. ASSUME Calm' PROVE Single' /\ Grounded' /\ Remembered'
      <4>1. Single' /\ Grounded'
        BY <1>1, <2>0, <2>2, <3>4 DEF Single, Grounded
      <4>2. disk \in {told'.last, Emptied}
        BY <2>0, <3>3, <3>4 DEF Remembered
      <4> QED BY <1>5, <3>1, <3>2, <4>1, <4>2 DEF Remembered
    <3>5. ASSUME Quiet' PROVE Scheduled' /\ Rested'
      <4>1. flight' = flight
        BY <1>1, <2>0, <2>2, <3>3, <3>5
      <4> QED BY <2>0, <3>1, <3>3, <3>5, <4>1 DEF Scheduled, Rested
    <3> QED BY <2>1, <3>4, <3>5 DEF Settled
  <2>3. CASE p # Daemon
    <3>1. p = Helper /\ mem'[Daemon] = mem[Daemon] /\ sleepers'[Daemon] = sleepers[Daemon]
      BY <1>3, <2>3, Processes DEF CacheProcess
    <3>2. \A e \in Evaluator : eval'[e] = eval[e]
      BY <3>1, Processes
    <3>3. \A f \in flight : f.process = Daemon => f \in flight'
      BY <1>1, <2>3
    <3>4. Clean' => Clean
      BY <3>1, <3>3 DEF Clean
    <3>5. \A f \in flight : ~Cut(p) /\ f.at = "fill" => f \in flight'
      BY <1>1 DEF Cut
    <3>6. ASSUME Calm' PROVE Single' /\ Grounded' /\ Remembered'
      <4>1. Single' /\ Grounded'
        BY <1>1, <2>0, <3>1, <3>6 DEF Single, Grounded
      <4> QED BY <2>0, <3>1, <3>2, <3>4, <3>6, <4>1 DEF Remembered
    <3>7. ASSUME Quiet' PROVE Scheduled' /\ Rested'
      BY <2>0, <3>1, <3>4, <3>5, <3>7 DEF Scheduled, Rested
    <3> QED BY <2>1, <3>6, <3>7 DEF Settled
  <2> QED BY <2>2, <2>3
<1> QED BY <1>6, <1>8, <1>9, <1>10, <1>11 DEF ReadCacheInv

LEMMA AnswerKeeps ==
  ASSUME ReadCacheInv, NEW e \in Evaluation, Answer(e)
  PROVE  ReadCacheInv'
<1>1. /\ eval' = [eval EXCEPT ![e] = IdleEval] /\ UNCHANGED <<disk, stored>>
      /\ eval[e].at = "reply"
  BY DEF Answer, EvalAt
<1>2. /\ eval \in [Evaluation -> Eval] /\ eval[e].text \in Text \cup {NoText}
      /\ told \in Histories /\ mode \in Modes
  BY TypeFacts DEF ReadCacheInv, Eval
<1>3. eval[e].text \in Text
  BY <1>1, <1>2 DEF ReadCacheInv, NothingYet, Undecided
<1> DEFINE given == told.given \cup {eval[e].text}
<1>4. given \in SUBSET Text /\ told.given \subseteq given /\ eval[e].text \in given
  BY <1>2, <1>3 DEF Histories
<1>5. eval' \in [Evaluation -> Eval] /\ eval'[e] = IdleEval
      /\ \A o \in Evaluation \ {e} : eval'[o] = eval[o]
  BY <1>1, <1>2, NothingType
<1>6. CASE e = Helper
  <2> DEFINE kinds == Kinds("cut", Cut(Helper))
  <2>1. kinds \in SUBSET Accidents /\ told.kinds \subseteq kinds /\ (Cut(Helper) => "cut" \in kinds)
    BY <1>2 DEF Kinds, Histories, Accidents
  <2>2. Ends(Helper) /\ told' = [told EXCEPT !.given = given, !.kinds = kinds]
    BY <1>6 DEF Answer
  <2> HIDE DEF kinds, given
  <2>3. /\ told' \in Histories /\ told'.given = given /\ told'.evicted = told.evicted
        /\ told'.last = told.last /\ told'.kinds = kinds
    BY <1>2, <1>4, <2>1, <2>2 DEF Histories
  <2>4. ASSUME NEW o \in Evaluation
        PROVE  IF ProcessOf(o) = Helper
               THEN eval'[o] = IdleEval /\ eval[o].text \in told'.given \cup {NoText}
               ELSE eval'[o] = eval[o]
    <3>1. ProcessOf(o) = Helper <=> o = e
      BY <1>6, Processes DEF Evaluation
    <3> QED BY <1>4, <1>5, <2>3, <3>1
  <2> QED BY <1>1, <1>4, <1>5, <2>1, <2>2, <2>3, <2>4, Processes, EndsKeeps
<1>7. CASE e # Helper
  <2>1. told' = [told EXCEPT !.given = given] /\ UNCHANGED <<mem, sleepers, flight, mode>>
    BY <1>7 DEF Answer
  <2> HIDE DEF given
  <2>2. /\ told' \in Histories /\ told'.given = given /\ told'.evicted = told.evicted
        /\ told'.last = told.last /\ told'.kinds = told.kinds
    BY <1>2, <1>4, <2>1 DEF Histories
  <2>3. /\ IdleEval.at \in Undecided /\ IdleEval.at # "install" /\ IdleEval.text = NoText
        /\ IdleEval.reply = "full" /\ IdleEval.known = Nothing
    BY DEF IdleEval, Undecided
  <2> QED BY <1>1, <1>2, <1>4, <2>1, <2>2, <2>3, NothingType, NothingGood, EvalMoves
<1> QED BY <1>6, <1>7

LEMMA DiesKeeps ==
  ASSUME ReadCacheInv, NEW p \in CacheProcess, Dies(p)
  PROVE  ReadCacheInv'
<1> DEFINE own == {e \in Evaluation : ProcessOf(e) = p}
           given == told.given \cup ({eval[e].text : e \in own} \ {NoText})
           kinds == Kinds("cut", Cut(p))
<1>1. /\ Ends(p) /\ UNCHANGED <<disk, stored>>
      /\ eval' = [e \in Evaluation |-> IF e \in own THEN IdleEval ELSE eval[e]]
      /\ told' = [told EXCEPT !.upsets = told.upsets + 1, !.given = given, !.kinds = kinds]
  BY DEF Dies
<1>2. eval \in [Evaluation -> Eval] /\ told \in Histories
  BY TypeFacts DEF ReadCacheInv
<1>3. given \in SUBSET Text /\ told.given \subseteq given
      /\ \A e \in own : eval[e].text \in given \cup {NoText}
  <2>1. \A e \in Evaluation : eval[e].text \in Text \cup {NoText}
    BY <1>2 DEF Eval
  <2>2. told.given \subseteq Text
    BY <1>2 DEF Histories
  <2> QED BY <2>1, <2>2
<1>4. kinds \in SUBSET Accidents /\ told.kinds \subseteq kinds /\ (Cut(p) => "cut" \in kinds)
  BY <1>2 DEF Kinds, Histories, Accidents
<1>5. eval' \in [Evaluation -> Eval]
  BY <1>1, <1>2, NothingType
<1>6. ASSUME NEW e \in Evaluation
      PROVE  IF ProcessOf(e) = p
             THEN eval'[e] = IdleEval /\ eval[e].text \in given \cup {NoText}
             ELSE eval'[e] = eval[e]
  <2>1. e \in own <=> ProcessOf(e) = p
    OBVIOUS
  <2> HIDE DEF own, given
  <2> QED BY <1>1, <1>3, <2>1
<1> HIDE DEF own, given, kinds
<1>7. /\ told' \in Histories /\ told'.given = given /\ told'.evicted = told.evicted
      /\ told'.last = told.last /\ told'.kinds = kinds
  <2> DEFINE upsets == told.upsets + 1
  <2>1. upsets \in Nat /\ told' = [told EXCEPT !.upsets = upsets, !.given = given, !.kinds = kinds]
    BY <1>1, <1>2, Counted
  <2> HIDE DEF upsets
  <2> QED BY <1>2, <1>3, <1>4, <2>1 DEF Histories
<1> QED BY <1>1, <1>3, <1>4, <1>5, <1>6, <1>7, EndsKeeps

-----------------------------------------------------------------------------
(* The removal of the file, the operator's flush, and the archive's        *)
(* limits.                                                                 *)

LEMMA UnlinksType ==
  ASSUME ReadCacheTypeOK, Unlinks
  PROVE  /\ disk' = Nothing /\ flight' \in SUBSET Flight
         /\ \A g \in flight' : \E f \in flight : g.known = f.known
<1> DEFINE gone(f) == IF f.at = "fill" THEN [f EXCEPT !.at = "lost"] ELSE f
<1>1. disk' = Nothing /\ flight' = {gone(f) : f \in flight}
  BY DEF Unlinks
<1>2. ASSUME NEW f \in Flight PROVE gone(f) \in Flight /\ gone(f).known = f.known
  BY DEF Flight
<1>3. flight \subseteq Flight
  BY TypeFacts
<1> HIDE DEF gone
<1> QED BY <1>1, <1>2, <1>3

LEMMA UpsetCounted ==
  ASSUME told \in Histories, NEW kind \in Accidents,
         told' = [told EXCEPT !.upsets = told.upsets + 1, !.kinds = told.kinds \cup {kind}]
  PROVE  /\ told' \in Histories /\ told'.given = told.given /\ told'.evicted = told.evicted
         /\ told'.last = told.last /\ told.kinds \subseteq told'.kinds
         /\ kind \in told'.kinds
<1> DEFINE kinds == told.kinds \cup {kind}
           upsets == told.upsets + 1
<1>1. /\ kinds \in SUBSET Accidents /\ upsets \in Nat
      /\ told.kinds \subseteq kinds /\ kind \in kinds
  BY Counted DEF Histories
<1>2. told' = [told EXCEPT !.upsets = upsets, !.kinds = kinds]
  OBVIOUS
<1> HIDE DEF kinds, upsets
<1> QED BY <1>1, <1>2 DEF Histories

LEMMA ClearsKeep ==
  ASSUME ReadCacheInv,
         PruneDisk \/ ClearMemory \/ ClearDisk \/ \E text \in Text : Evict(text)
  PROVE  ReadCacheInv'
<1> DEFINE removes == PruneDisk \/ ClearMemory \/ ClearDisk
<1>0. ReadCacheTypeOK /\ AllGood /\ NothingYet /\ AllFair /\ Settled
  BY DEF ReadCacheInv
<1>1. UNCHANGED <<sleepers, eval>>
  BY DEF PruneDisk, ClearMemory, ClearDisk, Evict
<1>2. /\ mem \in [CacheProcess -> Entry \cup {NoEntry}] /\ mode \in Modes
      /\ told \in Histories /\ stored \in SUBSET Text /\ disk \in Known \cup {Emptied, Torn}
      /\ flight \in SUBSET Flight
  BY <1>0, TypeFacts
<1>3. /\ mode' \in Modes /\ mode'.helper = mode.helper
      /\ mode'.daemon \in {mode.daemon, "up"} \/ ClearMemory
  BY <1>2 DEF PruneDisk, ClearMemory, ClearDisk, Evict, Modes
<1>4. /\ told' \in Histories /\ told'.given = told.given /\ told'.last = told.last
      /\ told.kinds \subseteq told'.kinds
      /\ stored' \in SUBSET Text /\ Archived \subseteq Archived'
      /\ removes => told'.kinds \cap {"pruned", "cleared"} # {}
      /\ ClearMemory => "cleared" \in told'.kinds
  <2>1. CASE PruneDisk
    <3>1. /\ told' = [told EXCEPT !.upsets = told.upsets + 1,
                                  !.kinds = told.kinds \cup {"pruned"}]
          /\ stored' = stored /\ mode' = mode
      BY <2>1 DEF PruneDisk
    <3>2. "pruned" \in Accidents
      BY DEF Accidents
    <3>3. /\ told' \in Histories /\ told'.given = told.given /\ told'.evicted = told.evicted
          /\ told'.last = told.last /\ told.kinds \subseteq told'.kinds
          /\ "pruned" \in told'.kinds
      BY <1>2, <3>1, <3>2, UpsetCounted
    <3>4. ~ClearMemory
      BY <1>2, <3>1 DEF ClearMemory, Modes
    <3> QED BY <1>2, <3>1, <3>3, <3>4 DEF Archived
  <2>2. CASE ClearMemory
    <3>1. /\ told' = [told EXCEPT !.upsets = told.upsets + 1,
                                  !.kinds = told.kinds \cup {"cleared"}]
          /\ stored' = stored
      BY <2>2 DEF ClearMemory
    <3>2. "cleared" \in Accidents
      BY DEF Accidents
    <3>3. /\ told' \in Histories /\ told'.given = told.given /\ told'.evicted = told.evicted
          /\ told'.last = told.last /\ told.kinds \subseteq told'.kinds
          /\ "cleared" \in told'.kinds
      BY <1>2, <3>1, <3>2, UpsetCounted
    <3> QED BY <1>2, <3>1, <3>3 DEF Archived
  <2>3. CASE ClearDisk
    <3>1. told' = told /\ stored' = stored /\ mode.daemon = "clearing"
      BY <2>3 DEF ClearDisk
    <3>2. "cleared" \in told'.kinds
      BY <1>0, <3>1 DEF Settled
    <3> QED BY <1>2, <3>1, <3>2 DEF Archived
  <2>4. ASSUME NEW text \in Text, Evict(text), ~removes
        PROVE  /\ told' \in Histories /\ told'.given = told.given /\ told'.last = told.last
               /\ told'.kinds = told.kinds
               /\ stored' \in SUBSET Text /\ Archived \subseteq Archived'
    <3>1. /\ stored' = stored \ {text}
          /\ told' = [told EXCEPT !.upsets = told.upsets + 1,
                                  !.evicted = told.evicted \cup {text}]
      BY <2>4 DEF Evict
    <3> DEFINE evicted == told.evicted \cup {text}
               upsets == told.upsets + 1
    <3>2. evicted \in SUBSET Text /\ upsets \in Nat
      BY <1>2, <2>4, Counted DEF Histories
    <3>3. told' = [told EXCEPT !.upsets = upsets, !.evicted = evicted]
      BY <3>1
    <3> HIDE DEF evicted, upsets
    <3>4. told' \in Histories /\ told'.given = told.given /\ told'.last = told.last
          /\ told'.kinds = told.kinds /\ told'.evicted = evicted
      BY <1>2, <3>2, <3>3 DEF Histories
    <3>5. Archived \subseteq Archived'
      BY <3>1, <3>4 DEF Archived, evicted
    <3>6. stored' \in SUBSET Text
      BY <1>2, <3>1
    <3> QED BY <3>4, <3>5, <3>6
  <2> QED BY <2>1, <2>2, <2>3, <2>4
<1>5. /\ mem' \in [CacheProcess -> Entry \cup {NoEntry}]
      /\ \A q \in CacheProcess : mem'[q] \in {mem[q], NoEntry}
      /\ removes \/ mem' = mem
  BY <1>2 DEF PruneDisk, ClearMemory, ClearDisk, Evict
<1>6. /\ disk' \in {disk, Nothing} /\ flight' \in SUBSET Flight
      /\ \A g \in flight' : \E f \in flight : g.known = f.known
      /\ removes \/ (disk' = disk /\ flight' = flight)
  <2>1. CASE PruneDisk \/ ClearDisk
    BY <1>0, <2>1, UnlinksType DEF PruneDisk, ClearDisk
  <2>2. CASE ~(PruneDisk \/ ClearDisk)
    BY <1>2, <2>2 DEF ClearMemory, Evict
  <2> QED BY <2>1, <2>2
<1> HIDE DEF removes
<1>7. ReadCacheTypeOK'
  BY <1>0, <1>1, <1>2, <1>3, <1>4, <1>5, <1>6, NothingType, TypeFacts, TypeBack
<1>8. Growing
  BY <1>1, <1>4 DEF Growing
<1>9. AllGood'
  <2>1. ASSUME NEW k \in Known, Has(k)' PROVE Has(k) \/ k = Nothing
    BY <1>1, <1>5, <1>6, <2>1 DEF Has
  <2> QED BY <1>0, <1>8, <2>1, NothingGood, GoodKept
<1>10. NothingYet'
  BY <1>0, <1>1 DEF NothingYet
<1>11. AllFair'
  <2> SUFFICES ASSUME NEW e \in Evaluation, eval'[e].at \in {"flush", "reply"}
               PROVE  SaidFairly(e)'
    BY DEF AllFair
  <2>1. Observes(e)' <=> Observes(e)
    BY <1>3 DEF Observes
  <2> QED BY <1>0, <1>1, <1>8, <2>1, SaidStays
<1>12. Settled'
  <2>0. mode'.daemon = "clearing" => "cleared" \in told'.kinds
    BY <1>0, <1>3, <1>4 DEF Settled
  <2>1. CASE removes
    BY <1>4, <2>0, <2>1 DEF Settled, Calm, Quiet
  <2>2. CASE ~removes
    <3>1. mem' = mem /\ disk' = disk /\ flight' = flight
      BY <1>5, <1>6, <2>2
    <3>2. /\ Calm' => Calm /\ Single /\ Grounded /\ Remembered
          /\ Quiet' => Quiet /\ Scheduled /\ Rested
      BY <1>0, <1>4 DEF Settled, Calm, Quiet
    <3>3. /\ Single' <=> Single
          /\ Grounded' <=> Grounded
          /\ Remembered' <=> Remembered
          /\ Scheduled' <=> Scheduled
          /\ Rested' <=> Rested
      BY <1>1, <1>4, <3>1 DEF Single, Grounded, Remembered, Scheduled, Rested, Clean
    <3> QED BY <2>0, <3>2, <3>3 DEF Settled
  <2> QED BY <2>1, <2>2
<1> QED BY <1>7, <1>9, <1>10, <1>11, <1>12 DEF ReadCacheInv

-----------------------------------------------------------------------------
(* The invariant, and what it means.                                       *)

LEMMA ReadCacheInitInv == ReadCacheInit => ReadCacheInv
<1> SUFFICES ASSUME ReadCacheInit PROVE ReadCacheInv
  OBVIOUS
<1>1. PICK before \in SUBSET Text :
        /\ disk \in IF before = {} THEN {Nothing} ELSE {Observed(t, t) : t \in before}
        /\ stored = before
        /\ told = [given |-> before, evicted |-> {}, last |-> disk,
                   calls |-> 0, upsets |-> 0, kinds |-> {}]
  BY DEF ReadCacheInit
<1>2. /\ mem = [p \in CacheProcess |-> NoEntry] /\ sleepers = [p \in CacheProcess |-> 0]
      /\ flight = {} /\ eval = [e \in Evaluation |-> IdleEval]
      /\ mode = [helper |-> "none", daemon |-> "up"]
  BY DEF ReadCacheInit
<1>3. disk \in Known
  BY <1>1, NothingType, ObservedType
<1>4. told \in Histories /\ told.given = before /\ told.last = disk /\ told.kinds = {}
  BY <1>1, <1>3 DEF Histories
<1>5. ReadCacheTypeOK
  <2>1. mode \in Modes
    BY <1>2 DEF Modes
  <2> QED BY <1>1, <1>2, <1>3, <1>4, <2>1, NothingType
      DEF ReadCacheTypeOK, Modes, Histories, Accidents
<1>6. GoodIn(disk, Fair, Archived)
  <2>1. CASE disk = Nothing
    BY <2>1, NothingGood
  <2>2. ASSUME NEW t \in before, disk = Observed(t, t)
        PROVE  GoodIn(disk, Fair, Archived)
    BY <1>1, <1>4, <2>2 DEF GoodIn, Observed, Fair, Archived
  <2> QED BY <1>1, <2>1, <2>2
<1>7. \A e \in Evaluation : /\ eval[e].at = "idle" /\ eval[e].text = NoText
                            /\ eval[e].reply = "full" /\ eval[e].known = Nothing
  BY <1>2 DEF IdleEval
<1>8. AllGood
  <2>1. \A p \in CacheProcess : mem[p] = NoEntry
    BY <1>2
  <2>2. \A k \in Known : Has(k) => k = disk \/ k = Nothing
    BY <1>2, <1>7, <2>1 DEF Has
  <2> QED BY <1>6, <2>2, NothingGood DEF AllGood
<1>9. NothingYet /\ AllFair
  BY <1>7 DEF NothingYet, AllFair, Undecided
<1>10. Settled
  <2>1. mem[Daemon] = NoEntry
    BY <1>2, Processes
  <2>2. \A e \in Evaluator : eval[e].at # "install"
    BY <1>7, Processes
  <2> QED BY <1>2, <1>4, <2>1, <2>2
      DEF Settled, Single, Grounded, Remembered, Scheduled, Rested
<1> QED BY <1>5, <1>8, <1>9, <1>10 DEF ReadCacheInv

LEMMA ReadCacheStep == ReadCacheInv /\ [ReadCacheNext]_readCacheVars => ReadCacheInv'
<1> SUFFICES ASSUME ReadCacheInv, [ReadCacheNext]_readCacheVars PROVE ReadCacheInv'
  OBVIOUS
<1>1. CASE UNCHANGED readCacheVars
  <2>1. UNCHANGED <<disk, mem, sleepers, flight, eval, stored, mode, told>>
    BY <1>1 DEF readCacheVars
  <2>2. ReadCacheTypeOK'
    BY <2>1 DEF ReadCacheInv, ReadCacheTypeOK
  <2>3. AllGood' /\ NothingYet'
    BY <2>1 DEF ReadCacheInv, AllGood, Has, Fair, Archived, NothingYet
  <2>4. AllFair'
    BY <2>1 DEF ReadCacheInv, AllFair, SaidFairly, Others, Archived, Observes
  <2>5. Settled'
    BY <2>1
    DEF ReadCacheInv, Settled, Calm, Quiet, Single, Grounded, Clean, Remembered, Scheduled, Rested
  <2> QED BY <2>2, <2>3, <2>4, <2>5 DEF ReadCacheInv
<1>2. ASSUME NEW e \in Evaluation,
             \/ LoadHit(e) \/ LoadMiss(e) \/ ReadDisk(e) \/ InstallEntry(e) \/ Answer(e)
             \/ RecordFails(e)
             \/ \E text \in Text :
                  \/ ReadFails(e, text) \/ FullPass(e, text)
                  \/ ReferUnchanged(e, text) \/ ReferChanged(e, text)
                  \/ HookUnchanged(e, text) \/ HookChanged(e, text)
      PROVE  ReadCacheInv'
  <2>1. CASE \/ LoadHit(e) \/ LoadMiss(e) \/ ReadDisk(e) \/ InstallEntry(e) \/ Answer(e)
             \/ RecordFails(e)
    BY <2>1, LoadHitKeeps, LoadMissKeeps, ReadDiskKeeps, InstallKeeps, AnswerKeeps,
       RecordFailsKeeps
  <2>2. ASSUME NEW text \in Text, ReadFails(e, text) \/ Decision(e, text)
        PROVE  ReadCacheInv'
    BY <2>2, ReadFailsKeeps, DecisionKeeps
  <2> QED BY <1>2, <2>1, <2>2 DEF Decision
<1>3. ASSUME NEW f \in flight,
             OpenDisk(f) \/ FillDisk(f) \/ FillUnlinked(f) \/ FlushDone(f) \/ FlushFails(f)
      PROVE  ReadCacheInv'
  BY <1>3, WritesKeep, FlushDoneKeeps, FlushFailsKeeps
<1>4. ASSUME NEW p \in CacheProcess, TimerFlush(p) \/ Crash(p)
      PROVE  ReadCacheInv'
  BY <1>4, TimerKeeps, DiesKeeps DEF Crash
<1>5. CASE WrapperFlush \/ ShutdownFlush
  BY <1>5, WrapperFlushKeeps, ShutdownFlushKeeps
<1>6. CASE DaemonExits
  BY <1>6, DiesKeeps, Processes DEF DaemonExits
<1>7. CASE PruneDisk \/ ClearMemory \/ ClearDisk \/ \E text \in Text : Evict(text)
  BY <1>7, ClearsKeep
<1> QED BY <1>1, <1>2, <1>3, <1>4, <1>5, <1>6, <1>7 DEF ReadCacheNext

LEMMA ReadCacheInvariant == ReadCacheSpec => []ReadCacheInv
BY ReadCacheInitInv, ReadCacheStep, PTL DEF ReadCacheSpec

(* Every variable of the read cache has its type: nothing is judged by a   *)
(* file that cannot be parsed (loadSessionCached).                         *)
THEOREM ReadCacheTypeCorrect == ReadCacheSpec => []ReadCacheTypeOK
<1>1. ReadCacheInv => ReadCacheTypeOK
  BY DEF ReadCacheInv
<1> QED BY <1>1, ReadCacheInvariant, PTL

(* What is kept back from the model it was given, or is being given at the *)
(* same time, whatever has failed, died, been pruned or evicted; and the   *)
(* daemon's last save of a session stays in its memory and reaches the     *)
(* disk, unless one of the accidents has come in between: a slow load puts *)
(* back what it has read, the cache is flushed, the file pruned, a process *)
(* cut short, a write fails, a helper writes, or one write overtakes       *)
(* another (EvaluateObserved, SaveSessionAsync, FlushSession,              *)
(* PruneSessions).                                                         *)
THEOREM ReadCacheIsHonest == ReadCacheSpec => []ReadCacheHonest
<1>1. ReadCacheInv => KeptBackIsKnown
  <2> SUFFICES ASSUME ReadCacheInv, NEW e \in Evaluation, EvalAt(e, "reply")
               PROVE  LET names == eval[e].names
                          others == {eval[o].text : o \in Evaluation \ {e}}
                          fair == told.given \cup others
                      IN  /\ eval[e].reply = "unchanged" => eval[e].text \in fair
                          /\ eval[e].reply = "unchanged" /\ Observes(e) =>
                               \/ names = eval[e].text /\ names \in stored \cup told.evicted
                               \/ "mixed" \in told.kinds
                          /\ eval[e].reply = "delta" => names \in fair
    BY DEF KeptBackIsKnown
  <2>1. SaidFairly(e)
    BY DEF ReadCacheInv, AllFair, EvalAt
  <2> QED BY <2>1 DEF SaidFairly, Others, Archived
<1>2. ReadCacheInv => SavesReachDisk
  <2> SUFFICES ASSUME ReadCacheInv, mem[Daemon] # NoEntry PROVE SavesReachDisk
    BY DEF SavesReachDisk
  <2>1. /\ Calm => Remembered
        /\ Quiet => Calm /\ Scheduled /\ Rested
    BY DEF ReadCacheInv, Settled, Quiet, Calm
  <2>2. mem[Daemon].known = told.last \/ ~Calm
    BY <2>1 DEF Remembered
  <2>3. ASSUME sleepers[Daemon] = 0, flight = {}, Quiet
        PROVE  ~mem[Daemon].dirty /\ disk = mem[Daemon].known
    <3>1. ~mem[Daemon].dirty
      BY <2>1, <2>3 DEF Scheduled
    <3>2. Clean
      BY <2>3, <3>1 DEF Clean
    <3> QED BY <2>1, <2>2, <2>3, <3>1, <3>2 DEF Rested
  <2> QED BY <2>2, <2>3 DEF SavesReachDisk, Calm, Quiet
<1> QED BY <1>1, <1>2, ReadCacheInvariant, PTL DEF ReadCacheHonest
===============================================================================
