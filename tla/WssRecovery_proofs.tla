------------------------- MODULE WssRecovery_proofs -------------------------
(***************************************************************************)
(* Proofs about response chains and recovery (WssRecovery): types, the one *)
(* retry of a request, and that what the adapters remember of a            *)
(* conversation, and what the server makes of it, is the conversation.     *)
(***************************************************************************)
EXTENDS WssRecovery, SequenceTheorems, FiniteSetTheorems, TLAPS

-----------------------------------------------------------------------------
(* Chain maps.                                                             *)

OnePlaceEach(s) == \A i, j \in DOMAIN s : s[i] = s[j] => i = j

(* The order of a map lists its ids, each once, within the capacity, and   *)
(* no chain is empty.                                                      *)
MapInv(m) ==
  /\ DOMAIN m.chains = {m.order[i] : i \in DOMAIN m.order}
  /\ OnePlaceEach(m.order)
  /\ Len(m.order) <= MaxChains
  /\ \A r \in DOMAIN m.chains : m.chains[r] \in Chain \ {<< >>}

LEMMA MapFields ==
  ASSUME NEW m \in ChainMap
  PROVE  /\ m.order \in Seq(Int)
         /\ m.chains \in [DOMAIN m.chains -> Chain]
         /\ DOMAIN m.chains \subseteq Int
<1> DEFINE Maps == UNION {[S -> Chain] : S \in SUBSET Int}
<1>1. m.order \in Seq(Int) /\ m.chains \in Maps
  <2> HIDE DEF Maps
  <2>1. m \in [order : Seq(Int), chains : Maps]
    BY DEF ChainMap, Maps
  <2> QED BY <2>1
<1>2. PICK S \in SUBSET Int : m.chains \in [S -> Chain]
  BY <1>1
<1> QED BY <1>1, <1>2

LEMMA MapMade ==
  ASSUME NEW order \in Seq(Int), NEW S \in SUBSET Int, NEW chains \in [S -> Chain]
  PROVE  [order |-> order, chains |-> chains] \in ChainMap
<1> DEFINE Maps == UNION {[T -> Chain] : T \in SUBSET Int}
<1>1. chains \in Maps
  OBVIOUS
<1> HIDE DEF Maps
<1>2. [order |-> order, chains |-> chains] \in [order : Seq(Int), chains : Maps]
  BY <1>1
<1> QED BY <1>2 DEF ChainMap, Maps

(* As many ids as places in the order.                                     *)
LEMMA MapSize ==
  ASSUME NEW m \in ChainMap, MapInv(m)
  PROVE  Cardinality(DOMAIN m.chains) = Len(m.order)
<1> DEFINE s == m.order
           n == Len(s)
           T == DOMAIN m.chains
<1>1. s \in Seq(Int) /\ n \in Nat /\ DOMAIN s = 1 .. n /\ s \in [1 .. n -> Int]
  BY MapFields, LenProperties
<1>2. T = {s[i] : i \in 1 .. n} /\ \A i, j \in 1 .. n : s[i] = s[j] => i = j
  BY <1>1 DEF MapInv, OnePlaceEach
<1> HIDE DEF s, n, T
<1>3. s \in [1 .. n -> T]
  BY <1>1, <1>2
<1>4. s \in Bijection(1 .. n, T)
  BY <1>2, <1>3 DEF Bijection, Injection, Surjection, IsInjective
<1>5. IsFiniteSet(1 .. n) /\ Cardinality(1 .. n) = n
  BY <1>1, FS_Interval
<1>6. ExistsBijection(1 .. n, T)
  BY <1>4 DEF ExistsBijection
<1>7. Cardinality(T) = n
  BY <1>5, <1>6, FS_Bijection
<1> QED BY <1>7 DEF n, T, s

(* What put leaves: the chain put, and some of the others.                 *)
LEMMA PutMap ==
  ASSUME NEW m \in ChainMap, MapInv(m), NEW r \in Int, NEW c \in Chain \ {<< >>}
  PROVE  /\ Put(m, r, c) \in ChainMap
         /\ MapInv(Put(m, r, c))
         /\ r \in DOMAIN Put(m, r, c).chains
         /\ Put(m, r, c).chains[r] = c
         /\ \A id \in DOMAIN Put(m, r, c).chains \ {r} :
              /\ id \in DOMAIN m.chains
              /\ Put(m, r, c).chains[id] = m.chains[id]
<1> DEFINE order == IF r \in DOMAIN m.chains THEN m.order ELSE Append(m.order, r)
           excess == IF Len(order) > MaxChains THEN Len(order) - MaxChains ELSE 0
           kept == SubSeq(order, excess + 1, Len(order))
           ids == {kept[i] : i \in DOMAIN kept}
           chains == [id \in ids |-> IF id = r THEN c ELSE m.chains[id]]
<1>1. /\ m.order \in Seq(Int) /\ Len(m.order) \in Nat /\ MaxChains \in Nat \ {0}
      /\ m.chains \in [DOMAIN m.chains -> Chain]
      /\ DOMAIN m.chains = {m.order[i] : i \in 1 .. Len(m.order)}
      /\ Len(m.order) <= MaxChains
      /\ \A i, j \in 1 .. Len(m.order) : m.order[i] = m.order[j] => i = j
  <2>1. m.order \in Seq(Int) /\ m.chains \in [DOMAIN m.chains -> Chain]
    BY MapFields
  <2>2. Len(m.order) \in Nat /\ DOMAIN m.order = 1 .. Len(m.order)
    BY <2>1, LenProperties
  <2>3. /\ DOMAIN m.chains = {m.order[i] : i \in 1 .. Len(m.order)}
        /\ \A i, j \in 1 .. Len(m.order) : m.order[i] = m.order[j] => i = j
        /\ Len(m.order) <= MaxChains
    BY <2>2 DEF MapInv, OnePlaceEach
  <2> QED BY <2>1, <2>2, <2>3, RecoveryAssumption
<1>2. /\ order \in Seq(Int) /\ Len(order) \in Nat
      /\ \A i, j \in 1 .. Len(order) : order[i] = order[j] => i = j
      /\ {order[i] : i \in 1 .. Len(order)} = DOMAIN m.chains \cup {r}
  <2>1. CASE r \in DOMAIN m.chains
    BY <1>1, <2>1
  <2>2. CASE r \notin DOMAIN m.chains
    <3> DEFINE n == Len(m.order)
    <3>1. /\ Append(m.order, r) \in Seq(Int) /\ Len(Append(m.order, r)) = n + 1
          /\ \A i \in 1 .. n : Append(m.order, r)[i] = m.order[i]
          /\ Append(m.order, r)[n + 1] = r
          /\ order = Append(m.order, r)
          /\ \A i \in 1 .. n : m.order[i] \in DOMAIN m.chains
      BY <1>1, <2>2
    <3> HIDE DEF order
    <3>2. \A i \in 1 .. n + 1 : i \in 1 .. n \/ i = n + 1
      BY <1>1
    <3>3. \A i, j \in 1 .. n + 1 : order[i] = order[j] => i = j
      BY <3>1, <3>2, <2>2, <1>1
    <3>4. {order[i] : i \in 1 .. n + 1} = DOMAIN m.chains \cup {r}
      <4>1. \A i \in 1 .. n + 1 : order[i] \in DOMAIN m.chains \cup {r}
        BY <3>1, <3>2
      <4>2. n + 1 \in 1 .. n + 1 /\ \A i \in 1 .. n : i \in 1 .. n + 1
        BY <1>1
      <4>3. \A id \in DOMAIN m.chains : \E i \in 1 .. n : m.order[i] = id
        BY <1>1
      <4>4. \A id \in DOMAIN m.chains \cup {r} : \E i \in 1 .. n + 1 : order[i] = id
        BY <3>1, <4>2, <4>3
      <4> QED BY <4>1, <4>4
    <3> QED BY <3>1, <3>3, <3>4, <1>1
  <2> QED BY <2>1, <2>2
<1>3. /\ Len(m.order) <= MaxChains /\ excess \in Nat /\ excess <= Len(order)
      /\ Len(order) - excess <= MaxChains
      /\ r \in DOMAIN m.chains => excess = 0
  <2> HIDE DEF order
  <2>1. r \in DOMAIN m.chains => Len(order) <= MaxChains
    BY <1>1 DEF order
  <2> QED BY <1>1, <1>2, <2>1
<1>4. r \notin DOMAIN m.chains => order[Len(order)] = r /\ Len(order) > excess
  <2> SUFFICES ASSUME r \notin DOMAIN m.chains
               PROVE  order[Len(order)] = r /\ Len(order) > excess
    OBVIOUS
  <2>1. order[Len(order)] = r /\ Len(order) > 0
    BY <1>1
  <2> HIDE DEF order
  <2> QED BY <2>1, <1>1, <1>2
<1> HIDE DEF order, excess
<1>5. /\ kept \in Seq(Int) /\ Len(kept) = Len(order) - excess
      /\ \A i \in 1 .. Len(kept) : kept[i] = order[excess + i] /\ excess + i \in 1 .. Len(order)
      /\ DOMAIN kept = 1 .. Len(kept)
  <2>1. \A i \in excess + 1 .. Len(order) : order[i] \in Int /\ i \in 1 .. Len(order)
    BY <1>2, <1>3
  <2>2. excess + 1 \in Int /\ Len(order) \in Int
    BY <1>2, <1>3
  <2>3. /\ kept \in Seq(Int)
        /\ Len(kept) = IF excess + 1 <= Len(order) THEN Len(order) - (excess + 1) + 1 ELSE 0
        /\ \A i \in 1 .. Len(order) - (excess + 1) + 1 : kept[i] = order[excess + 1 + i - 1]
    BY <2>1, <2>2, SubSeqProperties
  <2> HIDE DEF kept
  <2>4. Len(kept) = Len(order) - excess /\ Len(order) - (excess + 1) + 1 = Len(kept)
    BY <2>3, <1>2, <1>3
  <2>5. ASSUME NEW i \in 1 .. Len(kept)
        PROVE  kept[i] = order[excess + i] /\ excess + i \in 1 .. Len(order)
    <3>1. excess + 1 + i - 1 = excess + i /\ excess + i \in 1 .. Len(order)
      BY <2>4, <1>2, <1>3
    <3> QED BY <2>3, <2>4, <3>1
  <2> QED BY <2>3, <2>4, <2>5
<1> HIDE DEF kept
<1>6. OnePlaceEach(kept)
  <2> SUFFICES ASSUME NEW i \in 1 .. Len(kept), NEW j \in 1 .. Len(kept), kept[i] = kept[j]
               PROVE  i = j
    BY <1>5 DEF OnePlaceEach
  <2>1. order[excess + i] = order[excess + j]
    BY <1>5
  <2>2. excess + i = excess + j
    BY <2>1, <1>2, <1>5
  <2> QED BY <2>2, <1>3
<1>7. ids \subseteq DOMAIN m.chains \cup {r}
  BY <1>2, <1>5
<1>8. r \in ids
  <2>1. PICK i \in 1 .. Len(order) : order[i] = r /\ i > excess
    <3>1. CASE r \in DOMAIN m.chains
      BY <3>1, <1>2, <1>3
    <3>2. CASE r \notin DOMAIN m.chains
      BY <3>2, <1>2, <1>3, <1>4
    <3> QED BY <3>1, <3>2
  <2>2. i - excess \in 1 .. Len(kept) /\ excess + (i - excess) = i
    BY <2>1, <1>2, <1>3, <1>5
  <2>3. kept[i - excess] = r
    BY <2>1, <2>2, <1>5
  <2> QED BY <2>2, <2>3, <1>5
<1>9. /\ ids \subseteq Int
      /\ chains \in [ids -> Chain \ {<< >>}]
      /\ chains[r] = c
      /\ \A id \in ids \ {r} : id \in DOMAIN m.chains /\ chains[id] = m.chains[id]
  <2> HIDE DEF ids
  <2>1. ids \subseteq Int
    BY <1>5 DEF ids
  <2>2. \A id \in DOMAIN m.chains : m.chains[id] \in Chain \ {<< >>}
    BY DEF MapInv
  <2> QED BY <2>1, <2>2, <1>7, <1>8
<1>10. Put(m, r, c) = [order |-> kept, chains |-> chains]
  BY DEF Put, kept, order, excess
<1> HIDE DEF ids, chains
<1>11. /\ Put(m, r, c).order = kept /\ Put(m, r, c).chains = chains
       /\ DOMAIN chains = ids /\ chains \in [ids -> Chain]
  BY <1>9, <1>10
<1>12. Put(m, r, c) \in ChainMap
  BY <1>5, <1>9, <1>10, <1>11, MapMade
<1>13. Len(kept) <= MaxChains
  BY <1>3, <1>5
<1>14. MapInv(Put(m, r, c))
  BY <1>6, <1>9, <1>11, <1>13 DEF MapInv, ids
<1> QED BY <1>8, <1>9, <1>11, <1>12, <1>14

-----------------------------------------------------------------------------
(* Types.                                                                  *)

Event == {"reconnects", "restarts", "others", "strays"}

(* What RecoveryTypeOK says, in the form the steps keep: the adapter is a  *)
(* record of its fields, and the maps are well formed.                     *)
AdapterTypes ==
  /\ adapter \in Adapter /\ MapInv(adapter.responseChains)
  /\ store \in ChainMap /\ MapInv(store)

ClientTypes ==
  /\ client \in [waiting : BOOLEAN, turn : 0 .. MaxTurns, last : Nat]
  /\ client.last \in DOMAIN history
  /\ DOMAIN history \subseteq Nat
  /\ history \in [DOMAIN history -> Chain]

ServerTypes ==
  /\ link \in {"up", "broken"}
  /\ up \in Seq(Body) /\ down \in Seq(Frame)
  /\ ctx \in Seq(Chain) /\ known \subseteq DOMAIN ctx
  /\ sends \in Nat

EventTypes ==
  /\ scenario \in Scenarios
  /\ events \in [Event -> Nat]
  /\ \A event \in Event : events[event] <= scenario[event]

Types == AdapterTypes /\ ClientTypes /\ ServerTypes /\ EventTypes

LEMMA ItemsAreItems ==
  ASSUME NEW n \in Nat PROVE In(n) \in Item /\ Out(n) \in Item
BY DEF In, Out, Item

LEMMA ChainsJoin ==
  ASSUME NEW c \in Chain, NEW d \in Chain
  PROVE  c \o d \in Chain /\ ((c # << >> \/ d # << >>) => c \o d # << >>)
<1>1. c \in Seq(Item) /\ d \in Seq(Item)
  BY DEF Chain
<1> QED BY <1>1, ConcatProperties, ConcatEqualIffEmpty DEF Chain

(* A chain that is looked up is in one of the maps, or there is none.      *)
Found(c, r) ==
  \/ c = << >>
  \/ r \in DOMAIN adapter.responseChains.chains /\ c = adapter.responseChains.chains[r]
  \/ r \in DOMAIN store.chains /\ c = store.chains[r]

LEMMA LookedUp ==
  ASSUME AdapterTypes, NEW r
  PROVE  /\ Found(ResponseChain(r), r) /\ Found(StatelessContinuationChain(r), r)
         /\ ResponseChain(r) \in Chain /\ StatelessContinuationChain(r) \in Chain
         /\ r \in DOMAIN store.chains =>
              /\ ResponseChain(r) # << >> /\ StatelessContinuationChain(r) # << >>
<1>1. Found(ResponseChain(r), r) /\ Found(StatelessContinuationChain(r), r)
  BY DEF Found, ResponseChain, StatelessContinuationChain, Get
<1>2. << >> \in Chain
  BY DEF Chain
<1>3. ASSUME NEW c, Found(c, r) PROVE c \in Chain
  BY <1>2, <1>3 DEF Found, AdapterTypes, MapInv
<1>4. r \in DOMAIN store.chains => store.chains[r] # << >>
  BY DEF AdapterTypes, MapInv
<1> QED BY <1>1, <1>3, <1>4 DEF ResponseChain, StatelessContinuationChain, Get

LEMMA BodiesAreBodies ==
  ASSUME AdapterTypes, ClientTypes, NEW body \in ClientBodies
  PROVE  /\ body \in Body /\ body.input # << >> /\ Expanded(body) \in Body
         /\ Expanded(body).input # << >>
         /\ body.pruned = FALSE
<1> DEFINE new == <<In(client.turn + 1)>>
<1>1. client.last \in Nat /\ client.turn + 1 \in Nat /\ history[client.last] \in Chain
  BY RecoveryAssumption DEF ClientTypes
<1>2. new \in Chain /\ new # << >>
  BY <1>1, ItemsAreItems DEF Chain
<1> HIDE DEF new
<1>3. history[client.last] \o new \in Chain /\ history[client.last] \o new # << >>
  BY <1>1, <1>2, ChainsJoin
<1>4. body \in {[prev |-> client.last, input |-> new, pruned |-> FALSE],
                [prev |-> 0, input |-> history[client.last] \o new, pruned |-> FALSE]}
  BY DEF ClientBodies, new
<1>5. body \in Body /\ body.input \in Chain /\ body.input # << >> /\ body.pruned = FALSE
  <2>1. PICK prev \in Nat, input \in Chain \ {<< >>} :
          body = [prev |-> prev, input |-> input, pruned |-> FALSE]
    BY <1>1, <1>2, <1>3, <1>4
  <2> QED BY <2>1 DEF Body
<1>6. StatelessContinuationChain(body.prev) \in Chain
  BY LookedUp
<1>7. /\ StatelessContinuationChain(body.prev) \o body.input \in Chain
      /\ StatelessContinuationChain(body.prev) \o body.input # << >>
  BY <1>5, <1>6, ChainsJoin
<1> QED BY <1>5, <1>7 DEF Body, Expanded

(* The adapter that has prepared a request.                                *)
LEMMA PreparedType ==
  ASSUME AdapterTypes, NEW a \in Adapter, NEW body \in Body, NEW prev \in Nat,
         NEW pruned \in BOOLEAN
  PROVE  /\ Prepared(a, body, prev, pruned) \in Adapter
         /\ Prepared(a, body, prev, pruned).responseChains = a.responseChains
<1> DEFINE prior == IF prev # 0 THEN ResponseChain(prev) ELSE << >>
           full == prior \o body.input
           candidate == IF prior # << >> \/ pruned
                          THEN [input |-> full, prev |-> prev, pruned |-> pruned,
                                used |-> FALSE]
                          ELSE NoCandidate
<1>1. prior \in Chain /\ << >> \in Chain /\ body.input \in Chain
  BY LookedUp DEF Chain, Body
<1> HIDE DEF prior
<1>2. full \in Chain
  BY <1>1, ChainsJoin
<1> HIDE DEF full
<1>3. candidate \in Candidate
  BY <1>1, <1>2 DEF Candidate, NoCandidate
<1>4. Prepared(a, body, prev, pruned) =
        [a EXCEPT !.pendingChain = full, !.pendingOutput = << >>,
                  !.pendingExport = TRUE, !.pendingRecovery = candidate]
  BY DEF Prepared, prior, full
<1> HIDE DEF candidate
<1> QED BY <1>1, <1>2, <1>3, <1>4 DEF Adapter

LEMMA HappensType ==
  ASSUME EventTypes, NEW event \in Event, Happens(event) PROVE EventTypes'
<1>1. scenario' = scenario /\ events' = [events EXCEPT ![event] = @ + 1]
      /\ events[event] < scenario[event]
  BY DEF Happens
<1>2. \A e \in Event : scenario[e] \in Nat
  BY RecoveryAssumption DEF EventTypes, Scenario, Event
<1>3. \A e \in Event : events'[e] = IF e = event THEN events[e] + 1 ELSE events[e]
  BY <1>1 DEF EventTypes
<1>4. events' \in [Event -> Nat]
  BY <1>1 DEF EventTypes
<1>5. \A e \in Event : events'[e] <= scenario[e]
  BY <1>1, <1>2, <1>3 DEF EventTypes
<1> QED BY <1>1, <1>4, <1>5 DEF EventTypes

LEMMA ForwardType ==
  ASSUME ClientTypes, NEW f \in Frame, Forward(f) PROVE ClientTypes'
<1>1. CASE ~client.waiting \/ f.kind = "item"
  BY <1>1 DEF Forward, ClientTypes
<1>2. CASE ~(~client.waiting \/ f.kind = "item")
  <2> DEFINE c == history[client.last] \o <<In(client.turn), Out(f.r)>>
  <2>1. f.r \in Nat /\ client.turn \in Nat /\ history[client.last] \in Chain
    BY RecoveryAssumption DEF ClientTypes, Frame
  <2>2. <<In(client.turn), Out(f.r)>> \in Chain
    BY <2>1, ItemsAreItems DEF Chain
  <2>3. c \in Chain
    BY <2>1, <2>2, ChainsJoin
  <2>4. /\ client' = [client EXCEPT !.waiting = FALSE,
                                    !.last = IF f.kind = "completed" THEN f.r ELSE @]
        /\ history' = IF f.kind # "completed" THEN history
                      ELSE [r \in DOMAIN history \cup {f.r} |->
                              IF r = f.r THEN c ELSE history[r]]
    BY <1>2 DEF Forward
  <2> HIDE DEF c
  <2>5. CASE f.kind # "completed"
    BY <2>4, <2>5 DEF ClientTypes
  <2>6. CASE f.kind = "completed"
    <3>1. /\ DOMAIN history' = DOMAIN history \cup {f.r}
          /\ history' \in [DOMAIN history \cup {f.r} -> Chain]
      BY <2>3, <2>4, <2>6 DEF ClientTypes
    <3>2. client' \in [waiting : BOOLEAN, turn : 0 .. MaxTurns, last : Nat] /\ client'.last = f.r
      BY <2>1, <2>4, <2>6 DEF ClientTypes
    <3> QED BY <2>1, <3>1, <3>2 DEF ClientTypes
  <2> QED BY <2>5, <2>6
<1> QED BY <1>1, <1>2

LEMMA EmptyMapType == EmptyMap \in ChainMap /\ MapInv(EmptyMap)
<1>1. EmptyMap.order = << >> /\ EmptyMap.chains = [r \in {} |-> << >>]
  BY DEF EmptyMap
<1>2. [r \in {} |-> << >>] \in [{} -> Chain] /\ {} \in SUBSET Int /\ << >> \in Seq(Int)
  OBVIOUS
<1>3. EmptyMap \in ChainMap
  BY <1>2, MapMade DEF EmptyMap
<1> QED BY <1>1, <1>3, RecoveryAssumption DEF MapInv, OnePlaceEach

LEMMA FreshConnectionType ==
  ASSUME AdapterTypes, ClientTypes, FreshConnection, UNCHANGED history, store' \in ChainMap,
         MapInv(store')
  PROVE  /\ AdapterTypes' /\ ClientTypes' /\ link' \in {"up", "broken"}
         /\ up' \in Seq(Body) /\ down' \in Seq(Frame) /\ sends' \in Nat
<1>1. EmptyMap \in ChainMap /\ MapInv(EmptyMap)
  BY EmptyMapType
<1>2. NewAdapter \in Adapter /\ NewAdapter.responseChains = EmptyMap
  BY <1>1 DEF NewAdapter, Adapter, NoCandidate, Candidate, Chain
<1>3. AdapterTypes'
  BY <1>1, <1>2 DEF FreshConnection, AdapterTypes, MapInv
<1>4. ClientTypes'
  BY DEF FreshConnection, ClientTypes
<1> QED BY <1>3, <1>4 DEF FreshConnection

(* The frame that is handled.                                              *)
LEMMA HeadFrame ==
  ASSUME ServerTypes, down # << >>
  PROVE  Head(down) \in Frame /\ Tail(down) \in Seq(Frame)
BY HeadTailProperties DEF ServerTypes

(* What a response leaves behind is a chain.                               *)
LEMMA RememberedType ==
  ASSUME AdapterTypes, NEW f \in Frame, adapter.pendingChain # << >>
  PROVE  Remembered(f) \in Chain \ {<< >>}
<1>1. /\ adapter.pendingChain \in Chain /\ adapter.pendingOutput \in Chain /\ f.output \in Chain
  BY DEF AdapterTypes, Adapter, Frame
<1> QED BY <1>1, ChainsJoin DEF Remembered

LEMMA RequestType ==
  ASSUME Types, HandleRequest PROVE Types'
<1> USE DEF Types
<1>1. PICK body \in ClientBodies, pruned \in BOOLEAN, rewritten \in BOOLEAN :
        LET out == IF Expands(body) THEN Expanded(body) ELSE body
            forwarded == IF adapter.degraded THEN body ELSE out
            arms == \/ Expands(body)
                    \/ rewritten
                    \/ pruned /\ Shape(out) = "full_history"
        IN  /\ pruned => ~adapter.degraded /\ out.prev = 0
            /\ rewritten => ~adapter.degraded /\ Shape(out) # "root"
            /\ adapter' = Prepared(
                 [adapter EXCEPT !.historyStatelessMode = @ \/ arms],
                 forwarded, out.prev, pruned)
            /\ up' = Append(up, [forwarded EXCEPT !.pruned = pruned])
  BY DEF HandleRequest
<1> DEFINE out == IF Expands(body) THEN Expanded(body) ELSE body
           forwarded == IF adapter.degraded THEN body ELSE out
           arms == \/ Expands(body) \/ rewritten
                   \/ pruned /\ Shape(out) = "full_history"
           a == [adapter EXCEPT !.historyStatelessMode = @ \/ arms]
<1>2. adapter' = Prepared(a, forwarded, out.prev, pruned)
      /\ up' = Append(up, [forwarded EXCEPT !.pruned = pruned])
  BY <1>1
<1>3. out \in Body /\ forwarded \in Body
  BY BodiesAreBodies
<1>4. arms \in BOOLEAN
  OBVIOUS
<1> HIDE DEF out, forwarded, arms
<1>5. a \in Adapter /\ a.responseChains = adapter.responseChains
  BY <1>4 DEF AdapterTypes, Adapter
<1> HIDE DEF a
<1>6. out.prev \in Nat
  BY <1>3 DEF Body
<1>7. adapter' \in Adapter /\ adapter'.responseChains = adapter.responseChains
  BY <1>2, <1>3, <1>5, <1>6, PreparedType
<1>8. AdapterTypes'
  BY <1>7 DEF HandleRequest, AdapterTypes, MapInv
<1>9. ClientTypes'
  <2>1. client.turn \in Nat /\ client.turn < MaxTurns /\ MaxTurns \in Nat
        /\ client' = [client EXCEPT !.waiting = TRUE, !.turn = @ + 1] /\ history' = history
    BY RecoveryAssumption DEF HandleRequest, ClientTypes
  <2>2. client.turn + 1 \in 0 .. MaxTurns
    BY <2>1
  <2>3. client' \in [waiting : BOOLEAN, turn : 0 .. MaxTurns, last : Nat]
        /\ client'.last = client.last
    BY <2>1, <2>2 DEF ClientTypes
  <2> QED BY <2>1, <2>3 DEF ClientTypes
<1>10. ServerTypes'
  <2>1. [forwarded EXCEPT !.pruned = pruned] \in Body
    BY <1>3 DEF Body
  <2> QED BY <1>2, <2>1 DEF HandleRequest, ServerTypes, serverVars
<1>11. EventTypes'
  BY DEF HandleRequest, EventTypes, envVars
<1> QED BY <1>8, <1>9, <1>10, <1>11

LEMMA FrameType ==
  ASSUME Types, HandleFrame PROVE Types'
<1> USE DEF Types
<1>1. PICK f \in {Head(down)} :
        \/ HandleItem(f) \/ HandleCompleted(f) \/ FailRecovery(f) \/ RetryRequest(f)
        \/ SurfaceError(f)
  BY DEF HandleFrame
<1>2. f \in Frame /\ Tail(down) \in Seq(Frame)
  BY HeadFrame DEF HandleFrame
<1>3. /\ adapter.pendingOutput \in Chain /\ adapter.pendingRecovery \in Candidate
      /\ f.output \in Chain /\ f.r \in Int
  BY <1>2 DEF AdapterTypes, Adapter, Frame
<1>4. TakeFrame
  BY <1>1 DEF HandleItem, HandleCompleted, FailRecovery, RetryRequest, SurfaceError, TakeError
<1>5. EventTypes' /\ down' \in Seq(Frame) /\ ctx' = ctx /\ known' = known
  BY <1>2, <1>4 DEF TakeFrame, EventTypes, envVars, serverVars
<1>6. Used(adapter, f.class) \in Adapter
      /\ Used(adapter, f.class).responseChains = adapter.responseChains
  <2>1. [adapter.pendingRecovery EXCEPT !.used = TRUE] \in Candidate
    BY <1>3 DEF Candidate
  <2>2. [adapter EXCEPT !.pendingRecovery = [adapter.pendingRecovery EXCEPT !.used = TRUE]] \in Adapter
    BY <2>1 DEF AdapterTypes, Adapter
  <2>3. [adapter EXCEPT !.pendingRecovery.used = TRUE] =
          [adapter EXCEPT !.pendingRecovery = [adapter.pendingRecovery EXCEPT !.used = TRUE]]
    BY DEF AdapterTypes, Adapter
  <2> QED BY <2>2, <2>3 DEF Used, AdapterTypes, Adapter
<1>7. CASE HandleItem(f)
  <2>1. adapter.pendingOutput \o f.output \in Chain
    BY <1>3, ChainsJoin
  <2>2. AdapterTypes'
    BY <1>7, <2>1 DEF HandleItem, AdapterTypes, Adapter, MapInv
  <2>3. ClientTypes'
    BY <1>2, <1>7, ForwardType DEF HandleItem
  <2> QED BY <1>5, <1>7, <2>2, <2>3 DEF HandleItem, ServerTypes
<1>8. CASE HandleCompleted(f)
  <2> DEFINE map(m) == IF adapter.pendingChain = << >> THEN m ELSE Put(m, f.r, Remembered(f))
  <2>1. ASSUME NEW m \in ChainMap, MapInv(m) PROVE map(m) \in ChainMap /\ MapInv(map(m))
    BY <1>2, <1>3, <2>1, PutMap, RememberedType
  <2>2. /\ adapter.responseChains \in ChainMap /\ MapInv(adapter.responseChains)
        /\ store \in ChainMap /\ MapInv(store)
    BY DEF AdapterTypes, Adapter
  <2>3. /\ store' = IF adapter.pendingExport THEN map(store) ELSE store
        /\ adapter' = [adapter EXCEPT
             !.activeRecovery = FALSE,
             !.historyStatelessMode = adapter.historyStatelessMode \/ adapter.activeRecovery,
             !.pendingOutput = << >>,
             !.pendingExport = FALSE,
             !.responseChains = map(adapter.responseChains)]
    BY <1>8 DEF HandleCompleted
  <2>4. /\ map(store) \in ChainMap /\ MapInv(map(store))
        /\ map(adapter.responseChains) \in ChainMap /\ MapInv(map(adapter.responseChains))
    BY <2>1, <2>2
  <2> DEFINE mode == adapter.historyStatelessMode \/ adapter.activeRecovery
  <2> HIDE DEF map
  <2>9. mode \in BOOLEAN /\ << >> \in Chain
    BY DEF Chain
  <2> HIDE DEF mode
  <2>10. adapter' = [adapter EXCEPT
             !.activeRecovery = FALSE, !.historyStatelessMode = mode,
             !.pendingOutput = << >>, !.pendingExport = FALSE,
             !.responseChains = map(adapter.responseChains)]
    BY <2>3 DEF mode
  <2>5. adapter' \in Adapter /\ adapter'.responseChains = map(adapter.responseChains)
    BY <2>4, <2>9, <2>10 DEF AdapterTypes, Adapter
  <2>11. store' = map(store) \/ store' = store
    BY <2>3
  <2>12. store' \in ChainMap /\ MapInv(store')
    BY <2>2, <2>4, <2>11
  <2>6. AdapterTypes'
    BY <2>4, <2>5, <2>12 DEF AdapterTypes, MapInv
  <2>7. ClientTypes'
    BY <1>2, <1>8, ForwardType DEF HandleCompleted
  <2> QED BY <1>5, <1>8, <2>6, <2>7 DEF HandleCompleted, ServerTypes
<1>9. CASE FailRecovery(f)
  <2>1. AdapterTypes'
    <3>1. /\ adapter' \in Adapter /\ adapter'.responseChains = adapter.responseChains
          /\ store' = store
      BY <1>9 DEF FailRecovery, TakeError, AdapterTypes, Adapter
    <3> QED BY <3>1 DEF AdapterTypes, MapInv
  <2>2. ClientTypes'
    BY <1>2, <1>9, ForwardType DEF FailRecovery
  <2> QED BY <1>5, <1>9, <2>1, <2>2 DEF FailRecovery, ServerTypes
<1>10. CASE RetryRequest(f)
  <2>1. AdapterTypes'
    <3>1. /\ adapter' \in Adapter /\ adapter'.responseChains = adapter.responseChains
          /\ store' = store
      BY <1>6, <1>10 DEF RetryRequest, TakeError, AdapterTypes, Adapter
    <3> QED BY <3>1 DEF AdapterTypes, MapInv
  <2>2. [prev |-> 0, input |-> adapter.pendingRecovery.input, pruned |-> FALSE] \in Body
    BY <1>3 DEF Body, Candidate
  <2>3. ServerTypes'
    BY <1>5, <1>10, <2>2 DEF RetryRequest, ServerTypes
  <2>4. ClientTypes'
    BY <1>10 DEF RetryRequest, ClientTypes
  <2> QED BY <1>5, <2>1, <2>3, <2>4
<1>11. CASE SurfaceError(f)
  <2>1. AdapterTypes'
    <3>1. /\ adapter' \in Adapter /\ adapter'.responseChains = adapter.responseChains
          /\ store' = store
      BY <1>6, <1>11 DEF SurfaceError, TakeError, AdapterTypes, Adapter
    <3> QED BY <3>1 DEF AdapterTypes, MapInv
  <2>2. ClientTypes'
    BY <1>2, <1>11, ForwardType DEF SurfaceError
  <2>3. ServerTypes'
    <3>1. /\ \/ link' = link /\ up' = up
             \/ link' = "broken" /\ up' = << >>
          /\ sends' = sends
      BY <1>11 DEF SurfaceError
    <3>2. << >> \in Seq(Body)
      OBVIOUS
    <3>3. link' \in {"up", "broken"} /\ up' \in Seq(Body) /\ sends' \in Nat
      BY <3>1, <3>2 DEF ServerTypes
    <3> QED BY <1>5, <3>3 DEF ServerTypes
  <2> QED BY <1>5, <2>1, <2>2, <2>3
<1> QED BY <1>1, <1>7, <1>8, <1>9, <1>10, <1>11

LEMMA AnswerType ==
  ASSUME Types, ServerAnswers PROVE Types'
<1> USE DEF Types
<1> DEFINE body == Head(up)
           r == Len(ctx) + 1
<1>1. body \in Body /\ Tail(up) \in Seq(Body) /\ ctx \in Seq(Chain) /\ r \in Nat \ {0}
  BY HeadTailProperties, LenProperties DEF ServerAnswers, ServerTypes
<1>2. TakeBody
  BY DEF ServerAnswers, Accept, Reject
<1>3. AdapterTypes' /\ ClientTypes' /\ EventTypes'
  BY <1>2 DEF TakeBody, AdapterTypes, ClientTypes, EventTypes, MapInv, envVars
<1>4. ASSUME NEW class \in ErrorClass PROVE Error(class) \in Frame
  BY DEF Error, Frame, Chain
<1>5. ASSUME NEW n \in Nat PROVE OutputItem(n) \in Frame /\ Completed(n) \in Frame
  <2>1. <<Out(n)>> \in Chain /\ << >> \in Chain /\ "fatal" \in ErrorClass
    BY ItemsAreItems DEF Chain, ErrorClass
  <2> QED BY <2>1 DEF OutputItem, Completed, Frame
<1>6. CASE Accept(body)
  <2> DEFINE c == (IF body.prev = 0 THEN << >> ELSE ctx[body.prev]) \o body.input \o <<Out(r)>>
  <2>1. ctx' = Append(ctx, c) /\ Resolves(body)
    BY <1>6 DEF Accept
  <2>2. c \in Chain
    <3>1. (IF body.prev = 0 THEN << >> ELSE ctx[body.prev]) \in Chain
      BY <1>1, <2>1 DEF Resolves, ServerTypes, Chain
    <3>2. body.input \in Chain /\ <<Out(r)>> \in Chain
      BY <1>1, ItemsAreItems DEF Body, Chain
    <3> QED BY <3>1, <3>2, ChainsJoin
  <2>3. ctx' \in Seq(Chain) /\ DOMAIN ctx' = DOMAIN ctx \cup {r} /\ r \in DOMAIN ctx'
    <3> HIDE DEF c
    <3> QED BY <1>1, <2>1, <2>2
  <2>4. known' \subseteq DOMAIN ctx'
    BY <1>6, <2>3 DEF Accept, ServerTypes
  <2>5. down' \in Seq(Frame)
    <3>1. \A class \in ErrorClass : <<OutputItem(r), Error(class)>> \in Seq(Frame)
      BY <1>1, <1>4, <1>5
    <3>2. <<OutputItem(r), Completed(r)>> \in Seq(Frame)
      BY <1>1, <1>5
    <3>3. \A s \in Seq(Frame) : down \o s \in Seq(Frame)
      BY ConcatProperties DEF ServerTypes
    <3>4. \/ down' = down \o <<OutputItem(r), Completed(r)>>
          \/ \E class \in ErrorClass : down' = down \o <<OutputItem(r), Error(class)>>
      BY <1>6 DEF Accept
    <3> HIDE DEF r
    <3> QED BY <3>1, <3>2, <3>3, <3>4
  <2> QED BY <1>1, <1>2, <1>3, <2>3, <2>4, <2>5 DEF TakeBody, ServerTypes
<1>7. CASE Reject(body)
  <2>1. down' \in Seq(Frame)
    BY <1>4, <1>7 DEF Reject, ServerTypes
  <2> QED BY <1>1, <1>2, <1>3, <1>7, <2>1 DEF TakeBody, Reject, ServerTypes, serverVars
<1> QED BY <1>6, <1>7 DEF ServerAnswers

LEMMA EnvironmentType ==
  ASSUME Types,
         \/ \E r \in known : Forget(r)
         \/ Reconnect \/ DaemonRestart \/ OtherSessionExports \/ StrayError
         \/ UNCHANGED recoveryVars
  PROVE  Types'
<1> USE DEF Types
<1>1. ASSUME NEW r \in known, Forget(r) PROVE Types'
  BY <1>1 DEF Forget, envVars, AdapterTypes, ClientTypes, ServerTypes, EventTypes, MapInv
<1>2. CASE Reconnect
  <2>1. EventTypes' /\ UNCHANGED <<ctx, known, history, store>>
    BY <1>2, HappensType DEF Reconnect, Happens, serverVars, Event
  <2>2. store' \in ChainMap /\ MapInv(store')
    BY <2>1 DEF AdapterTypes
  <2> QED BY <1>2, <2>1, <2>2, FreshConnectionType DEF Reconnect, ServerTypes
<1>3. CASE DaemonRestart
  <2>1. EventTypes' /\ UNCHANGED <<ctx, known, history>> /\ store' = EmptyMap
    BY <1>3, HappensType DEF DaemonRestart, Happens, serverVars, Event
  <2>2. store' \in ChainMap /\ MapInv(store')
    BY <2>1, EmptyMapType
  <2> QED BY <1>3, <2>1, <2>2, FreshConnectionType DEF DaemonRestart, ServerTypes
<1>4. CASE OtherSessionExports
  <2>1. EventTypes' /\ UNCHANGED <<adapter, client, history, link, up, down, ctx, known, sends>>
        /\ store' = Put(store, -1 - events.others, <<In(0)>>)
    BY <1>4, HappensType DEF OtherSessionExports, Happens, serverVars, Event
  <2>2. -1 - events.others \in Int /\ <<In(0)>> \in Chain \ {<< >>}
    BY ItemsAreItems DEF EventTypes, Event, Chain
  <2>3. store' \in ChainMap /\ MapInv(store')
    BY <2>1, <2>2, PutMap DEF AdapterTypes
  <2>4. AdapterTypes'
    BY <2>1, <2>3 DEF AdapterTypes, MapInv
  <2>5. ClientTypes' /\ ServerTypes'
    BY <2>1 DEF ClientTypes, ServerTypes
  <2> QED BY <2>1, <2>4, <2>5
<1>5. CASE StrayError
  <2>1. EventTypes' /\ UNCHANGED <<adapter, store, client, history, link, up, ctx, known, sends>>
    BY <1>5, HappensType DEF StrayError, Happens, serverVars, Event
  <2>2. \A class \in ErrorClass : Error(class) \in Frame
    BY DEF Error, Frame, Chain
  <2>3. down' \in Seq(Frame)
    BY <1>5, <2>2 DEF StrayError, ServerTypes
  <2>4. AdapterTypes' /\ ClientTypes'
    BY <2>1 DEF AdapterTypes, ClientTypes, MapInv
  <2> QED BY <2>1, <2>3, <2>4 DEF ServerTypes
<1>6. CASE UNCHANGED recoveryVars
  BY <1>6 DEF recoveryVars, AdapterTypes, ClientTypes, ServerTypes, EventTypes, MapInv
<1> QED BY <1>1, <1>2, <1>3, <1>4, <1>5, <1>6

LEMMA TypesStep == Types /\ [RecoveryNext]_recoveryVars => Types'
BY RequestType, FrameType, AnswerType, EnvironmentType DEF RecoveryNext, Quiet

LEMMA TypesInitially == RecoveryInit => Types
<1> SUFFICES ASSUME RecoveryInit PROVE Types
  OBVIOUS
<1>1. NewAdapter \in Adapter /\ NewAdapter.responseChains = EmptyMap
  BY EmptyMapType DEF NewAdapter, Adapter, NoCandidate, Candidate, Chain
<1>2. AdapterTypes
  BY <1>1, EmptyMapType DEF RecoveryInit, AdapterTypes
<1>3. ClientTypes
  BY RecoveryAssumption DEF RecoveryInit, ClientTypes, Chain
<1>4. ServerTypes
  BY DEF RecoveryInit, ServerTypes
<1>5. EventTypes
  BY RecoveryAssumption DEF RecoveryInit, EventTypes, Event, Scenario
<1> QED BY <1>2, <1>3, <1>4, <1>5 DEF Types

LEMMA TypesInvariant == RecoverySpec => []Types
BY TypesInitially, TypesStep, PTL DEF RecoverySpec

(* Every variable keeps the type the code gives it; a chain map holds      *)
(* exactly the ids of its order, each once and no more than its capacity,  *)
(* through put, eviction, export, reconnects and restarts.                 *)
THEOREM RecoveryTypeCorrect == RecoverySpec => []RecoveryTypeOK
<1>1. Types => RecoveryTypeOK
  <2> SUFFICES ASSUME Types PROVE RecoveryTypeOK
    OBVIOUS
  <2>1. /\ adapter.pendingChain \in Chain /\ adapter.pendingOutput \in Chain
        /\ adapter.pendingRecovery \in Candidate
        /\ \A flag \in {"pendingExport", "activeRecovery", "historyStatelessMode",
                         "degraded"} :
             adapter[flag] \in BOOLEAN
        /\ adapter.responseChains \in ChainMap
    BY DEF Types, AdapterTypes, Adapter
  <2>2. ASSUME NEW m \in {adapter.responseChains, store}
        PROVE  /\ m.order \in Seq(Int)
               /\ DOMAIN m.chains = {m.order[i] : i \in DOMAIN m.order}
               /\ Cardinality(DOMAIN m.chains) = Len(m.order)
               /\ Len(m.order) <= MaxChains
               /\ \A r \in DOMAIN m.chains : m.chains[r] \in Chain \ {<< >>}
    <3>1. m \in ChainMap /\ MapInv(m)
      BY <2>1 DEF Types, AdapterTypes
    <3> QED BY <3>1, MapFields, MapSize DEF MapInv
  <2>3. /\ client \in [waiting : BOOLEAN, turn : 0 .. MaxTurns, last : DOMAIN history]
        /\ \A r \in DOMAIN history : history[r] \in Chain
    BY DEF Types, ClientTypes
  <2>4. scenario \in Scenarios /\ \A event \in DOMAIN events : events[event] <= scenario[event]
    BY DEF Types, EventTypes
  <2> QED BY <2>1, <2>2, <2>3, <2>4 DEF RecoveryTypeOK, Types, ServerTypes
<1> QED BY <1>1, TypesInvariant, PTL

-----------------------------------------------------------------------------
(* At most one retry.                                                      *)

FreshCandidate == adapter.pendingRecovery # NoCandidate /\ ~adapter.pendingRecovery.used

(* A request is sent a second time only with its candidate, which is then  *)
(* used; whatever comes next, it is not fresh again.                       *)
OneRetry == sends <= 2 /\ (FreshCandidate => sends <= 1)

LEMMA UsedUp ==
  ASSUME AdapterTypes, NEW class
  PROVE  LET a == Used(adapter, class)
         IN  /\ \/ a.pendingRecovery = adapter.pendingRecovery
                \/ a.pendingRecovery.used
             /\ Retryable(class) => a.pendingRecovery.used
             /\ a.pendingChain = adapter.pendingChain
             /\ a.pendingOutput = adapter.pendingOutput
             /\ a.responseChains = adapter.responseChains
             /\ a.pendingExport = adapter.pendingExport
             /\ a.degraded = adapter.degraded
             /\ a.historyStatelessMode = adapter.historyStatelessMode
             /\ a.pendingRecovery # NoCandidate => adapter.pendingRecovery # NoCandidate
             /\ a.pendingRecovery.input = adapter.pendingRecovery.input
             /\ a \in Adapter
<1>1. adapter \in Adapter /\ adapter.pendingRecovery \in Candidate
  BY DEF AdapterTypes, Adapter
<1> DEFINE c == [adapter.pendingRecovery EXCEPT !.used = TRUE]
<1>2. c \in Candidate /\ c.used /\ c.input = adapter.pendingRecovery.input
  BY <1>1 DEF Candidate
<1> HIDE DEF c
<1>3. [adapter EXCEPT !.pendingRecovery.used = TRUE] = [adapter EXCEPT !.pendingRecovery = c]
  BY <1>1 DEF c, Adapter
<1>4. Used(adapter, class) =
        IF class # "fatal" /\ adapter.pendingRecovery # NoCandidate
          THEN [adapter EXCEPT !.pendingRecovery = c] ELSE adapter
  BY <1>3 DEF Used
<1> QED BY <1>1, <1>2, <1>4 DEF Adapter, Retryable

LEMMA OneRetryStep ==
  Types /\ OneRetry /\ [RecoveryNext]_recoveryVars => OneRetry'
<1> SUFFICES ASSUME Types, OneRetry, [RecoveryNext]_recoveryVars PROVE OneRetry'
  OBVIOUS
<1> USE DEF Types
<1>0. sends \in Nat /\ adapter \in Adapter
  BY DEF ServerTypes, AdapterTypes
<1>1. CASE HandleRequest
  BY <1>1 DEF HandleRequest, OneRetry
<1>2. ASSUME NEW f, HandleItem(f) \/ HandleCompleted(f) \/ FailRecovery(f) PROVE OneRetry'
  <2>1. sends' = sends /\ adapter'.pendingRecovery = adapter.pendingRecovery
    BY <1>0, <1>2 DEF HandleItem, HandleCompleted, FailRecovery, Adapter
  <2> QED BY <2>1 DEF OneRetry, FreshCandidate
<1>3. ASSUME NEW f, RetryRequest(f) PROVE OneRetry'
  <2>1. Retryable(f.class) /\ sends' = sends + 1
    BY <1>3 DEF RetryRequest
  <2>2. Used(adapter, f.class).pendingRecovery.used /\ Used(adapter, f.class) \in Adapter
    BY <2>1, UsedUp
  <2>3. adapter'.pendingRecovery.used
    BY <1>3, <2>2 DEF RetryRequest, Adapter
  <2>4. FreshCandidate
    BY <2>1 DEF Retryable, FreshCandidate
  <2> QED BY <1>0, <2>1, <2>3, <2>4 DEF OneRetry, FreshCandidate
<1>4. ASSUME NEW f, SurfaceError(f) PROVE OneRetry'
  <2>1. sends' = sends
    BY <1>4 DEF SurfaceError
  <2>2. /\ Used(adapter, f.class) \in Adapter
        /\ \/ Used(adapter, f.class).pendingRecovery = adapter.pendingRecovery
           \/ Used(adapter, f.class).pendingRecovery.used
    BY UsedUp
  <2>3. adapter'.pendingRecovery = Used(adapter, f.class).pendingRecovery
    BY <1>4, <2>2 DEF SurfaceError, Adapter
  <2> QED BY <2>1, <2>2, <2>3 DEF OneRetry, FreshCandidate
<1>5. CASE HandleFrame
  BY <1>2, <1>3, <1>4, <1>5 DEF HandleFrame
<1>6. CASE ServerAnswers
  BY <1>6 DEF ServerAnswers, Accept, Reject, TakeBody, OneRetry, FreshCandidate
<1>7. ASSUME NEW r \in known, Forget(r) PROVE OneRetry'
  BY <1>7 DEF Forget, OneRetry, FreshCandidate
<1>8. CASE Reconnect \/ DaemonRestart
  BY <1>8 DEF Reconnect, DaemonRestart, FreshConnection, OneRetry
<1>9. CASE OtherSessionExports \/ StrayError
  BY <1>9 DEF OtherSessionExports, StrayError, OneRetry, FreshCandidate
<1>10. CASE UNCHANGED recoveryVars
  BY <1>10 DEF recoveryVars, OneRetry, FreshCandidate
<1> QED BY <1>1, <1>5, <1>6, <1>7, <1>8, <1>9, <1>10 DEF RecoveryNext, Quiet

(* tryWSSRecoveryRetry never sends a request a third time, whichever       *)
(* errors arrive and whenever, on any connection.                          *)
THEOREM OneRetryAtMost == RecoverySpec => []SentAtMostTwice
<1>1. RecoveryInit => OneRetry
  BY DEF RecoveryInit, OneRetry
<1>2. OneRetry => SentAtMostTwice
  BY DEF OneRetry, SentAtMostTwice
<1> QED BY <1>1, <1>2, OneRetryStep, TypesInvariant, PTL DEF RecoverySpec

-----------------------------------------------------------------------------
(* Where a request is.                                                     *)

(* Without errors out of the blue a request of the client is in one place: *)
(* on its way to the server, or in frames on their way back, whose         *)
(* response is the server's last and not yet part of the conversation.     *)
NewResponse == Len(ctx) \notin DOMAIN history

Sent == Len(up) = 1 /\ down = << >>
Refused == up = << >> /\ \E class \in ErrorClass : down = <<Error(class)>>
Answered ==
  /\ up = << >> /\ down = <<OutputItem(Len(ctx)), Completed(Len(ctx))>> /\ NewResponse
Streamed == up = << >> /\ down = <<Completed(Len(ctx))>> /\ NewResponse
Failed ==
  /\ scenario.midstream /\ up = << >> /\ NewResponse
  /\ \E class \in ErrorClass : down = <<OutputItem(Len(ctx)), Error(class)>>

Pipeline ==
  IF client.waiting THEN Sent \/ Refused \/ Answered \/ Streamed \/ Failed
                    ELSE up = << >> /\ down = << >>

(* A conversation opens with an input that occurs once in it, made before  *)
(* the request that is being served.                                       *)
Opens(h) == /\ h # << >> /\ h[1].kind = "in"
            /\ \A i \in 2 .. Len(h) : h[i] # h[1]

Conversations ==
  /\ 0 \in DOMAIN history /\ history[0] = << >>
  /\ DOMAIN history \subseteq 0 .. Len(ctx)
  /\ \A r \in DOMAIN history \ {0} :
       /\ Opens(history[r])
       /\ history[r][1].n <= client.turn
       /\ client.waiting => history[r][1].n < client.turn

OneAtATime == scenario.strays = 0 => Pipeline /\ Conversations

LEMMA OpensOnce ==
  ASSUME NEW h \in Chain, NEW t \in Nat, NEW r \in Nat,
         h = << >> \/ (Opens(h) /\ h[1].n < t)
  PROVE  LET c == h \o <<In(t), Out(r)>> IN Opens(c) /\ c[1].n <= t
<1> DEFINE end == <<In(t), Out(r)>>
           c == h \o end
<1>1. /\ h \in Seq(Item) /\ end \in Seq(Item) /\ Len(end) = 2
      /\ end[1] = In(t) /\ end[2] = Out(r) /\ In(t) # Out(r)
      /\ In(t).kind = "in" /\ In(t).n = t /\ Out(r).kind = "out"
  <2>1. In(t) \in Item /\ Out(r) \in Item /\ h \in Seq(Item)
    BY ItemsAreItems DEF Chain
  <2>2. In(t).kind = "in" /\ In(t).n = t /\ Out(r).kind = "out"
    BY DEF In, Out
  <2> QED BY <2>1, <2>2
<1> HIDE DEF end
<1>2. /\ c \in Seq(Item) /\ Len(c) = Len(h) + 2 /\ Len(h) \in Nat
      /\ \A i \in 1 .. Len(h) + 2 : c[i] = IF i <= Len(h) THEN h[i] ELSE end[i - Len(h)]
  <2>1. /\ c \in Seq(Item) /\ Len(c) = Len(h) + Len(end)
        /\ \A i \in 1 .. Len(h) + Len(end) : c[i] = IF i <= Len(h) THEN h[i] ELSE end[i - Len(h)]
    BY <1>1, ConcatProperties
  <2> HIDE DEF c
  <2> QED BY <1>1, <2>1
<1> HIDE DEF c
<1>3. CASE h = << >>
  <2>1. Len(h) = 0
    BY <1>3
  <2>2. Len(c) = 2 /\ c[1] = In(t) /\ c[2] = Out(r)
    BY <1>1, <1>2, <2>1
  <2>3. \A i \in 2 .. Len(c) : i = 2
    BY <2>2
  <2> QED BY <1>1, <1>2, <2>2, <2>3 DEF Opens, c, end
<1>4. CASE h # << >> /\ Opens(h) /\ h[1].n < t
  <2>1. Len(h) >= 1
    BY <1>1, <1>2, <1>4
  <2>2. c[1] = h[1]
    BY <1>2, <2>1
  <2>3. h[1] # In(t) /\ h[1] # Out(r)
    BY <1>1, <1>4 DEF Opens
  <2>4. ASSUME NEW i \in 2 .. Len(c) PROVE c[i] # c[1]
    <3>1. CASE i <= Len(h)
      BY <1>2, <1>4, <2>2, <3>1 DEF Opens
    <3>2. CASE ~(i <= Len(h))
      <4>1. i - Len(h) \in {1, 2} /\ i \in 1 .. Len(h) + 2
        BY <1>2, <3>2
      <4>2. c[i] = In(t) \/ c[i] = Out(r)
        BY <1>1, <1>2, <3>2, <4>1
      <4> QED BY <2>2, <2>3, <4>2
    <3> QED BY <3>1, <3>2
  <2>5. c # << >> /\ h[1].kind = "in" /\ h[1].n <= t
    <3>1. Len(c) # 0
      BY <1>2
    <3>2. h[1].n \in Nat
      <4>1. 1 \in 1 .. Len(h)
        BY <1>2, <2>1
      <4>2. h[1] \in Item
        BY <1>1, <4>1, ElementOfSeq
      <4> QED BY <4>2 DEF Item
    <3> QED BY <1>4, <3>1, <3>2 DEF Opens
  <2> QED BY <2>2, <2>4, <2>5 DEF Opens, c, end
<1> QED BY <1>3, <1>4

(* What each handler finds, and where the request is then.                 *)
LEMMA KindOfFrame ==
  ASSUME NEW r, NEW class
  PROVE  /\ OutputItem(r).kind = "item" /\ Completed(r).kind = "completed"
         /\ Error(class).kind = "error"
         /\ OutputItem(r).r = r /\ Completed(r).r = r /\ OutputItem(r).output = <<Out(r)>>
         /\ Completed(r).output = IF scenario.omits THEN << >> ELSE <<Out(r)>>
BY DEF OutputItem, Completed, Error

LEMMA FrameFound ==
  ASSUME Types, Pipeline, down # << >>
  PROVE  /\ client.waiting /\ up = << >>
         /\ \/ /\ Head(down) = OutputItem(Len(ctx)) /\ NewResponse
               /\ \/ Answered /\ Tail(down) = <<Completed(Len(ctx))>>
                  \/ Failed /\ \E class \in ErrorClass : Tail(down) = <<Error(class)>>
            \/ Head(down) = Completed(Len(ctx)) /\ Streamed /\ Tail(down) = << >>
            \/ Refused /\ Tail(down) = << >> /\ \E class \in ErrorClass : Head(down) = Error(class)
<1>1. client.waiting
  BY DEF Pipeline
<1>2. \A a : Head(<<a>>) = a /\ Tail(<<a>>) = << >>
  OBVIOUS
<1>3. \A a, b : Head(<<a, b>>) = a /\ Tail(<<a, b>>) = <<b>>
  OBVIOUS
<1>4. CASE Sent
  BY <1>4 DEF Sent
<1>5. CASE Refused
  BY <1>1, <1>2, <1>5 DEF Refused
<1>6. CASE Answered
  BY <1>1, <1>3, <1>6 DEF Answered
<1>7. CASE Streamed
  BY <1>1, <1>2, <1>7 DEF Streamed
<1>8. CASE Failed
  BY <1>1, <1>3, <1>8 DEF Failed
<1> QED BY <1>1, <1>4, <1>5, <1>6, <1>7, <1>8 DEF Pipeline

LEMMA ItemHandled ==
  ASSUME Types, Pipeline, down # << >>, HandleItem(Head(down))
  PROVE  /\ Head(down) = OutputItem(Len(ctx)) /\ NewResponse
         /\ client.waiting /\ UNCHANGED <<client, history, ctx, up, scenario, store>>
         /\ adapter' = [adapter EXCEPT !.pendingOutput = @ \o <<Out(Len(ctx))>>]
         /\ \/ Answered /\ Streamed'
            \/ Failed /\ Refused'
<1>1. Head(down).kind = "item"
  BY DEF HandleItem
<1>2. /\ Head(down) = OutputItem(Len(ctx)) /\ NewResponse /\ client.waiting /\ up = << >>
      /\ \/ Answered /\ Tail(down) = <<Completed(Len(ctx))>>
         \/ Failed /\ \E class \in ErrorClass : Tail(down) = <<Error(class)>>
  BY <1>1, FrameFound, KindOfFrame
<1>3. UNCHANGED <<client, history, ctx, up, scenario, store>> /\ down' = Tail(down)
  BY <1>1 DEF HandleItem, Forward, TakeFrame, serverVars, envVars
<1>4. adapter' = [adapter EXCEPT !.pendingOutput = @ \o <<Out(Len(ctx))>>]
  <2>1. Head(down).output = <<Out(Len(ctx))>>
    BY <1>2 DEF OutputItem
  <2> QED BY <2>1 DEF HandleItem
<1>5. ASSUME Answered, Tail(down) = <<Completed(Len(ctx))>> PROVE Streamed'
  <2>1. Completed(Len(ctx))' = Completed(Len(ctx))
    BY <1>3 DEF Completed
  <2>2. Streamed'
    BY <1>2, <1>3, <1>5, <2>1 DEF Streamed, NewResponse
  <2> QED BY <2>2
<1>6. ASSUME Failed, \E class \in ErrorClass : Tail(down) = <<Error(class)>> PROVE Refused'
  BY <1>2, <1>3, <1>6 DEF Refused
<1>7. \/ Answered /\ Streamed'
      \/ Failed /\ Refused'
  BY <1>2, <1>5, <1>6
<1> QED BY <1>2, <1>3, <1>4, <1>7

LEMMA CompletedHandled ==
  ASSUME Types, Pipeline, down # << >>, HandleCompleted(Head(down))
  PROVE  /\ Head(down) = Completed(Len(ctx)) /\ Streamed /\ NewResponse
         /\ client.waiting /\ UNCHANGED <<ctx, scenario, events>>
         /\ up' = << >> /\ down' = << >>
         /\ client' = [client EXCEPT !.waiting = FALSE, !.last = Len(ctx)]
         /\ history' = [r \in DOMAIN history \cup {Len(ctx)} |->
              IF r = Len(ctx)
                THEN history[client.last] \o <<In(client.turn), Out(Len(ctx))>>
                ELSE history[r]]
<1>1. Head(down).kind = "completed"
  BY DEF HandleCompleted
<1>2. /\ Head(down) = Completed(Len(ctx)) /\ Streamed /\ Tail(down) = << >>
      /\ client.waiting /\ up = << >>
  BY <1>1, FrameFound, KindOfFrame
<1>3. Head(down).r = Len(ctx)
  BY <1>2, KindOfFrame
<1>4. Forward(Head(down)) /\ down' = << >> /\ up' = << >> /\ UNCHANGED <<ctx, scenario, events>>
  BY <1>2 DEF HandleCompleted, TakeFrame, serverVars, envVars
<1>5. /\ client' = [client EXCEPT !.waiting = FALSE, !.last = Len(ctx)]
      /\ history' = [r \in DOMAIN history \cup {Len(ctx)} |->
           IF r = Len(ctx)
             THEN history[client.last] \o <<In(client.turn), Out(Len(ctx))>>
             ELSE history[r]]
  BY <1>1, <1>2, <1>3, <1>4 DEF Forward
<1> QED BY <1>2, <1>4, <1>5 DEF Streamed

LEMMA ErrorHandled ==
  ASSUME Types, Pipeline, down # << >>, NEW f, f = Head(down),
         FailRecovery(f) \/ RetryRequest(f) \/ SurfaceError(f)
  PROVE  /\ Refused /\ client.waiting /\ f.kind = "error"
         /\ UNCHANGED <<history, ctx, scenario, events, store>>
         /\ down' = << >>
         /\ \/ /\ RetryRequest(f) /\ UNCHANGED client /\ Sent'
               /\ up' = <<[prev |-> 0, input |-> adapter.pendingRecovery.input,
                           pruned |-> FALSE]>>
            \/ /\ ~RetryRequest(f) /\ up' = << >>
               /\ client' = [client EXCEPT !.waiting = FALSE]
               /\ adapter'.degraded
<1>1. f.kind = "error" /\ TakeFrame /\ store' = store
  BY DEF FailRecovery, RetryRequest, SurfaceError, TakeError
<1>2. Refused /\ Tail(down) = << >> /\ client.waiting /\ up = << >>
  BY <1>1, FrameFound, KindOfFrame
<1>3. UNCHANGED <<ctx, scenario, events>> /\ down' = << >>
  BY <1>1, <1>2 DEF TakeFrame, serverVars, envVars
<1>4. adapter \in Adapter /\ Used(adapter, f.class) \in Adapter
  BY UsedUp DEF Types, AdapterTypes
<1>5. CASE RetryRequest(f)
  <2>1. up' = <<[prev |-> 0, input |-> adapter.pendingRecovery.input, pruned |-> FALSE]>>
    BY <1>2, <1>5 DEF RetryRequest
  <2> QED BY <1>1, <1>2, <1>3, <1>5, <2>1 DEF RetryRequest, Sent
<1>6. CASE FailRecovery(f) \/ SurfaceError(f)
  <2>1. up' = << >>
    BY <1>2, <1>6 DEF FailRecovery, SurfaceError
  <2>2. Forward(f)
    BY <1>6 DEF FailRecovery, SurfaceError
  <2>3. client' = [client EXCEPT !.waiting = FALSE, !.last = client.last] /\ history' = history
    BY <1>1, <1>2, <2>2 DEF Forward
  <2>4. client' = [client EXCEPT !.waiting = FALSE]
    BY <2>3 DEF Types, ClientTypes
  <2>5. adapter'.degraded
    BY <1>4, <1>6 DEF FailRecovery, SurfaceError, Adapter
  <2>6. ~RetryRequest(f)
    BY <1>2, <2>4 DEF RetryRequest, Types, ClientTypes
  <2> QED BY <1>1, <1>2, <1>3, <2>1, <2>3, <2>4, <2>5, <2>6
<1> QED BY <1>5, <1>6

(* A request: its chain is some chain and the new input; what is sent      *)
(* continues the last response or brings the chain along; and there is a   *)
(* candidate only with that chain.  An adapter that must expand but is     *)
(* degraded sends the client's own body and remembers the input alone.     *)
RequestChain(x, body) ==
  LET last == client.last
      new == <<In(client.turn + 1)>>
  IN  \/ /\ last # 0 /\ x = ResponseChain(last)
         /\ scenario.serverState \/ StatelessContinuationChain(last) = << >>
         /\ body.prev = last /\ body.input = new
      \/ /\ last # 0 /\ x = StatelessContinuationChain(last)
         /\ ~scenario.serverState /\ ~adapter.degraded
         /\ body.prev = 0 /\ body.input = x \o new
      \/ /\ last # 0 /\ x = << >>
         /\ ~scenario.serverState /\ adapter.degraded
         /\ body.prev = last /\ body.input = new
      \/ x = history[last] /\ body.prev = 0 /\ body.input = x \o new

LEMMA RequestMade ==
  ASSUME Types, history[0] = << >>, HandleRequest
  PROVE  \E x \in Chain, body \in Body :
           /\ RequestChain(x, body)
           /\ up' = Append(up, body)
           /\ adapter' \in Adapter
           /\ adapter'.pendingChain = x \o <<In(client.turn + 1)>>
           /\ adapter'.pendingOutput = << >> /\ adapter'.pendingExport
           /\ adapter'.responseChains = adapter.responseChains
           /\ adapter'.degraded = adapter.degraded
           /\ \/ adapter'.pendingRecovery = NoCandidate
              \/ /\ adapter'.pendingRecovery.input = adapter'.pendingChain
                 /\ ~(adapter.degraded /\ ~scenario.serverState /\ x = << >> /\ client.last # 0)
<1> USE DEF Types
<1> DEFINE last == client.last
           new == <<In(client.turn + 1)>>
<1>1. PICK body \in ClientBodies, pruned \in BOOLEAN, rewritten \in BOOLEAN :
        LET out == IF Expands(body) THEN Expanded(body) ELSE body
            forwarded == IF adapter.degraded THEN body ELSE out
            arms == \/ Expands(body)
                    \/ rewritten
                    \/ pruned /\ Shape(out) = "full_history"
        IN  /\ pruned => ~adapter.degraded /\ out.prev = 0
            /\ rewritten => ~adapter.degraded /\ Shape(out) # "root"
            /\ adapter' = Prepared(
                 [adapter EXCEPT !.historyStatelessMode = @ \/ arms],
                 forwarded, out.prev, pruned)
            /\ up' = Append(up, [forwarded EXCEPT !.pruned = pruned])
  BY DEF HandleRequest
<1> DEFINE out == IF Expands(body) THEN Expanded(body) ELSE body
           sent == IF adapter.degraded THEN body ELSE out
           arms == \/ Expands(body) \/ rewritten
                   \/ pruned /\ Shape(out) = "full_history"
           a == [adapter EXCEPT !.historyStatelessMode = @ \/ arms]
           prior == IF out.prev # 0 THEN ResponseChain(out.prev) ELSE << >>
           candidate == IF prior # << >> \/ pruned
                          THEN [input |-> prior \o sent.input, prev |-> out.prev,
                                pruned |-> pruned, used |-> FALSE]
                          ELSE NoCandidate
<1>2. /\ adapter' = Prepared(a, sent, out.prev, pruned)
      /\ up' = Append(up, [sent EXCEPT !.pruned = pruned])
      /\ pruned => ~adapter.degraded /\ out.prev = 0
  BY <1>1
<1>3. adapter' = [a EXCEPT !.pendingChain = prior \o sent.input, !.pendingOutput = << >>,
                           !.pendingExport = TRUE, !.pendingRecovery = candidate]
  BY <1>2 DEF Prepared
<1>4. /\ out \in Body /\ sent \in Body /\ body \in Body
      /\ a \in Adapter
  <2>1. out \in Body /\ sent \in Body /\ body \in Body
    BY BodiesAreBodies
  <2>2. arms \in BOOLEAN
    OBVIOUS
  <2> HIDE DEF arms
  <2> QED BY <2>1, <2>2 DEF AdapterTypes, Adapter
<1>5. /\ a.responseChains = adapter.responseChains /\ a.degraded = adapter.degraded
  BY DEF AdapterTypes, Adapter
<1> HIDE DEF a
<1>6. adapter' \in Adapter
  <2>1. out.prev \in Nat
    BY <1>4 DEF Body
  <2> HIDE DEF out, sent
  <2> QED BY <1>2, <1>4, <2>1, PreparedType
<1>7. /\ adapter'.pendingChain = prior \o sent.input
      /\ adapter'.pendingOutput = << >> /\ adapter'.pendingRecovery = candidate
      /\ adapter'.pendingExport
      /\ adapter'.responseChains = adapter.responseChains
      /\ adapter'.degraded = adapter.degraded
  <2> HIDE DEF prior, sent, candidate
  <2> QED BY <1>3, <1>4, <1>5 DEF Adapter
<1>8. \/ body = [prev |-> last, input |-> new, pruned |-> FALSE]
      \/ body = [prev |-> 0, input |-> history[last] \o new, pruned |-> FALSE]
  BY DEF ClientBodies
<1>9. /\ new \in Seq(Item) /\ history[last] \in Seq(Item) /\ history[last] \in Chain
      /\ << >> \in Chain
      /\ \A s \in Seq(Item) : << >> \o s = s
      /\ last \in Nat
  <2>1. client.turn + 1 \in Nat
    BY RecoveryAssumption DEF ClientTypes
  <2> QED BY <2>1, ItemsAreItems, ConcatEmptySeq DEF ClientTypes, Chain
<1>10. ResponseChain(last) \in Chain /\ StatelessContinuationChain(last) \in Chain
  BY LookedUp
<1> DEFINE upbody == [sent EXCEPT !.pruned = pruned]
<1>11. upbody \in Body /\ upbody.prev = sent.prev /\ upbody.input = sent.input
  <2> HIDE DEF sent
  <2> QED BY <1>4 DEF Body
<1> DEFINE Fits(x) == /\ x \in Chain /\ RequestChain(x, upbody)
                      /\ prior \o sent.input = x \o new
                      /\ \/ candidate = NoCandidate
                         \/ ~(adapter.degraded /\ ~scenario.serverState /\ x = << >> /\ last # 0)
<1>12. \E x \in Chain : Fits(x)
  <2>1. CASE body = [prev |-> 0, input |-> history[last] \o new, pruned |-> FALSE]
             \/ last = 0
    <3>1. body.prev = 0 /\ body.input = history[last] \o new
      <4>1. last = 0 => history[last] \o new = new
        BY <1>9
      <4> HIDE DEF new
      <4> QED BY <1>8, <2>1, <4>1
    <3>2. ~Expands(body)
      BY <3>1 DEF Expands
    <3>3. out = body /\ sent = body /\ prior = << >>
      BY <3>1, <3>2
    <3>4. prior \o sent.input = history[last] \o new
      <4>1. history[last] \o new \in Seq(Item)
        BY <1>9, ConcatProperties
      <4> QED BY <1>9, <3>1, <3>3, <4>1
    <3>5. upbody.prev = 0 /\ upbody.input = history[last] \o new
      BY <1>11, <3>1, <3>3
    <3>6. RequestChain(history[last], upbody)
      BY <3>5 DEF RequestChain
    <3>7. candidate = NoCandidate
          \/ ~(adapter.degraded /\ ~scenario.serverState /\ history[last] = << >> /\ last # 0)
      BY <3>3, <1>2
    <3> QED BY <1>9, <3>4, <3>6, <3>7
  <2>2. CASE body = [prev |-> last, input |-> new, pruned |-> FALSE] /\ last # 0 /\ ~Expands(body)
    <3>1. out = body /\ sent = body /\ prior = ResponseChain(last)
      BY <2>2
    <3>2. sent.input = new /\ sent.prev = last /\ out.prev = last
      BY <2>2, <3>1
    <3>3. RequestChain(ResponseChain(last), upbody)
      BY <1>11, <2>2, <3>2 DEF RequestChain, Expands
    <3>4. candidate = NoCandidate \/ ResponseChain(last) # << >>
      BY <1>2, <2>2, <3>1, <3>2
    <3> QED BY <1>10, <3>1, <3>2, <3>3, <3>4
  <2>3. CASE body = [prev |-> last, input |-> new, pruned |-> FALSE] /\ last # 0 /\ Expands(body)
    <3>1. /\ Expanded(body).prev = 0
          /\ Expanded(body).input = StatelessContinuationChain(last) \o new
      BY <2>3 DEF Expanded
    <3>2. out = Expanded(body) /\ prior = << >> /\ ~scenario.serverState
      BY <2>3, <3>1 DEF Expands
    <3>3. CASE adapter.degraded
      <4>1. sent = body /\ sent.input = new /\ sent.prev = last
        BY <2>3, <3>3
      <4>2. candidate = NoCandidate
        BY <1>2, <3>2, <3>3
      <4>3. RequestChain(<< >>, upbody)
        BY <1>11, <2>3, <3>2, <3>3, <4>1 DEF RequestChain
      <4> QED BY <1>9, <3>2, <4>1, <4>2, <4>3
    <3>4. CASE ~adapter.degraded
      <4>1. /\ sent.prev = 0 /\ sent.input = StatelessContinuationChain(last) \o new
        BY <3>1, <3>2, <3>4
      <4>2. RequestChain(StatelessContinuationChain(last), upbody)
        BY <1>11, <2>3, <3>2, <3>4, <4>1 DEF RequestChain
      <4>3. StatelessContinuationChain(last) \o new \in Seq(Item)
        BY <1>9, <1>10, ConcatProperties DEF Chain
      <4>4. prior \o sent.input = StatelessContinuationChain(last) \o new
        BY <1>9, <3>2, <4>1, <4>3
      <4> QED BY <1>10, <3>4, <4>2, <4>4
    <3> QED BY <3>3, <3>4
  <2> QED BY <1>8, <2>1, <2>2, <2>3
<1>13. PICK x \in Chain : Fits(x)
  BY <1>12
<1>14. candidate = NoCandidate \/ candidate.input = prior \o sent.input
  OBVIOUS
<1> HIDE DEF candidate, prior, sent, upbody
<1> QED BY <1>2, <1>6, <1>7, <1>11, <1>13, <1>14 DEF upbody

LEMMA ConversationsKept ==
  ASSUME Conversations, UNCHANGED history, Len(ctx) \in Nat, Len(ctx') \in Nat,
         Len(ctx) <= Len(ctx'), client'.turn = client.turn,
         client'.waiting => client.waiting
  PROVE  Conversations'
BY DEF Conversations, Opens

LEMMA RequestInPlace ==
  ASSUME Types, Pipeline, Conversations, HandleRequest
  PROVE  (Pipeline /\ Conversations)' /\ Sent'
<1>1. /\ client' = [client EXCEPT !.waiting = TRUE, !.turn = @ + 1]
      /\ UNCHANGED <<history, ctx, down, scenario>> /\ ~client.waiting
  BY DEF HandleRequest, serverVars, envVars
<1>2. up = << >> /\ down = << >>
  BY <1>1 DEF Pipeline
<1>3. PICK body \in Body : up' = Append(up, body)
  BY RequestMade DEF Conversations
<1>4. Len(up') = 1 /\ client'.waiting /\ client'.turn = client.turn + 1 /\ client.turn \in Nat
  BY <1>1, <1>2, <1>3, RecoveryAssumption DEF Types, ClientTypes
<1>5. Sent'
  BY <1>1, <1>2, <1>4 DEF Sent
<1>6. ASSUME NEW r \in DOMAIN history \ {0}
      PROVE  /\ history[r][1].n < client.turn + 1
             /\ history[r][1].n <= client.turn + 1
  <2>1. history[r] \in Seq(Item) /\ history[r] # << >> /\ history[r][1].n <= client.turn
    BY DEF Conversations, Opens, Types, ClientTypes, Chain
  <2>2. history[r][1] \in Item
    BY <2>1
  <2> QED BY <1>4, <2>1, <2>2 DEF Item
<1>7. Conversations'
  BY <1>1, <1>4, <1>6 DEF Conversations, Opens
<1> QED BY <1>4, <1>5, <1>7 DEF Pipeline

LEMMA CompletionInPlace ==
  ASSUME Types, Pipeline, Conversations, down # << >>, HandleCompleted(Head(down))
  PROVE  (Pipeline /\ Conversations)'
<1> DEFINE r == Len(ctx)
           h == history[client.last]
           c == h \o <<In(client.turn), Out(r)>>
<1>1. /\ UNCHANGED ctx /\ up' = << >> /\ down' = << >> /\ client.waiting /\ NewResponse
      /\ client' = [client EXCEPT !.waiting = FALSE, !.last = r]
      /\ history' = [id \in DOMAIN history \cup {r} |-> IF id = r THEN c ELSE history[id]]
  BY CompletedHandled
<1>2. /\ r \in Nat /\ r \notin DOMAIN history /\ r # 0
      /\ client.turn \in Nat /\ h \in Chain /\ client.last \in DOMAIN history
  BY <1>1, RecoveryAssumption, LenProperties
  DEF Types, ClientTypes, ServerTypes, NewResponse, Conversations
<1>3. h = << >> \/ (Opens(h) /\ h[1].n < client.turn)
  BY <1>1, <1>2 DEF Conversations
<1>4. Opens(c) /\ c[1].n <= client.turn
  BY <1>2, <1>3, OpensOnce
<1>5. client'.waiting = FALSE /\ client'.turn = client.turn
  BY <1>1 DEF Types, ClientTypes
<1> HIDE DEF c, r, h
<1>6. /\ DOMAIN history' = DOMAIN history \cup {r}
      /\ history'[r] = c
      /\ \A id \in DOMAIN history \ {r} : history'[id] = history[id]
  BY <1>1
<1>7. ASSUME NEW id \in DOMAIN history' \ {0}
      PROVE  Opens(history'[id]) /\ history'[id][1].n <= client.turn
  BY <1>2, <1>4, <1>6 DEF Conversations
<1>8. 0 \in DOMAIN history' /\ history'[0] = << >>
  BY <1>2, <1>6 DEF Conversations
<1>9. DOMAIN history' \subseteq 0 .. Len(ctx')
  BY <1>1, <1>2, <1>6 DEF Conversations, r
<1>10. Conversations'
  BY <1>5, <1>7, <1>8, <1>9 DEF Conversations, Opens
<1> QED BY <1>1, <1>5, <1>10 DEF Pipeline

LEMMA AnswerInPlace ==
  ASSUME Types, Pipeline, Conversations, ServerAnswers
  PROVE  /\ (Pipeline /\ Conversations)' /\ client.waiting /\ Sent
         /\ UNCHANGED <<adapter, store, client, history, scenario, events>>
         /\ ~Streamed'
         /\ \/ Refused' /\ ctx' = ctx
            \/ /\ Answered' \/ Failed'
               /\ ctx' = Append(ctx, (IF up[1].prev = 0 THEN << >> ELSE ctx[up[1].prev])
                                     \o up[1].input \o <<Out(Len(ctx) + 1)>>)
<1> DEFINE body == Head(up)
           r == Len(ctx) + 1
<1>1. client.waiting /\ Sent /\ up # << >>
  BY DEF ServerAnswers, Pipeline, Refused, Answered, Streamed, Failed
<1>2. /\ UNCHANGED <<adapter, store, client, history, scenario, events>> /\ up' = Tail(up)
  BY DEF ServerAnswers, Accept, Reject, TakeBody, envVars
<1>3. Tail(up) = << >> /\ down = << >> /\ body = up[1]
  <2>1. up \in Seq(Body) /\ Len(up) = 1 /\ down = << >>
    BY <1>1 DEF Sent, Types, ServerTypes
  <2>2. Tail(up) \in Seq(Body) /\ Len(Tail(up)) = 0
    BY <1>1, <2>1, HeadTailProperties
  <2>3. Tail(up) = << >>
    BY <2>2, EmptySeq
  <2>4. Head(up) = up[1]
    BY <2>1
  <2> QED BY <2>1, <2>3, <2>4
<1>4. Len(ctx) \in Nat
  BY LenProperties DEF Types, ServerTypes
<1>5. CASE Accept(body)
  <2> DEFINE c == (IF up[1].prev = 0 THEN << >> ELSE ctx[up[1].prev])
                  \o up[1].input \o <<Out(r)>>
  <2>1. ctx' = Append(ctx, c)
    BY <1>3, <1>5 DEF Accept
  <2>2. Len(ctx') = r
    <3> HIDE DEF c
    <3> QED BY <2>1 DEF Types, ServerTypes
  <2>3. NewResponse'
    BY <1>2, <1>4, <2>2 DEF NewResponse, Conversations
  <2>5. \A a, b : << >> \o <<a, b>> = <<a, b>>
    OBVIOUS
  <2>6. \/ down' = <<OutputItem(r), Completed(r)>>
        \/ scenario.midstream /\ \E class \in ErrorClass : down' = <<OutputItem(r), Error(class)>>
    BY <1>3, <1>5, <2>5 DEF Accept
  <2>7. CASE down' = <<OutputItem(r), Completed(r)>>
    <3>1. OutputItem(Len(ctx))' = OutputItem(r) /\ Completed(Len(ctx))' = Completed(r)
      BY <1>2, <2>2 DEF OutputItem, Completed
    <3>2. Answered'
      BY <1>2, <1>3, <2>3, <2>7, <3>1 DEF Answered
    <3>3. Len(down') = 2
      BY <2>7
    <3>4. ~Streamed'
      BY <3>3 DEF Streamed
    <3> QED BY <1>1, <1>2, <1>4, <2>1, <2>2, <3>2, <3>4, ConversationsKept DEF Pipeline
  <2>8. CASE scenario.midstream /\ \E class \in ErrorClass : down' = <<OutputItem(r), Error(class)>>
    <3>1. OutputItem(Len(ctx))' = OutputItem(r)
      BY <1>2, <2>2 DEF OutputItem
    <3>2. Failed'
      BY <1>2, <1>3, <2>3, <2>8, <3>1 DEF Failed
    <3>3. Len(down') = 2
      BY <2>8
    <3>4. ~Streamed'
      BY <3>3 DEF Streamed
    <3> QED BY <1>1, <1>2, <1>4, <2>1, <2>2, <3>2, <3>4, ConversationsKept DEF Pipeline
  <2> QED BY <2>6, <2>7, <2>8
<1>6. CASE Reject(body)
  <2>1. PICK class \in ErrorClass : down' = <<Error(class)>>
    BY <1>3, <1>6 DEF Reject
  <2>2. ctx' = ctx
    BY <1>6 DEF Reject, serverVars
  <2>3. Refused'
    BY <1>2, <1>3, <2>1 DEF Refused
  <2>4. ~Streamed'
    <3>1. down'[1].kind = "error" /\ Completed(Len(ctx')) # down'[1]
      BY <2>1, KindOfFrame DEF Error, Completed
    <3> QED BY <2>1, <3>1 DEF Streamed, Completed
  <2> QED BY <1>1, <1>2, <1>4, <2>2, <2>3, <2>4, ConversationsKept DEF Pipeline
<1> QED BY <1>5, <1>6 DEF ServerAnswers

LEMMA ScenarioStays == [RecoveryNext]_recoveryVars => scenario' = scenario
BY DEF RecoveryNext, recoveryVars, envVars, HandleRequest, HandleFrame, HandleItem, TakeFrame,
       HandleCompleted, FailRecovery, RetryRequest, SurfaceError, TakeError, ServerAnswers,
       Accept, Reject, TakeBody, Forget, Reconnect, DaemonRestart, OtherSessionExports,
       StrayError, Happens, Quiet

LEMMA OneAtATimeStep ==
  Types /\ OneAtATime /\ [RecoveryNext]_recoveryVars => OneAtATime'
<1> SUFFICES ASSUME Types, OneAtATime, [RecoveryNext]_recoveryVars, scenario'.strays = 0
             PROVE  (Pipeline /\ Conversations)'
  BY DEF OneAtATime
<1>1. scenario' = scenario
  BY ScenarioStays
<1>2. Pipeline /\ Conversations /\ scenario.strays = 0
  BY <1>1 DEF OneAtATime
<1>3. Len(ctx) \in Nat
  BY LenProperties DEF Types, ServerTypes
<1>4. CASE HandleRequest
  BY <1>2, <1>4, RequestInPlace
<1>5. CASE HandleFrame
  <2>1. down # << >>
    BY <1>5 DEF HandleFrame
  <2>2. CASE HandleItem(Head(down))
    <3>1. /\ client.waiting /\ UNCHANGED <<client, history, ctx>>
          /\ Streamed' \/ Refused'
      BY <1>2, <2>1, <2>2, ItemHandled
    <3> QED BY <1>2, <1>3, <3>1, ConversationsKept DEF Pipeline
  <2>3. CASE HandleCompleted(Head(down))
    BY <1>2, <2>1, <2>3, CompletionInPlace
  <2>4. CASE \/ FailRecovery(Head(down)) \/ RetryRequest(Head(down)) \/ SurfaceError(Head(down))
    <3>1. /\ client.waiting /\ UNCHANGED <<history, ctx>> /\ down' = << >>
          /\ \/ UNCHANGED client /\ Sent'
             \/ up' = << >> /\ client' = [client EXCEPT !.waiting = FALSE]
      BY <1>2, <2>1, <2>4, ErrorHandled
    <3>2. client'.turn = client.turn /\ (client' = client \/ ~client'.waiting)
      BY <3>1 DEF Types, ClientTypes
    <3>3. Conversations'
      BY <1>2, <1>3, <3>1, <3>2, ConversationsKept
    <3>4. CASE UNCHANGED client /\ Sent'
      BY <3>1, <3>3, <3>4 DEF Pipeline
    <3>5. CASE up' = << >> /\ client' = [client EXCEPT !.waiting = FALSE]
      <4>1. ~client'.waiting
        BY <3>5 DEF Types, ClientTypes
      <4> QED BY <3>1, <3>3, <3>5, <4>1 DEF Pipeline
    <3> QED BY <3>1, <3>4, <3>5
  <2> QED BY <1>5, <2>2, <2>3, <2>4 DEF HandleFrame
<1>6. CASE ServerAnswers
  BY <1>2, <1>6, AnswerInPlace
<1>7. CASE Reconnect \/ DaemonRestart
  <2>1. /\ client' = [client EXCEPT !.waiting = FALSE] /\ UNCHANGED <<history, ctx>>
        /\ up' = << >> /\ down' = << >>
    BY <1>7 DEF Reconnect, DaemonRestart, FreshConnection, Happens, serverVars
  <2>2. client'.turn = client.turn /\ ~client'.waiting
    BY <2>1 DEF Types, ClientTypes
  <2> QED BY <1>2, <1>3, <2>1, <2>2, ConversationsKept DEF Pipeline
<1>8. ~StrayError
  <2>1. events.strays \in Nat
    BY DEF Types, EventTypes, Event
  <2> QED BY <1>2, <2>1 DEF StrayError, Happens
<1>9. CASE (\E r \in known : Forget(r)) \/ OtherSessionExports \/ UNCHANGED recoveryVars
  <2>1. UNCHANGED <<client, history, ctx, up, down, scenario>>
    BY <1>9 DEF Forget, OtherSessionExports, Happens, serverVars, envVars, recoveryVars
  <2>2. Pipeline'
    BY <1>2, <2>1 DEF Pipeline, Sent, Refused, Answered, Streamed, Failed, NewResponse, Completed
  <2> QED BY <1>2, <1>3, <2>1, <2>2, ConversationsKept
<1> QED BY <1>4, <1>5, <1>6, <1>7, <1>8, <1>9 DEF RecoveryNext, Quiet

LEMMA OneAtATimeInvariant == RecoverySpec => []OneAtATime
<1>1. RecoveryInit => OneAtATime
  <2> SUFFICES ASSUME RecoveryInit PROVE Pipeline /\ Conversations
    BY DEF OneAtATime
  <2>1. DOMAIN history = {0} /\ history[0] = << >> /\ Len(ctx) = 0
    BY DEF RecoveryInit
  <2> QED BY <2>1 DEF RecoveryInit, Pipeline, Conversations
<1> QED BY <1>1, OneAtATimeStep, TypesInvariant, PTL DEF RecoverySpec

-----------------------------------------------------------------------------
(* Chains are tails of conversations.                                      *)

IsTail(c, h) == c # << >> /\ \E p \in Chain : h = p \o c

(* The conversation with the input that is being answered.                 *)
Now == history[client.last] \o <<In(client.turn)>>

TailsOf(m) ==
  \A r \in DOMAIN m.chains \cap Nat :
    r \in DOMAIN history \ {0} /\ IsTail(m.chains[r], history[r])

(* A chain may begin late (after an eviction, a restart, a degraded        *)
(* request) but then goes on to the end without a gap, and the streamed    *)
(* items are those of the response that is being handled.                  *)
Tails ==
  /\ client.waiting => IsTail(adapter.pendingChain, Now)
  /\ client.waiting /\ ~scenario.midstream =>
       adapter.pendingOutput = IF Streamed THEN <<Out(Len(ctx))>> ELSE << >>
  /\ TailsOf(adapter.responseChains) /\ TailsOf(store)

(* While a request is under way its chain has not been exported.           *)
Unexported == client.waiting => adapter.pendingExport

OrderlyTails == Orderly => Tails /\ Unexported

LEMMA ChainAlgebra ==
  ASSUME NEW a \in Chain, NEW b \in Chain, NEW c \in Chain
  PROVE  /\ (a \o b) \o c = a \o (b \o c)
         /\ a \o << >> = a /\ << >> \o a = a
         /\ << >> \in Chain
<1>1. a \in Seq(Item) /\ b \in Seq(Item) /\ c \in Seq(Item)
  BY DEF Chain
<1> QED BY <1>1, ConcatAssociative, ConcatEmptySeq DEF Chain

LEMMA PairJoined ==
  ASSUME NEW a, NEW b PROVE <<a>> \o <<b>> = <<a, b>>
<1> DEFINE s == <<a>>
           u == <<b>>
           p == <<a, b>>
<1>1. /\ s \in Seq({a, b}) /\ u \in Seq({a, b}) /\ p \in Seq({a, b})
      /\ Len(s) = 1 /\ Len(u) = 1 /\ Len(p) = 2
      /\ s[1] = a /\ u[1] = b /\ p[1] = a /\ p[2] = b
  OBVIOUS
<1> HIDE DEF s, u, p
<1>2. /\ s \o u \in Seq({a, b}) /\ Len(s \o u) = Len(s) + Len(u)
      /\ \A i \in 1 .. Len(s) + Len(u) :
           (s \o u)[i] = IF i <= Len(s) THEN s[i] ELSE u[i - Len(s)]
  BY <1>1, ConcatProperties
<1>3. Len(s \o u) = 2 /\ (s \o u)[1] = a /\ (s \o u)[2] = b
  BY <1>1, <1>2
<1>4. \A i \in 1 .. 2 : (s \o u)[i] = p[i]
  <2>1. \A i \in 1 .. 2 : i = 1 \/ i = 2
    OBVIOUS
  <2> QED BY <2>1, <1>1, <1>3
<1>5. s \o u = p
  BY <1>1, <1>2, <1>3, <1>4, SeqEqual
<1> QED BY <1>5 DEF s, u, p

LEMMA TailGrows ==
  ASSUME NEW c \in Chain, NEW h \in Chain, NEW d \in Chain,
         c = << >> \/ IsTail(c, h), d # << >>
  PROVE  IsTail(c \o d, h \o d)
<1>1. PICK p \in Chain : h = p \o c
  <2>1. CASE c = << >>
    BY <2>1, ChainAlgebra
  <2>2. CASE IsTail(c, h)
    BY <2>2 DEF IsTail
  <2> QED BY <2>1, <2>2
<1>2. h \o d = p \o (c \o d)
  BY <1>1, ChainAlgebra
<1>3. c \o d # << >>
  BY ChainsJoin
<1> QED BY <1>2, <1>3 DEF IsTail

LEMMA WholeIsTail ==
  ASSUME NEW h \in Chain, h # << >> PROVE IsTail(h, h)
<1>1. h = << >> \o h /\ << >> \in Chain
  BY ChainAlgebra
<1> QED BY <1>1 DEF IsTail

LEMMA NotYetStreamed ==
  (Sent \/ Answered \/ Refused \/ Failed) => ~Streamed
<1>1. ASSUME Sent PROVE ~Streamed
  BY <1>1 DEF Sent, Streamed
<1>2. ASSUME Answered PROVE ~Streamed
  <2>1. Len(down) = 2
    BY <1>2 DEF Answered
  <2> QED BY <2>1 DEF Streamed
<1>3. ASSUME Failed PROVE ~Streamed
  <2>1. Len(down) = 2
    BY <1>3 DEF Failed
  <2> QED BY <2>1 DEF Streamed
<1>4. ASSUME Refused PROVE ~Streamed
  <2>1. down[1].kind = "error" /\ Completed(Len(ctx)) # down[1]
    BY <1>4 DEF Refused, Error, Completed
  <2> QED BY <2>1 DEF Streamed
<1> QED BY <1>1, <1>2, <1>3, <1>4

LEMMA NowIsChain ==
  ASSUME Types
  PROVE  /\ history[client.last] \in Chain /\ client.turn \in Nat
         /\ <<In(client.turn)>> \in Chain \ {<< >>}
         /\ <<In(client.turn + 1)>> \in Chain \ {<< >>}
         /\ Now \in Chain
<1>1. history[client.last] \in Chain /\ client.turn \in Nat /\ client.turn + 1 \in Nat
  BY RecoveryAssumption DEF Types, ClientTypes
<1>2. \A n \in Nat : <<In(n)>> \in Chain \ {<< >>}
  BY ItemsAreItems DEF Chain
<1> QED BY <1>1, <1>2, ChainsJoin DEF Now

(* What the adapter remembers is its pending chain and the response, and   *)
(* the conversation is extended by the input and the response.             *)
LEMMA ResponseRemembered ==
  ASSUME Types, Orderly, Tails, Unexported, Pipeline, Conversations, down # << >>,
         HandleCompleted(Head(down))
  PROVE  LET r == Len(ctx)
             c == adapter.pendingChain \o <<Out(r)>>
         IN  /\ r \in Nat \ {0} /\ r \notin DOMAIN history
             /\ adapter.pendingChain # << >> /\ c \in Chain \ {<< >>}
             /\ Now \o <<Out(r)>> \in Chain
             /\ <<Out(r)>> \in Chain \ {<< >>}
             /\ adapter'.responseChains = Put(adapter.responseChains, r, c)
             /\ store' = Put(store, r, c)
             /\ DOMAIN history' = DOMAIN history \cup {r}
             /\ history'[r] = Now \o <<Out(r)>>
             /\ \A id \in DOMAIN history : history'[id] = history[id]
             /\ client' = [client EXCEPT !.waiting = FALSE, !.last = r]
             /\ client'.last = r /\ ~client'.waiting
             /\ adapter'.degraded = adapter.degraded
             /\ client.waiting /\ UNCHANGED <<ctx, scenario, events>>
             /\ up' = << >> /\ down' = << >> /\ Streamed
<1> DEFINE r == Len(ctx)
           c == adapter.pendingChain \o <<Out(r)>>
<1>1. /\ Head(down) = Completed(r) /\ Streamed /\ NewResponse
      /\ client.waiting /\ UNCHANGED <<ctx, scenario, events>>
      /\ client' = [client EXCEPT !.waiting = FALSE, !.last = r]
      /\ up' = << >> /\ down' = << >>
      /\ history' = [id \in DOMAIN history \cup {r} |->
           IF id = r THEN history[client.last] \o <<In(client.turn), Out(r)>>
           ELSE history[id]]
  BY CompletedHandled
<1>2. r \in Nat /\ r \notin DOMAIN history
  BY <1>1, LenProperties DEF NewResponse, Types, ServerTypes
<1>3. adapter.pendingChain # << >> /\ adapter.pendingChain \in Chain /\ Head(down).r = r
  <2>1. Head(down).r = r
    BY <1>1 DEF Completed
  <2> QED BY <1>1, <2>1 DEF Tails, IsTail, Types, AdapterTypes, Adapter
<1>4. Remembered(Head(down)) = c
  <2>1. Head(down).output = IF scenario.omits THEN << >> ELSE <<Out(r)>>
    BY <1>1 DEF Completed
  <2>2. CASE scenario.omits
    <3>1. adapter.pendingOutput = <<Out(r)>>
      BY <1>1, <2>2 DEF Tails, Orderly
    <3> QED BY <2>1, <2>2, <3>1 DEF Remembered
  <2>3. CASE ~scenario.omits
    <3>1. Head(down).output = <<Out(r)>> /\ <<Out(r)>> # << >>
      BY <2>1, <2>3
    <3> QED BY <3>1 DEF Remembered
  <2> QED BY <2>2, <2>3
<1>5. <<Out(r)>> \in Chain \ {<< >>} /\ c \in Chain \ {<< >>}
  <2>1. <<Out(r)>> \in Chain \ {<< >>}
    BY <1>2, ItemsAreItems DEF Chain
  <2> QED BY <1>3, <2>1, ChainsJoin
<1>6. Now \o <<Out(r)>> = history[client.last] \o <<In(client.turn), Out(r)>>
      /\ Now \o <<Out(r)>> \in Chain
  <2>1. /\ history[client.last] \in Chain /\ <<In(client.turn)>> \in Chain
        /\ Now \in Chain
    BY NowIsChain
  <2>2. Now \o <<Out(r)>> = history[client.last] \o (<<In(client.turn)>> \o <<Out(r)>>)
    BY <1>5, <2>1, ChainAlgebra DEF Now
  <2>3. <<In(client.turn)>> \o <<Out(r)>> = <<In(client.turn), Out(r)>>
    BY PairJoined
  <2> QED BY <1>5, <2>1, <2>2, <2>3, ChainsJoin
<1>7. adapter'.responseChains = Put(adapter.responseChains, r, c) /\ store' = Put(store, r, c)
      /\ adapter'.degraded = adapter.degraded
  <2>1. adapter.pendingExport
    BY <1>1 DEF Unexported
  <2> QED BY <1>3, <1>4, <2>1 DEF HandleCompleted, Types, AdapterTypes, Adapter
<1>8. client'.last = r /\ ~client'.waiting
  BY <1>1 DEF Types, ClientTypes
<1>9. r \in Nat \ {0}
  BY <1>2 DEF Conversations
<1> QED BY <1>1, <1>2, <1>3, <1>5, <1>6, <1>7, <1>8, <1>9

(* The same of the map put left, by a name of its own.                     *)
LEMMA PutKeeps ==
  ASSUME NEW m \in ChainMap, MapInv(m), NEW r \in Int, NEW c \in Chain \ {<< >>},
         NEW n, n = Put(m, r, c)
  PROVE  /\ n.chains[r] = c
         /\ \A id \in DOMAIN n.chains \ {r} :
              id \in DOMAIN m.chains /\ n.chains[id] = m.chains[id]
<1>1. Put(m, r, c).chains[r] = c
  BY PutMap
<1>2. \A id \in DOMAIN Put(m, r, c).chains \ {r} :
        id \in DOMAIN m.chains /\ Put(m, r, c).chains[id] = m.chains[id]
  BY PutMap
<1> QED BY <1>1, <1>2

(* The tails in a map after a response: its own, and those that were.      *)
LEMMA TailsAfterPut ==
  ASSUME NEW m \in ChainMap, MapInv(m), TailsOf(m), Types,
         NEW r \in Nat \ {0}, r \notin DOMAIN history, NEW c \in Chain \ {<< >>},
         DOMAIN history' = DOMAIN history \cup {r},
         \A id \in DOMAIN history : history'[id] = history[id],
         IsTail(c, history'[r]),
         NEW n, n = Put(m, r, c)
  PROVE  \A id \in DOMAIN n.chains \cap Nat :
           id \in DOMAIN history' \ {0} /\ IsTail(n.chains[id], history'[id])
<1>1. /\ n.chains[r] = c
      /\ \A id \in DOMAIN n.chains \ {r} : id \in DOMAIN m.chains /\ n.chains[id] = m.chains[id]
  <2>1. r \in Int
    OBVIOUS
  <2> QED BY <2>1, PutKeeps
<1> QED BY <1>1 DEF TailsOf

(* The flag is set with the request and cleared with its response; what is *)
(* handled in between leaves it.                                           *)
LEMMA UnexportedStep ==
  ASSUME Types, Pipeline, Conversations, Orderly, Unexported, [RecoveryNext]_recoveryVars
  PROVE  Unexported'
<1>1. CASE HandleRequest
  BY <1>1, RequestMade DEF Conversations, Unexported
<1>2. CASE HandleFrame
  <2>1. down # << >>
    BY <1>2 DEF HandleFrame
  <2>2. CASE HandleItem(Head(down))
    <3>1. /\ UNCHANGED client
          /\ adapter' = [adapter EXCEPT !.pendingOutput = @ \o <<Out(Len(ctx))>>]
      BY <2>1, <2>2, ItemHandled
    <3>2. adapter'.pendingExport = adapter.pendingExport
      BY <3>1 DEF Types, AdapterTypes, Adapter
    <3> QED BY <3>1, <3>2 DEF Unexported
  <2>3. CASE HandleCompleted(Head(down))
    <3>1. client' = [client EXCEPT !.waiting = FALSE, !.last = Len(ctx)]
      BY <2>1, <2>3, CompletedHandled
    <3>2. ~client'.waiting
      BY <3>1 DEF Types, ClientTypes
    <3> QED BY <3>2 DEF Unexported
  <2>4. CASE \/ FailRecovery(Head(down)) \/ RetryRequest(Head(down)) \/ SurfaceError(Head(down))
    <3>1. \/ RetryRequest(Head(down)) /\ UNCHANGED client
          \/ client' = [client EXCEPT !.waiting = FALSE]
      BY <2>1, <2>4, ErrorHandled
    <3>2. CASE RetryRequest(Head(down)) /\ UNCHANGED client
      <4> DEFINE a == Used(adapter, Head(down).class)
      <4>1. a \in Adapter /\ a.pendingExport = adapter.pendingExport
        BY UsedUp DEF Types
      <4> HIDE DEF a
      <4>2. adapter' = [a EXCEPT !.activeRecovery = TRUE, !.historyStatelessMode = TRUE]
        BY <3>2 DEF RetryRequest, a
      <4>3. adapter'.pendingExport = adapter.pendingExport
        BY <4>1, <4>2 DEF Adapter
      <4> QED BY <3>2, <4>3 DEF Unexported
    <3>3. CASE client' = [client EXCEPT !.waiting = FALSE]
      <4>1. ~client'.waiting
        BY <3>3 DEF Types, ClientTypes
      <4> QED BY <4>1 DEF Unexported
    <3> QED BY <3>1, <3>2, <3>3
  <2> QED BY <1>2, <2>2, <2>3, <2>4 DEF HandleFrame
<1>3. CASE ServerAnswers
  <2>1. UNCHANGED <<adapter, client>>
    BY <1>3, AnswerInPlace
  <2> QED BY <2>1 DEF Unexported
<1>4. CASE Reconnect \/ DaemonRestart
  <2>1. client' = [client EXCEPT !.waiting = FALSE]
    BY <1>4 DEF Reconnect, DaemonRestart, FreshConnection
  <2>2. ~client'.waiting
    BY <2>1 DEF Types, ClientTypes
  <2> QED BY <2>2 DEF Unexported
<1>5. CASE StrayError
  <2>1. events.strays \in Nat
    BY DEF Types, EventTypes, Event
  <2> QED BY <1>5, <2>1 DEF StrayError, Happens, Orderly, Unexported
<1>6. CASE OtherSessionExports \/ (\E r \in known : Forget(r)) \/ UNCHANGED recoveryVars
  <2>1. UNCHANGED <<client, adapter>>
    BY <1>6 DEF OtherSessionExports, Forget, recoveryVars
  <2> QED BY <2>1 DEF Unexported
<1> QED BY <1>1, <1>2, <1>3, <1>4, <1>5, <1>6 DEF RecoveryNext, Quiet

LEMMA TailsStep ==
  Types /\ OneAtATime /\ OrderlyTails /\ [RecoveryNext]_recoveryVars => OrderlyTails'
<1> SUFFICES ASSUME Types, OneAtATime, OrderlyTails, [RecoveryNext]_recoveryVars, Orderly'
             PROVE  Tails' /\ Unexported'
  BY DEF OrderlyTails
<1>1. scenario' = scenario /\ Types'
  BY ScenarioStays, TypesStep
<1>2. Orderly /\ Pipeline /\ Conversations /\ Tails /\ Unexported
  BY <1>1 DEF Orderly, OneAtATime, OrderlyTails
<1>13. Unexported'
  BY <1>2, UnexportedStep
<1> SUFFICES Tails'
  BY <1>13
<1>3. /\ adapter.responseChains \in ChainMap /\ MapInv(adapter.responseChains)
      /\ store \in ChainMap /\ MapInv(store)
  BY DEF Types, AdapterTypes, Adapter
(* Steps that leave the maps and the conversation alone.                   *)
<1>4. ASSUME adapter'.responseChains = adapter.responseChains, UNCHANGED <<store, history>>
      PROVE  TailsOf(adapter.responseChains)' /\ TailsOf(store)'
  BY <1>2, <1>4 DEF Tails, TailsOf
<1>5. CASE HandleRequest
  <2> DEFINE new == <<In(client.turn + 1)>>
  <2>1. PICK x \in Chain, body \in Body :
          /\ RequestChain(x, body)
          /\ adapter'.pendingChain = x \o new
          /\ adapter'.pendingOutput = << >>
          /\ adapter'.responseChains = adapter.responseChains
    BY <1>2, <1>5, RequestMade DEF Conversations
  <2>2. /\ client' = [client EXCEPT !.waiting = TRUE, !.turn = @ + 1]
        /\ UNCHANGED <<history, store>>
    BY <1>5 DEF HandleRequest
  <2>3. client'.last = client.last /\ client'.turn = client.turn + 1
    BY <2>2 DEF Types, ClientTypes
  <2>4. Now' = history[client.last] \o new
    BY <2>2, <2>3 DEF Now
  <2>5. history[client.last] \in Chain /\ new \in Chain \ {<< >>}
    BY NowIsChain
  <2>6. x = << >> \/ IsTail(x, history[client.last])
    <3>1. ASSUME Found(x, client.last) PROVE x = << >> \/ IsTail(x, history[client.last])
      <4>1. client.last \in Nat
        BY DEF Types, ClientTypes
      <4> QED BY <1>2, <3>1, <4>1 DEF Found, Tails, TailsOf
    <3>2. x = << >> \/ x = history[client.last] \/ Found(x, client.last)
      BY <2>1, LookedUp DEF RequestChain, Types
    <3> QED BY <2>5, <3>1, <3>2, WholeIsTail
  <2>7. IsTail(adapter'.pendingChain, Now')
    <3> HIDE DEF new
    <3>1. IsTail(x \o new, history[client.last] \o new)
      BY <2>5, <2>6, TailGrows
    <3> QED BY <2>1, <2>4, <3>1
  <2>8. ~Streamed'
    <3>1. Sent'
      BY <1>2, <1>5, RequestInPlace
    <3>2. Sent' => ~Streamed'
      BY NotYetStreamed, PTL
    <3> QED BY <3>1, <3>2
  <2>9. IsTail(adapter.pendingChain, Now)'
    BY <2>7 DEF IsTail
  <2> QED BY <1>4, <2>1, <2>2, <2>8, <2>9 DEF Tails
<1>6. CASE HandleFrame
  <2>1. down # << >>
    BY <1>6 DEF HandleFrame
  <2>2. CASE HandleItem(Head(down))
    <3>1. /\ client.waiting /\ UNCHANGED <<client, history, ctx, store>>
          /\ adapter' = [adapter EXCEPT !.pendingOutput = @ \o <<Out(Len(ctx))>>]
          /\ \/ Answered /\ Streamed'
             \/ Failed
      BY <1>2, <2>1, <2>2, ItemHandled
    <3>2. /\ adapter'.pendingChain = adapter.pendingChain
          /\ adapter'.responseChains = adapter.responseChains
          /\ adapter'.pendingOutput = adapter.pendingOutput \o <<Out(Len(ctx))>>
      BY <3>1 DEF Types, AdapterTypes, Adapter
    <3>3. Now' = Now
      BY <3>1 DEF Now
    <3>4. IsTail(adapter.pendingChain, Now)'
      BY <1>2, <3>1, <3>2, <3>3 DEF Tails, IsTail
    <3>5. ~scenario.midstream => Streamed' /\ adapter.pendingOutput = << >>
      BY <1>2, <3>1, NotYetStreamed DEF Failed, Tails
    <3>6. \A a : << >> \o <<a>> = <<a>>
      OBVIOUS
    <3>7. ~scenario.midstream => Streamed' /\ adapter'.pendingOutput = <<Out(Len(ctx'))>>
      BY <3>1, <3>2, <3>5, <3>6
    <3> QED BY <1>1, <1>4, <3>1, <3>2, <3>4, <3>7 DEF Tails, Out
  <2>3. CASE HandleCompleted(Head(down))
    <3> DEFINE r == Len(ctx)
               c == adapter.pendingChain \o <<Out(r)>>
    <3>1. /\ r \in Nat \ {0} /\ r \notin DOMAIN history
          /\ c \in Chain \ {<< >>}
          /\ <<Out(r)>> \in Chain \ {<< >>}
          /\ adapter'.responseChains = Put(adapter.responseChains, r, c)
          /\ store' = Put(store, r, c)
          /\ DOMAIN history' = DOMAIN history \cup {r}
          /\ history'[r] = Now \o <<Out(r)>>
          /\ \A id \in DOMAIN history : history'[id] = history[id]
          /\ ~client'.waiting /\ client.waiting
      BY <1>2, <2>1, <2>3, ResponseRemembered
    <3>2. IsTail(c, history'[r])
      <4>1. adapter.pendingChain \in Chain /\ Now \in Chain
        BY NowIsChain DEF Types, AdapterTypes, Adapter
      <4>2. IsTail(adapter.pendingChain, Now)
        BY <1>2, <3>1 DEF Tails
      <4> HIDE DEF r
      <4> QED BY <3>1, <4>1, <4>2, TailGrows
    <3> HIDE DEF r, c
    <3>3. ASSUME NEW m \in ChainMap, MapInv(m), TailsOf(m), NEW n, n = Put(m, r, c)
          PROVE  \A id \in DOMAIN n.chains \cap Nat :
                   id \in DOMAIN history' \ {0} /\ IsTail(n.chains[id], history'[id])
      BY <3>1, <3>2, <3>3, TailsAfterPut
    <3>4. TailsOf(adapter.responseChains)'
      <4>1. \A id \in DOMAIN adapter'.responseChains.chains \cap Nat :
              /\ id \in DOMAIN history' \ {0}
              /\ IsTail(adapter'.responseChains.chains[id], history'[id])
        BY <1>2, <1>3, <3>1, <3>3 DEF Tails
      <4> QED BY <4>1 DEF TailsOf, IsTail
    <3>5. TailsOf(store)'
      <4>1. \A id \in DOMAIN store'.chains \cap Nat :
              id \in DOMAIN history' \ {0} /\ IsTail(store'.chains[id], history'[id])
        BY <1>2, <1>3, <3>1, <3>3 DEF Tails
      <4> QED BY <4>1 DEF TailsOf, IsTail
    <3> QED BY <3>1, <3>4, <3>5 DEF Tails
  <2>4. CASE \/ FailRecovery(Head(down)) \/ RetryRequest(Head(down)) \/ SurfaceError(Head(down))
    <3>1. /\ Refused /\ client.waiting /\ UNCHANGED <<history, ctx, store>>
          /\ \/ RetryRequest(Head(down)) /\ UNCHANGED client /\ Sent'
             \/ client' = [client EXCEPT !.waiting = FALSE]
      BY <1>2, <2>1, <2>4, ErrorHandled
    <3>2. LET a == Used(adapter, Head(down).class)
          IN  /\ a \in Adapter /\ a.pendingChain = adapter.pendingChain
              /\ a.pendingOutput = adapter.pendingOutput
              /\ a.responseChains = adapter.responseChains
      BY UsedUp DEF Types
    <3>3. /\ adapter'.pendingChain = adapter.pendingChain
          /\ adapter'.pendingOutput = adapter.pendingOutput
          /\ adapter'.responseChains = adapter.responseChains
      BY <2>4, <3>2 DEF FailRecovery, RetryRequest, SurfaceError, Types, AdapterTypes, Adapter
    <3>4. CASE UNCHANGED client /\ Sent'
      <4>1. ~Streamed /\ ~Streamed'
        <5>1. Sent' => ~Streamed'
          BY NotYetStreamed, PTL
        <5> QED BY <3>1, <3>4, <5>1, NotYetStreamed
      <4>2. Now' = Now
        BY <3>1, <3>4 DEF Now
      <4>3. IsTail(adapter.pendingChain, Now)'
        BY <1>2, <3>1, <3>3, <4>2 DEF Tails, IsTail
      <4>4. ~scenario.midstream => adapter'.pendingOutput = << >>
        BY <1>2, <3>1, <3>3, <4>1 DEF Tails
      <4> QED BY <1>1, <1>4, <3>1, <3>3, <4>1, <4>3, <4>4 DEF Tails
    <3>5. CASE client' = [client EXCEPT !.waiting = FALSE]
      <4>1. ~client'.waiting
        BY <3>5 DEF Types, ClientTypes
      <4> QED BY <1>4, <3>1, <3>3, <4>1 DEF Tails
    <3> QED BY <3>1, <3>4, <3>5
  <2> QED BY <1>6, <2>2, <2>3, <2>4 DEF HandleFrame
<1>7. CASE ServerAnswers
  <2>1. /\ Sent /\ ~Streamed' /\ client.waiting
        /\ UNCHANGED <<adapter, store, client, history, scenario>>
    BY <1>2, <1>7, AnswerInPlace
  <2>2. ~Streamed
    BY <2>1, NotYetStreamed
  <2>3. Now' = Now
    BY <2>1 DEF Now
  <2>4. IsTail(adapter.pendingChain, Now)'
    BY <1>2, <2>1, <2>3 DEF Tails, IsTail
  <2> QED BY <1>2, <1>4, <2>1, <2>2, <2>4 DEF Tails
<1>8. CASE Reconnect \/ DaemonRestart
  <2>1. /\ client' = [client EXCEPT !.waiting = FALSE] /\ adapter' = NewAdapter
        /\ UNCHANGED history /\ (store' = store \/ store' = EmptyMap)
    BY <1>8 DEF Reconnect, DaemonRestart, FreshConnection, Happens
  <2>2. ~client'.waiting
    BY <2>1 DEF Types, ClientTypes
  <2>3. DOMAIN EmptyMap.chains = {} /\ adapter'.responseChains = EmptyMap
    BY <2>1 DEF EmptyMap, NewAdapter
  <2>4. TailsOf(adapter.responseChains)' /\ TailsOf(store)'
    BY <1>2, <2>1, <2>3 DEF Tails, TailsOf
  <2> QED BY <2>2, <2>4 DEF Tails
<1>9. ASSUME UNCHANGED <<client, history, ctx, up, down, adapter>>
      PROVE  /\ Streamed' <=> Streamed
             /\ TailsOf(store)' => Tails'
  <2>1. Streamed' <=> Streamed
    BY <1>1, <1>9 DEF Streamed, NewResponse, Completed
  <2> QED BY <1>1, <1>2, <1>9, <2>1 DEF Tails, IsTail, Now, TailsOf
<1>10. CASE OtherSessionExports
  <2>1. /\ UNCHANGED <<client, history, ctx, up, down, adapter>>
        /\ store' = Put(store, -1 - events.others, <<In(0)>>)
    BY <1>10 DEF OtherSessionExports, Happens, serverVars
  <2>2. /\ -1 - events.others \in Int /\ -1 - events.others \notin Nat
        /\ <<In(0)>> \in Chain \ {<< >>}
    <3>1. events.others \in Nat
      BY DEF Types, EventTypes, Event
    <3> QED BY <3>1, ItemsAreItems DEF Chain
  <2>3. \A id \in DOMAIN store'.chains \cap Nat :
          id \in DOMAIN store.chains /\ store'.chains[id] = store.chains[id]
    <3> DEFINE other == -1 - events.others
               c == <<In(0)>>
    <3> HIDE DEF other, c
    <3>1. \A id \in DOMAIN Put(store, other, c).chains \ {other} :
            /\ id \in DOMAIN store.chains
            /\ Put(store, other, c).chains[id] = store.chains[id]
      BY <1>3, <2>2, PutMap DEF other, c
    <3> QED BY <2>1, <2>2, <3>1 DEF other, c
  <2>4. TailsOf(store)'
    BY <1>2, <2>1, <2>3 DEF Tails, TailsOf
  <2> QED BY <1>9, <2>1, <2>4
<1>11. CASE StrayError
  <2>1. events.strays \in Nat
    BY DEF Types, EventTypes, Event
  <2> QED BY <1>2, <1>11, <2>1 DEF StrayError, Happens, Orderly
<1>12. CASE (\E r \in known : Forget(r)) \/ UNCHANGED recoveryVars
  <2>1. UNCHANGED <<client, history, ctx, up, down, adapter, store>>
    BY <1>12 DEF Forget, recoveryVars
  <2>2. TailsOf(store)'
    BY <1>2, <2>1 DEF Tails, TailsOf
  <2> QED BY <1>9, <2>1, <2>2
<1> QED BY <1>5, <1>6, <1>7, <1>8, <1>10, <1>11, <1>12 DEF RecoveryNext, Quiet

LEMMA TailsInvariant == RecoverySpec => []OrderlyTails
<1>1. RecoveryInit => OrderlyTails
  <2> SUFFICES ASSUME RecoveryInit PROVE Tails /\ Unexported
    BY DEF OrderlyTails
  <2>1. DOMAIN EmptyMap.chains = {} /\ adapter.responseChains = EmptyMap /\ store = EmptyMap
        /\ ~client.waiting
    BY DEF RecoveryInit, EmptyMap, NewAdapter
  <2> QED BY <2>1 DEF Tails, TailsOf, Unexported
<1> QED BY <1>1, TailsStep, OneAtATimeInvariant, TypesInvariant, PTL DEF RecoverySpec

(* A tail that begins where the conversation does is the conversation: its *)
(* first item occurs once.                                                 *)
LEMMA TailFromTheStart ==
  ASSUME NEW h \in Chain, Opens(h), NEW c \in Chain, IsTail(c, h), Head(c) = Head(h)
  PROVE  c = h
<1>1. PICK p \in Chain : h = p \o c
  BY DEF IsTail
<1>2. /\ p \in Seq(Item) /\ c \in Seq(Item) /\ h \in Seq(Item)
      /\ Len(p) \in Nat /\ Len(c) \in Nat \ {0} /\ Len(h) = Len(p) + Len(c)
      /\ \A i \in 1 .. Len(p) + Len(c) :
           (p \o c)[i] = IF i <= Len(p) THEN p[i] ELSE c[i - Len(p)]
  BY <1>1, ConcatProperties, LenProperties, EmptySeq DEF Chain, IsTail
<1>3. Head(c) = c[1] /\ Head(h) = h[1]
  BY <1>2
<1>4. CASE p = << >>
  BY <1>1, <1>2, <1>4, ChainAlgebra
<1>5. CASE p # << >>
  <2>1. Len(p) >= 1
    BY <1>2, <1>5, EmptySeq
  <2>2. Len(p) + 1 \in 2 .. Len(h) /\ Len(p) + 1 \in 1 .. Len(p) + Len(c)
        /\ ~(Len(p) + 1 <= Len(p)) /\ Len(p) + 1 - Len(p) = 1
    BY <1>2, <2>1
  <2>3. h[Len(p) + 1] = c[1]
    BY <1>1, <1>2, <2>2
  <2> QED BY <1>3, <2>2, <2>3 DEF Opens
<1> QED BY <1>4, <1>5

(* A remembered chain that reaches back to the start of its conversation   *)
(* is that conversation: no item is lost, doubled or taken from another    *)
(* turn, through retries, expansions, evictions, reconnects and restarts.  *)
THEOREM ChainsStayExact == RecoverySpec => []ChainsExact
<1>1. Types /\ OneAtATime /\ OrderlyTails => ChainsExact
  <2> SUFFICES ASSUME Types, OneAtATime, OrderlyTails, Orderly,
                      NEW m \in {adapter.responseChains, store},
                      NEW r \in DOMAIN m.chains \cap DOMAIN history,
                      Head(m.chains[r]) = Head(history[r])
               PROVE  m.chains[r] = history[r]
    BY DEF ChainsExact
  <2>1. Conversations /\ TailsOf(m)
    BY DEF OneAtATime, OrderlyTails, Orderly, Tails
  <2>2. r \in Nat /\ history[r] \in Chain
    BY DEF Types, ClientTypes
  <2>3. r # 0 /\ IsTail(m.chains[r], history[r]) /\ Opens(history[r])
    BY <2>1, <2>2 DEF TailsOf, Conversations
  <2>4. m.chains[r] \in Chain
    BY DEF Types, AdapterTypes, MapInv
  <2> QED BY <2>2, <2>3, <2>4, TailFromTheStart
<1> QED BY <1>1, TypesInvariant, OneAtATimeInvariant, TailsInvariant, PTL

-----------------------------------------------------------------------------
(* The server's view.                                                      *)

(* An adapter whose chains are whole: it lets the server keep the state,   *)
(* or has never failed a request.                                          *)
Whole == scenario.serverState \/ ~adapter.degraded

WholeLast(m) ==
  client.last \in DOMAIN m.chains => m.chains[client.last] = history[client.last]

(* A body in which the server sees the whole conversation.                 *)
FullBody(body) ==
  \/ body.prev = 0 /\ body.input = Now
  \/ /\ body.prev = client.last /\ client.last # 0
     /\ body.input = <<In(client.turn)>>

(* As long as chains survive: the last response's chain is at hand and     *)
(* whole, and so is all that is made of it, the chain that will be         *)
(* remembered, the candidate, and the body on its way to the server.       *)
Kept ==
  /\ SameView
  /\ client.last # 0 => client.last \in DOMAIN store.chains
  /\ Whole => WholeLast(adapter.responseChains) /\ WholeLast(store)
  /\ client.waiting /\ Whole => adapter.pendingChain = Now
  /\ client.waiting /\ adapter.pendingRecovery # NoCandidate =>
       adapter.pendingRecovery.input = Now
  /\ client.waiting /\ Sent => FullBody(up[1])
  /\ client.waiting /\ (Answered \/ Streamed) => ctx[Len(ctx)] = Now \o <<Out(Len(ctx))>>

ViewKept == Orderly /\ ChainsSurvive => Kept

LEMMA NothingSentIsAnswered ==
  /\ Sent => ~Answered /\ ~Streamed
  /\ Refused => ~Answered /\ ~Streamed /\ ~Sent
  /\ Streamed => ~Sent
  /\ Answered => ~Sent
<1>1. ASSUME Sent PROVE up # << >>
  BY <1>1 DEF Sent
<1>2. ASSUME Refused PROVE ~Answered
  <2>1. Len(down) = 1
    BY <1>2 DEF Refused
  <2> QED BY <2>1 DEF Answered
<1>3. Refused => ~Streamed
  BY NotYetStreamed
<1> QED BY <1>1, <1>2, <1>3 DEF Refused, Answered, Streamed

(* The chain a request is made from: the whole conversation, or nothing in *)
(* the hands of a degraded adapter that must expand.                       *)
LEMMA RequestIsWhole ==
  ASSUME Types, Kept, NEW x \in Chain, NEW body \in Body, RequestChain(x, body)
  PROVE  \/ x = history[client.last]
         \/ x = << >> /\ ~scenario.serverState /\ adapter.degraded /\ client.last # 0
<1>1. ASSUME Found(x, client.last), x # << >>, Whole PROVE x = history[client.last]
  BY <1>1 DEF Found, Kept, WholeLast
<1>2. ASSUME client.last # 0
      PROVE  /\ Found(ResponseChain(client.last), client.last)
             /\ Found(StatelessContinuationChain(client.last), client.last)
             /\ ResponseChain(client.last) # << >>
             /\ StatelessContinuationChain(client.last) # << >>
  BY <1>2, LookedUp DEF Kept, Types
<1> QED BY <1>1, <1>2 DEF RequestChain, Whole

LEMMA ViewAfterRequest ==
  ASSUME Types, Pipeline, Conversations, Kept, HandleRequest PROVE Kept'
<1> DEFINE new == <<In(client.turn + 1)>>
           last == client.last
<1>1. PICK x \in Chain, body \in Body :
        /\ RequestChain(x, body)
        /\ up' = Append(up, body)
        /\ adapter'.pendingChain = x \o new
        /\ adapter'.responseChains = adapter.responseChains
        /\ adapter'.degraded = adapter.degraded
        /\ \/ adapter'.pendingRecovery = NoCandidate
           \/ /\ adapter'.pendingRecovery.input = adapter'.pendingChain
              /\ ~(adapter.degraded /\ ~scenario.serverState /\ x = << >> /\ client.last # 0)
  BY RequestMade DEF Conversations
<1>2. /\ client' = [client EXCEPT !.waiting = TRUE, !.turn = @ + 1]
      /\ UNCHANGED <<history, store, ctx, scenario>> /\ ~client.waiting
  BY DEF HandleRequest, serverVars, envVars
<1>3. client'.last = last /\ client'.turn = client.turn + 1
  BY <1>2 DEF Types, ClientTypes
<1>4. Now' = history[last] \o new
  BY <1>2, <1>3 DEF Now
<1>5. \/ x = history[last]
      \/ x = << >> /\ ~scenario.serverState /\ adapter.degraded /\ last # 0
  BY <1>1, RequestIsWhole
<1>6. Whole' <=> Whole
  BY <1>1, <1>2 DEF Whole
<1>7. Whole => adapter'.pendingChain = Now'
  BY <1>1, <1>4, <1>5 DEF Whole
<1>8. adapter'.pendingRecovery # NoCandidate => adapter'.pendingRecovery.input = Now'
  BY <1>1, <1>4, <1>5
<1>9. up'[1] = body
  BY <1>1, <1>2 DEF Pipeline
<1>10. FullBody(up[1])'
  <2>1. \/ body.prev = 0 /\ body.input = Now'
        \/ body.prev = last /\ last # 0 /\ body.input = new
    BY <1>1, <1>4, <1>5 DEF RequestChain
  <2> QED BY <1>3, <1>9, <2>1 DEF FullBody
<1>11. ~Answered' /\ ~Streamed'
  <2>1. Sent'
    BY RequestInPlace
  <2>2. Sent' => ~Answered' /\ ~Streamed'
    BY NothingSentIsAnswered, PTL
  <2> QED BY <2>1, <2>2
<1>12. (Whole => WholeLast(adapter.responseChains) /\ WholeLast(store))'
  BY <1>1, <1>2, <1>3, <1>6 DEF Kept, WholeLast
<1>13. SameView' /\ (client'.last # 0 => client'.last \in DOMAIN store'.chains)
  BY <1>2, <1>3 DEF Kept, SameView
<1> QED BY <1>6, <1>7, <1>8, <1>10, <1>11, <1>12, <1>13 DEF Kept

LEMMA ViewAfterCompletion ==
  ASSUME Types, Orderly, Tails, Unexported, Pipeline, Conversations, Kept, down # << >>,
         HandleCompleted(Head(down))
  PROVE  Kept'
<1> DEFINE r == Len(ctx)
           c == adapter.pendingChain \o <<Out(r)>>
<1>1. /\ r \in Nat \ {0} /\ r \notin DOMAIN history
      /\ c \in Chain \ {<< >>}
      /\ adapter'.responseChains = Put(adapter.responseChains, r, c)
      /\ store' = Put(store, r, c)
      /\ DOMAIN history' = DOMAIN history \cup {r}
      /\ history'[r] = Now \o <<Out(r)>>
      /\ \A id \in DOMAIN history : history'[id] = history[id]
      /\ client'.last = r /\ ~client'.waiting /\ client.waiting /\ Streamed
      /\ adapter'.degraded = adapter.degraded
      /\ UNCHANGED <<ctx, scenario>>
  BY ResponseRemembered
<1>2. ctx[r] = Now \o <<Out(r)>>
  BY <1>1 DEF Kept
<1>3. Whole => c = history'[r]
  BY <1>1 DEF Kept
<1> HIDE DEF r, c
<1>4. SameView'
  BY <1>1, <1>2 DEF Kept, SameView
<1>5. /\ adapter.responseChains \in ChainMap /\ MapInv(adapter.responseChains)
      /\ store \in ChainMap /\ MapInv(store)
  BY DEF Types, AdapterTypes, Adapter
<1>6. /\ adapter'.responseChains.chains[r] = c
      /\ r \in DOMAIN store'.chains /\ store'.chains[r] = c
  BY <1>1, <1>5, PutMap
<1>7. Whole' => Whole
  BY <1>1 DEF Whole
<1>8. (Whole => WholeLast(adapter.responseChains) /\ WholeLast(store))'
  BY <1>1, <1>3, <1>6, <1>7 DEF WholeLast
<1> QED BY <1>1, <1>4, <1>6, <1>8 DEF Kept

LEMMA ViewAfterError ==
  ASSUME Types, Pipeline, Conversations, Kept, down # << >>, NEW f, f = Head(down),
         FailRecovery(f) \/ RetryRequest(f) \/ SurfaceError(f)
  PROVE  Kept'
<1>1. /\ Refused /\ client.waiting
      /\ UNCHANGED <<history, ctx, scenario, store>>
      /\ down' = << >>
      /\ \/ /\ RetryRequest(f) /\ UNCHANGED client /\ Sent'
            /\ up' = <<[prev |-> 0, input |-> adapter.pendingRecovery.input,
                        pruned |-> FALSE]>>
         \/ /\ ~RetryRequest(f) /\ up' = << >>
            /\ client' = [client EXCEPT !.waiting = FALSE]
            /\ adapter'.degraded
  BY ErrorHandled
<1>2. LET a == Used(adapter, f.class)
      IN  /\ a \in Adapter /\ a.pendingChain = adapter.pendingChain
          /\ a.responseChains = adapter.responseChains
          /\ a.degraded = adapter.degraded
          /\ a.pendingRecovery # NoCandidate => adapter.pendingRecovery # NoCandidate
          /\ a.pendingRecovery.input = adapter.pendingRecovery.input
  BY UsedUp DEF Types
<1>3. /\ adapter'.responseChains = adapter.responseChains
      /\ adapter'.pendingChain = adapter.pendingChain
  BY <1>2 DEF FailRecovery, RetryRequest, SurfaceError, Types, AdapterTypes, Adapter
<1>4. SameView'
  BY <1>1 DEF Kept, SameView
<1>5. CASE RetryRequest(f)
  <2>1. UNCHANGED client /\ Sent' /\ adapter.pendingRecovery # NoCandidate
        /\ up'[1] = [prev |-> 0, input |-> adapter.pendingRecovery.input, pruned |-> FALSE]
    BY <1>1, <1>5 DEF RetryRequest, Retryable
  <2>2. /\ adapter'.degraded = adapter.degraded
        /\ adapter'.pendingRecovery = Used(adapter, f.class).pendingRecovery
    BY <1>2, <1>5 DEF RetryRequest, Adapter
  <2>3. Now' = Now /\ adapter.pendingRecovery.input = Now
    BY <1>1, <2>1 DEF Now, Kept
  <2>4. FullBody(up[1])'
    BY <2>1, <2>3 DEF FullBody
  <2>5. Whole' <=> Whole
    BY <1>1, <2>2 DEF Whole
  <2>6. (Whole => WholeLast(adapter.responseChains) /\ WholeLast(store))'
    BY <1>1, <1>3, <2>1, <2>5 DEF Kept, WholeLast
  <2>7. ~Answered' /\ ~Streamed'
    <3>1. Sent' => ~Answered' /\ ~Streamed'
      BY NothingSentIsAnswered, PTL
    <3> QED BY <2>1, <3>1
  <2>8. adapter'.pendingRecovery.input = Now'
    BY <1>2, <2>2, <2>3
  <2>9. Whole' => adapter'.pendingChain = Now'
    BY <1>1, <1>3, <2>3, <2>5 DEF Kept
  <2>10. client'.last # 0 => client'.last \in DOMAIN store'.chains
    BY <1>1, <2>1 DEF Kept
  <2> QED BY <1>4, <2>4, <2>6, <2>7, <2>8, <2>9, <2>10 DEF Kept
<1>6. CASE ~RetryRequest(f)
  <2>1. ~client'.waiting /\ client'.last = client.last /\ adapter'.degraded
    BY <1>1, <1>6 DEF Types, ClientTypes
  <2>2. Whole' => Whole
    BY <1>1, <2>1 DEF Whole
  <2>3. (Whole => WholeLast(adapter.responseChains) /\ WholeLast(store))'
    BY <1>1, <1>3, <2>1, <2>2 DEF Kept, WholeLast
  <2> QED BY <1>1, <1>4, <2>1, <2>3 DEF Kept
<1> QED BY <1>5, <1>6

LEMMA ViewAfterAnswer ==
  ASSUME Types, Pipeline, Conversations, Kept, ServerAnswers PROVE Kept'
<1> DEFINE r == Len(ctx) + 1
           c == (IF up[1].prev = 0 THEN << >> ELSE ctx[up[1].prev])
                \o up[1].input \o <<Out(r)>>
<1>1. /\ client.waiting /\ Sent
      /\ UNCHANGED <<adapter, store, client, history, scenario>>
      /\ \/ Refused' /\ ctx' = ctx
         \/ (Answered' \/ Failed') /\ ctx' = Append(ctx, c)
      /\ ~Streamed'
  BY AnswerInPlace
<1>2. FullBody(up[1])
  BY <1>1 DEF Kept
<1>3. Now \in Chain /\ Now = history[client.last] \o <<In(client.turn)>>
  BY NowIsChain DEF Now
<1>4. c = Now \o <<Out(r)>>
  <2>1. CASE up[1].prev = 0 /\ up[1].input = Now
    <3>1. << >> \o Now = Now
      BY <1>3, ChainAlgebra
    <3> QED BY <2>1, <3>1
  <2>2. CASE /\ up[1].prev = client.last /\ client.last # 0
             /\ up[1].input = <<In(client.turn)>>
    <3>1. ctx[client.last] = history[client.last]
      BY <2>2 DEF Kept, SameView, Types, ClientTypes
    <3> QED BY <1>3, <2>2, <3>1
  <2> QED BY <1>2, <2>1, <2>2 DEF FullBody
<1>5. Len(ctx) \in Nat
  BY LenProperties DEF Types, ServerTypes
<1> HIDE DEF c
<1>6. CASE ctx' = Append(ctx, c)
  <2>1. /\ Len(ctx') = r /\ ctx'[r] = c
        /\ \A i \in 1 .. Len(ctx) : ctx'[i] = ctx[i]
    BY <1>5, <1>6 DEF Types, ServerTypes
  <2>2. SameView'
    <3>1. \A id \in DOMAIN history \ {0} : id \in 1 .. Len(ctx)
      BY <1>5 DEF Conversations
    <3> QED BY <1>1, <2>1, <3>1 DEF Kept, SameView
  <2>3. ctx'[Len(ctx')] = Now' \o <<Out(Len(ctx'))>>
    BY <1>1, <1>4, <2>1 DEF Now
  <2>4. CASE Answered' \/ Failed'
    <3>1. ~Sent'
      BY <2>4 DEF Answered, Failed, Sent
    <3> QED BY <1>1, <2>2, <2>3, <3>1 DEF Kept, Whole, WholeLast, Now, Out
  <2>5. CASE Refused'
    <3>1. ~Sent'
      BY <2>5 DEF Refused, Sent
    <3> QED BY <1>1, <2>2, <2>3, <3>1 DEF Kept, Whole, WholeLast, Now, Out
  <2> QED BY <1>1, <2>4, <2>5
<1>7. CASE Refused' /\ ctx' = ctx
  <2>1. ~Sent' /\ ~Answered' /\ ~Streamed'
    <3>1. Refused' => ~Answered' /\ ~Streamed' /\ ~Sent'
      BY NothingSentIsAnswered, PTL
    <3> QED BY <1>7, <3>1
  <2> QED BY <1>1, <1>7, <2>1 DEF Kept, Whole, WholeLast, Now, SameView
<1> QED BY <1>1, <1>6, <1>7

LEMMA ViewStep ==
  /\ Types /\ OneAtATime /\ OrderlyTails /\ ViewKept
  /\ [RecoveryNext]_recoveryVars
  => ViewKept'
<1> SUFFICES ASSUME Types, OneAtATime, OrderlyTails, ViewKept, [RecoveryNext]_recoveryVars,
                    Orderly', ChainsSurvive'
             PROVE  Kept'
  BY DEF ViewKept
<1>1. scenario' = scenario
  BY ScenarioStays
<1>2. /\ Orderly /\ Pipeline /\ Conversations /\ Tails /\ Unexported /\ Kept
      /\ scenario.restarts = 0 /\ scenario.others = 0 /\ scenario.strays = 0
      /\ scenario.serverState \/ scenario.reconnects = 0
  BY <1>1 DEF Orderly, ChainsSurvive, OneAtATime, OrderlyTails, ViewKept
<1>3. ASSUME NEW event \in Event, Happens(event) PROVE scenario[event] # 0
  <2>1. events[event] \in Nat
    BY DEF Types, EventTypes
  <2> QED BY <1>3, <2>1 DEF Happens
<1>4. ~DaemonRestart /\ ~OtherSessionExports /\ ~StrayError
  BY <1>2, <1>3 DEF DaemonRestart, OtherSessionExports, StrayError, Event
<1>5. CASE HandleRequest
  BY <1>2, <1>5, ViewAfterRequest
<1>6. CASE HandleFrame
  <2>1. down # << >>
    BY <1>6 DEF HandleFrame
  <2>2. CASE HandleItem(Head(down))
    <3>1. /\ UNCHANGED <<client, history, ctx, up, scenario, store>>
          /\ adapter' = [adapter EXCEPT !.pendingOutput = @ \o <<Out(Len(ctx))>>]
          /\ \/ Answered /\ Streamed'
             \/ Failed /\ Refused'
      BY <1>2, <2>1, <2>2, ItemHandled
    <3>2. /\ adapter'.pendingChain = adapter.pendingChain
          /\ adapter'.responseChains = adapter.responseChains
          /\ adapter'.pendingRecovery = adapter.pendingRecovery
          /\ adapter'.degraded = adapter.degraded
      BY <3>1 DEF Types, AdapterTypes, Adapter
    <3>3. ~Sent' /\ ((Answered' \/ Streamed') => Answered)
      <4>1. (Streamed' => ~Sent') /\ (Refused' => ~Sent' /\ ~Answered' /\ ~Streamed')
        BY NothingSentIsAnswered, PTL
      <4> QED BY <3>1, <4>1
    <3>4. SameView' /\ Now' = Now /\ (Whole' <=> Whole)
      BY <1>2, <3>1, <3>2 DEF Kept, SameView, Now, Whole
    <3>5. (Whole => WholeLast(adapter.responseChains) /\ WholeLast(store))'
      BY <1>2, <3>1, <3>2, <3>4 DEF Kept, WholeLast
    <3>6. client'.waiting /\ (Answered' \/ Streamed') =>
            ctx'[Len(ctx')] = Now' \o <<Out(Len(ctx'))>>
      BY <1>2, <3>1, <3>3, <3>4 DEF Kept
    <3> QED BY <1>2, <3>1, <3>2, <3>3, <3>4, <3>5, <3>6 DEF Kept, Out
  <2>3. CASE HandleCompleted(Head(down))
    BY <1>2, <2>1, <2>3, ViewAfterCompletion
  <2>4. CASE \/ FailRecovery(Head(down)) \/ RetryRequest(Head(down)) \/ SurfaceError(Head(down))
    BY <1>2, <2>1, <2>4, ViewAfterError
  <2> QED BY <1>6, <2>2, <2>3, <2>4 DEF HandleFrame
<1>7. CASE ServerAnswers
  BY <1>2, <1>7, ViewAfterAnswer
<1>8. CASE Reconnect
  <2>1. scenario.serverState
    BY <1>2, <1>3, <1>8 DEF Reconnect, Event
  <2>2. /\ client' = [client EXCEPT !.waiting = FALSE] /\ adapter' = NewAdapter
        /\ UNCHANGED <<history, ctx, store>>
    BY <1>8 DEF Reconnect, FreshConnection, Happens, serverVars
  <2>3. ~client'.waiting /\ client'.last = client.last
    BY <2>2 DEF Types, ClientTypes
  <2>4. DOMAIN adapter'.responseChains.chains = {}
    BY <2>2 DEF NewAdapter, EmptyMap
  <2>5. Whole
    BY <2>1 DEF Whole
  <2> QED BY <1>2, <2>2, <2>3, <2>4, <2>5 DEF Kept, SameView, WholeLast
<1>9. CASE (\E r \in known : Forget(r)) \/ UNCHANGED recoveryVars
  <2>1. UNCHANGED <<client, history, ctx, up, down, adapter, store>>
    BY <1>9 DEF Forget, recoveryVars
  <2>2. /\ SameView' <=> SameView
        /\ Whole' <=> Whole
        /\ Now' = Now
        /\ WholeLast(adapter.responseChains)' <=> WholeLast(adapter.responseChains)
        /\ WholeLast(store)' <=> WholeLast(store)
        /\ Sent' <=> Sent
        /\ FullBody(up[1])' <=> FullBody(up[1])
    BY <1>1, <2>1 DEF SameView, Whole, Now, WholeLast, Sent, FullBody
  <2>3. (Answered' <=> Answered) /\ (Streamed' <=> Streamed)
    BY <1>1, <2>1 DEF Answered, Streamed, NewResponse, Completed
  <2> QED BY <1>2, <2>1, <2>2, <2>3 DEF Kept
<1> QED BY <1>4, <1>5, <1>6, <1>7, <1>8, <1>9 DEF RecoveryNext, Quiet

LEMMA ViewInvariant == RecoverySpec => []ViewKept
<1>1. RecoveryInit => ViewKept
  <2> SUFFICES ASSUME RecoveryInit PROVE Kept
    BY DEF ViewKept
  <2>1. /\ DOMAIN EmptyMap.chains = {} /\ adapter.responseChains = EmptyMap
        /\ store = EmptyMap /\ client.last = 0 /\ ~client.waiting /\ DOMAIN history = {0}
    BY DEF RecoveryInit, EmptyMap, NewAdapter
  <2> QED BY <2>1 DEF Kept, SameView, WholeLast
<1> QED BY <1>1, ViewStep, TailsInvariant, OneAtATimeInvariant, TypesInvariant, PTL
        DEF RecoverySpec

(* While errors answer requests (no stray one arrives, and no failed       *)
(* response has left items behind) and no chain that is needed disappears  *)
(* (no restart, no other session's chains, no new connection behind a      *)
(* degraded adapter that recorded continuations), the server answered in   *)
(* the context of the whole conversation, however often requests were      *)
(* retried, rewritten to stand alone, or continued by a new connection's   *)
(* adapter.  After a restart it need not: see AnsweredInFullContext.       *)
THEOREM ServerSeesConversation ==
  RecoverySpec => [](Orderly /\ ChainsSurvive => SameView)
<1>1. ViewKept => (Orderly /\ ChainsSurvive => SameView)
  BY DEF ViewKept, Kept
<1> QED BY <1>1, ViewInvariant, PTL

(* Both, each under its conditions, as the run checks them: chains that    *)
(* reach back are exact while errors answer requests, and the server has   *)
(* seen the conversation while chains survive as well.                     *)
THEOREM ConversationIsKept == RecoverySpec => []ConversationKept
<1>1. ChainsExact /\ (Orderly /\ ChainsSurvive => SameView) => ConversationKept
  BY DEF ConversationKept, SameConversation
<1> QED BY <1>1, ChainsStayExact, ServerSeesConversation, PTL
=============================================================================
