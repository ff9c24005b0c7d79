---------------------------- MODULE Traffic_proofs ----------------------------
(***************************************************************************)
(* Proofs about the response cache, its file watcher and its invalidation  *)
(* (CacheInvalidation), and about the end of the proxy process             *)
(* (ProxyShutdown).                                                        *)
(***************************************************************************)
EXTENDS CacheInvalidation, ProxyShutdown, SequenceTheorems, FiniteSetTheorems, TLAPS

(* Sequences without repetitions.                                          *)
NoRepeats(s) == \A i, j \in DOMAIN s : s[i] = s[j] => i = j

LEMMA LengthIsCardinality ==
  ASSUME NEW S, NEW s \in Seq(S), NoRepeats(s)
  PROVE  IsFiniteSet(Range(s)) /\ Cardinality(Range(s)) = Len(s)
<1>1. Len(s) \in Nat /\ DOMAIN s = 1..Len(s) /\ s \in [1..Len(s) -> S]
  BY LenProperties
<1>2. s \in [1..Len(s) -> Range(s)]
  BY <1>1 DEF Range
<1>3. s \in Bijection(1..Len(s), Range(s))
  BY <1>1, <1>2 DEF Bijection, Injection, Surjection, IsInjective, Range, NoRepeats
<1>4. ExistsBijection(1..Len(s), Range(s))
  BY <1>3 DEF ExistsBijection
<1>5. IsFiniteSet(Range(s))
  BY <1>1, <1>4, FS_NatBijection
<1> QED
  BY <1>1, <1>4, <1>5, FS_CountingElements

(* Among the numbers of a finite set there is an nth.                      *)
LEMMA NthNumber ==
  ASSUME NEW kept \in SUBSET Nat, IsFiniteSet(kept), NEW n \in 1..Cardinality(kept)
  PROVE  \E i \in kept : Cardinality({j \in kept : j <= i}) = n
<1> DEFINE upTo(i) == {j \in kept : j <= i}
           c == Cardinality(kept)
           rank == [i \in kept |-> Cardinality(upTo(i))]
<1>1. c \in Nat
  BY FS_CardinalityType
<1>2. ASSUME NEW i \in kept
      PROVE  IsFiniteSet(upTo(i)) /\ Cardinality(upTo(i)) \in 1..c
  <2>1. upTo(i) \in SUBSET kept /\ i \in upTo(i)
    OBVIOUS
  <2> HIDE DEF upTo
  <2>2. IsFiniteSet(upTo(i)) /\ Cardinality(upTo(i)) <= c
    BY <2>1, FS_Subset
  <2>3. Cardinality(upTo(i)) \in Nat /\ Cardinality(upTo(i)) # 0
    BY <2>1, <2>2, FS_CardinalityType, FS_EmptySet
  <2> HIDE DEF c
  <2> QED
    BY <1>1, <2>2, <2>3
<1>3. ASSUME NEW i \in kept, NEW k \in kept, i < k
      PROVE  Cardinality(upTo(i)) # Cardinality(upTo(k))
  <2>1. upTo(i) \in SUBSET upTo(k) /\ k \in upTo(k) /\ k \notin upTo(i)
    <3>1. \A j \in kept : j <= i => j <= k
      BY <1>3
    <3>2. k <= k /\ ~(k <= i)
      BY <1>3
    <3> QED
      BY <3>1, <3>2
  <2>2. IsFiniteSet(upTo(k))
    BY <1>2
  <2> HIDE DEF upTo
  <2> QED
    BY <2>1, <2>2, FS_Subset
<1>4. rank \in Injection(kept, 1..c)
  <2>1. rank \in [kept -> 1..c]
    BY <1>2
  <2>2. ASSUME NEW i \in kept, NEW k \in kept, rank[i] = rank[k]
        PROVE  i = k
    <3>1. Cardinality(upTo(i)) = Cardinality(upTo(k))
      BY <2>2
    <3>2. i < k \/ k < i \/ i = k
      OBVIOUS
    <3> HIDE DEF upTo
    <3> QED
      BY <1>3, <3>1, <3>2
  <2> HIDE DEF rank
  <2> QED
    BY <2>1, <2>2 DEF Injection, IsInjective
<1>5. IsFiniteSet(1..c) /\ Cardinality(1..c) = c
  <2>1. 1 \in Int /\ c \in Int
    BY <1>1
  <2>2. /\ IsFiniteSet(1..c)
        /\ Cardinality(1..c) = IF 1 > c THEN 0 ELSE c - 1 + 1
    BY <2>1, FS_Interval
  <2> HIDE DEF c
  <2> QED
    BY <1>1, <2>2
<1>6. rank \in Surjection(kept, 1..c)
  <2> HIDE DEF rank
  <2> QED
    BY <1>4, <1>5, FS_Injection
<1>7. PICK i \in kept : rank[i] = n
  <2> HIDE DEF rank
  <2> QED
    BY <1>6 DEF Surjection
<1> QED
  BY <1>7

(* What is left of the order of use.                                       *)
LEMMA KeysButFacts ==
  ASSUME NEW S, NEW keys \in Seq(S), NoRepeats(keys), NEW gone
  PROVE  /\ KeysBut(keys, gone) \in Seq(S)
         /\ NoRepeats(KeysBut(keys, gone))
         /\ Range(KeysBut(keys, gone)) = Range(keys) \ gone
<1> DEFINE kept == {i \in DOMAIN keys : keys[i] \notin gone}
           upTo(i) == {j \in kept : j <= i}
           c == Cardinality(kept)
           nth(n) == CHOOSE i \in kept : Cardinality(upTo(i)) = n
           but == KeysBut(keys, gone)
<1>1. /\ Len(keys) \in Nat /\ DOMAIN keys = 1..Len(keys) /\ keys \in [1..Len(keys) -> S]
      /\ \A i \in 1..Len(keys) : keys[i] \in S
  BY LenProperties
<1>2. kept \in SUBSET Nat /\ IsFiniteSet(kept) /\ kept \subseteq DOMAIN keys
  <2>1. kept \in SUBSET (1..Len(keys))
    BY <1>1
  <2>2. IsFiniteSet(1..Len(keys))
    <3>1. 1 \in Int /\ Len(keys) \in Int
      BY <1>1
    <3> QED
      BY <3>1, FS_Interval
  <2>3. 1..Len(keys) \subseteq Nat
    BY <1>1
  <2> HIDE DEF kept
  <2> QED
    BY <1>1, <2>1, <2>2, <2>3, FS_Subset
<1>3. c \in Nat
  BY <1>2, FS_CardinalityType
<1>4. ASSUME NEW n \in 1..c
      PROVE  nth(n) \in kept /\ Cardinality(upTo(nth(n))) = n
  <2>1. \E i \in kept : Cardinality(upTo(i)) = n
    <3> HIDE DEF kept
    <3> QED
      BY <1>2, NthNumber
  <2> HIDE DEF kept, upTo
  <2> QED
    BY <2>1
<1>5. but = [n \in 1..c |-> keys[nth(n)]]
  BY DEF KeysBut
<1>6. ASSUME NEW i \in kept
      PROVE  Cardinality(upTo(i)) \in 1..c /\ nth(Cardinality(upTo(i))) = i
  <2>1. upTo(i) \in SUBSET kept /\ i \in upTo(i)
    BY <1>2
  <2>2. Cardinality(upTo(i)) \in 1..c
    <3>1. IsFiniteSet(upTo(i)) /\ Cardinality(upTo(i)) <= c
      <4> HIDE DEF upTo, kept
      <4> QED
        BY <1>2, <2>1, FS_Subset
    <3>2. Cardinality(upTo(i)) \in Nat /\ Cardinality(upTo(i)) # 0
      <4> HIDE DEF upTo, kept
      <4> QED
        BY <2>1, <3>1, FS_CardinalityType, FS_EmptySet
    <3> HIDE DEF upTo, kept, c
    <3> QED
      BY <1>3, <3>1, <3>2
  <2> DEFINE k == nth(Cardinality(upTo(i)))
  <2>3. k \in kept /\ Cardinality(upTo(k)) = Cardinality(upTo(i))
    BY <1>4, <2>2
  <2>4. ASSUME NEW a \in kept, NEW z \in kept, a < z
        PROVE  Cardinality(upTo(a)) # Cardinality(upTo(z))
    <3>1. a \in Nat /\ z \in Nat /\ kept \subseteq Nat
      BY <1>2
    <3> HIDE DEF kept
    <3>2. upTo(a) \in SUBSET upTo(z) /\ z \in upTo(z) /\ z \notin upTo(a)
      <4>1. \A j \in kept : j <= a => j <= z
        BY <2>4, <3>1
      <4>2. z <= z /\ ~(z <= a)
        BY <2>4, <3>1
      <4> QED
        BY <4>1, <4>2
    <3>3. upTo(z) \in SUBSET kept
      OBVIOUS
    <3> HIDE DEF upTo
    <3>4. IsFiniteSet(upTo(z))
      BY <1>2, <3>3, FS_Subset
    <3> QED
      BY <3>2, <3>4, FS_Subset
  <2> HIDE DEF k, upTo, kept
  <2>5. k < i \/ i < k \/ k = i
    BY <1>2, <2>3
  <2>6. k = i
    BY <2>3, <2>4, <2>5
  <2> QED
    BY <2>2, <2>6 DEF k
<1> HIDE DEF kept, upTo, c, nth, but
<1>7. but \in Seq(S) /\ DOMAIN but = 1..c
  <2>1. \A n \in 1..c : keys[nth(n)] \in S
    BY <1>1, <1>2, <1>4
  <2>2. but \in [1..c -> S]
    BY <1>5, <2>1
  <2> QED
    BY <1>3, <2>2, SeqDef
<1>8. NoRepeats(but)
  <2>1. ASSUME NEW n \in 1..c, NEW k \in 1..c, but[n] = but[k]
        PROVE  n = k
    <3>1. keys[nth(n)] = keys[nth(k)]
      BY <1>5, <2>1
    <3>2. nth(n) = nth(k)
      BY <1>2, <1>4, <3>1 DEF NoRepeats
    <3> QED
      BY <1>4, <3>2
  <2> QED
    BY <1>7, <2>1 DEF NoRepeats
<1>9. Range(but) = Range(keys) \ gone
  <2>1. ASSUME NEW x \in Range(but)
        PROVE  x \in Range(keys) \ gone
    <3>1. PICK n \in 1..c : x = keys[nth(n)]
      BY <1>5, <1>7 DEF Range
    <3> QED
      BY <1>2, <1>4, <3>1 DEF Range, kept
  <2>2. ASSUME NEW x \in Range(keys) \ gone
        PROVE  x \in Range(but)
    <3>1. PICK i \in kept : x = keys[i]
      BY DEF Range, kept
    <3>2. x = but[Cardinality(upTo(i))]
      BY <1>5, <1>6, <3>1
    <3> QED
      BY <1>6, <1>7, <3>2 DEF Range
  <2> QED
    BY <2>1, <2>2
<1> QED
  BY <1>7, <1>8, <1>9 DEF but

(* A key is appended behind the others.                                    *)
LEMMA KeysAppended ==
  ASSUME NEW S, NEW s \in Seq(S), NoRepeats(s), NEW k \in S, k \notin Range(s)
  PROVE  /\ Append(s, k) \in Seq(S)
         /\ NoRepeats(Append(s, k))
         /\ Range(Append(s, k)) = Range(s) \cup {k}
         /\ Len(Append(s, k)) = Len(s) + 1
<1> DEFINE a == Append(s, k)
           n == Len(s)
<1>1. /\ a \in Seq(S) /\ Len(a) = n + 1 /\ a[n + 1] = k
      /\ \A i \in 1..n : a[i] = s[i]
  BY AppendProperties
<1>2. n \in Nat /\ DOMAIN s = 1..n /\ DOMAIN a = 1..(n + 1)
  BY <1>1, LenProperties
<1>3. \A i \in 1..n : s[i] # k
  BY <1>2 DEF Range
<1>4. \A i \in 1..(n + 1) : i \in 1..n \/ i = n + 1
  BY <1>2
<1>5. 1..n \subseteq 1..(n + 1) /\ n + 1 \in 1..(n + 1)
  BY <1>2
<1> HIDE DEF a, n
<1>6. NoRepeats(a)
  BY <1>1, <1>2, <1>3, <1>4 DEF NoRepeats
<1>7. Range(a) = Range(s) \cup {k}
  BY <1>1, <1>2, <1>4, <1>5 DEF Range
<1> QED
  BY <1>1, <1>6, <1>7 DEF a, n

-----------------------------------------------------------------------------
(* What the cache always is, and what its methods do to it.                *)

Sound(entries, keys, pointers) ==
  /\ entries \in [DOMAIN entries -> Entry] /\ DOMAIN entries \subseteq Key
  /\ keys \in Seq(Key) /\ NoRepeats(keys) /\ Range(keys) = DOMAIN entries
  /\ pointers \in [DOMAIN pointers -> DOMAIN entries] /\ DOMAIN pointers \subseteq Orig
  /\ Len(keys) <= MaxSize

SoundCache(c) ==
  /\ c = [entries |-> c.entries, keys |-> c.keys, pointers |-> c.pointers]
  /\ Sound(c.entries, c.keys, c.pointers)

(* Nothing is in c but what was in b.                                      *)
Within(c, b) ==
  \A k \in DOMAIN c.entries : k \in DOMAIN b.entries /\ c.entries[k] = b.entries[k]

LEMMA FewerKeys ==
  ASSUME NEW keys \in Seq(Key), NoRepeats(keys), NEW gone
  PROVE  /\ Len(KeysBut(keys, gone)) <= Len(keys)
         /\ \A k \in Range(keys) : k \in gone => Len(KeysBut(keys, gone)) <= Len(keys) - 1
<1> DEFINE but == KeysBut(keys, gone)
<1>1. but \in Seq(Key) /\ NoRepeats(but) /\ Range(but) = Range(keys) \ gone
  BY KeysButFacts
<1> HIDE DEF but
<1>2. /\ IsFiniteSet(Range(keys)) /\ Cardinality(Range(keys)) = Len(keys)
      /\ Cardinality(Range(but)) = Len(but) /\ Len(keys) \in Nat /\ Len(but) \in Nat
  BY <1>1, LengthIsCardinality, LenProperties
<1>3. Cardinality(Range(but)) <= Cardinality(Range(keys))
  BY <1>1, <1>2, FS_Subset
<1>4. ASSUME NEW k \in Range(keys), k \in gone
      PROVE  Len(but) <= Len(keys) - 1
  <2>1. Range(but) \in SUBSET (Range(keys) \ {k})
    BY <1>1, <1>4
  <2>2. /\ IsFiniteSet(Range(keys) \ {k})
        /\ Cardinality(Range(keys) \ {k}) =
             IF k \in Range(keys) THEN Cardinality(Range(keys)) - 1
             ELSE Cardinality(Range(keys))
    BY <1>2, FS_RemoveElement
  <2>3. Cardinality(Range(but)) <= Cardinality(Range(keys) \ {k})
    BY <2>1, <2>2, FS_Subset
  <2> QED
    BY <1>2, <1>4, <2>2, <2>3
<1> QED
  BY <1>2, <1>3, <1>4 DEF but

LEMMA DroppedFacts ==
  ASSUME NEW c, SoundCache(c), NEW gone
  PROVE  /\ SoundCache(Dropped(c, gone))
         /\ Within(Dropped(c, gone), c)
         /\ DOMAIN Dropped(c, gone).entries = DOMAIN c.entries \ gone
         /\ Dropped(c, gone).keys = KeysBut(c.keys, gone)
<1> DEFINE d == Dropped(c, gone)
           e == c.entries
           p == c.pointers
           but == KeysBut(c.keys, gone)
           left == {o \in DOMAIN p : p[o] \notin gone}
<1>1. Sound(e, c.keys, p)
  BY DEF SoundCache
<1>2. /\ d = [entries |-> d.entries, keys |-> d.keys, pointers |-> d.pointers]
      /\ d.entries = [k \in DOMAIN e \ gone |-> e[k]] /\ d.keys = but
      /\ d.pointers = [o \in left |-> p[o]]
  BY DEF Dropped, RestrictDomain, Restrict
<1>3. /\ but \in Seq(Key) /\ NoRepeats(but) /\ Range(but) = Range(c.keys) \ gone
      /\ Len(but) <= Len(c.keys) /\ Len(but) \in Nat /\ Len(c.keys) \in Nat
  BY <1>1, KeysButFacts, FewerKeys, LenProperties DEF Sound
<1> HIDE DEF d, but
<1>4. Sound(d.entries, d.keys, d.pointers)
  <2>1. d.entries \in [DOMAIN d.entries -> Entry] /\ DOMAIN d.entries = DOMAIN e \ gone
    BY <1>1, <1>2 DEF Sound
  <2>2. d.pointers \in [DOMAIN d.pointers -> DOMAIN d.entries] /\ DOMAIN d.pointers = left
    BY <1>1, <1>2, <2>1 DEF Sound
  <2>3. Len(d.keys) <= MaxSize
    BY <1>1, <1>2, <1>3, CacheAssumption DEF Sound
  <2> QED
    BY <1>1, <1>2, <1>3, <2>1, <2>2, <2>3 DEF Sound
<1> QED
  BY <1>2, <1>4 DEF SoundCache, Within, d, but

(* promoteKey, also for a key that is new.                                 *)
Used(keys, k) == Append(KeysBut(keys, {k}), k)

LEMMA PromotedKeys ==
  ASSUME NEW keys \in Seq(Key), NoRepeats(keys), NEW k \in Key
  PROVE  /\ Used(keys, k) \in Seq(Key) /\ NoRepeats(Used(keys, k))
         /\ Range(Used(keys, k)) = Range(keys) \cup {k}
         /\ Len(Used(keys, k)) <= Len(keys) + 1
         /\ k \in Range(keys) => Len(Used(keys, k)) <= Len(keys)
<1> DEFINE but == KeysBut(keys, {k})
<1>1. /\ but \in Seq(Key) /\ NoRepeats(but) /\ Range(but) = Range(keys) \ {k}
      /\ Len(but) <= Len(keys)
      /\ k \in Range(keys) => Len(but) <= Len(keys) - 1
      /\ Len(but) \in Nat /\ Len(keys) \in Nat
  BY KeysButFacts, FewerKeys, LenProperties
<1>0. Used(keys, k) = Append(but, k)
  BY DEF Used
<1> HIDE DEF but
<1>2. /\ Append(but, k) \in Seq(Key) /\ NoRepeats(Append(but, k))
      /\ Range(Append(but, k)) = Range(but) \cup {k}
      /\ Len(Append(but, k)) = Len(but) + 1
  BY <1>1, KeysAppended
<1>3. Range(but) \cup {k} = Range(keys) \cup {k}
  BY <1>1
<1> QED
  BY <1>0, <1>1, <1>2, <1>3

LEMMA LookedFacts ==
  ASSUME NEW c, SoundCache(c), NEW k \in Key
  PROVE  SoundCache(Looked(c, k)) /\ Within(Looked(c, k), c)
<1>1. CASE ~Has(c, k)
  BY <1>1 DEF Looked, Within
<1>2. CASE Has(c, k) /\ Expired(c, k)
  BY <1>2, DroppedFacts DEF Looked
<1>3. CASE Has(c, k) /\ ~Expired(c, k)
  <2> DEFINE d == Promoted(c, k)
  <2>1. /\ d = [entries |-> c.entries, keys |-> Used(c.keys, k), pointers |-> c.pointers]
        /\ Sound(c.entries, c.keys, c.pointers) /\ k \in DOMAIN c.entries
    <3>1. d = [c EXCEPT !.keys = Used(c.keys, k)]
      BY DEF Promoted, Used
    <3>2. /\ c = [entries |-> c.entries, keys |-> c.keys, pointers |-> c.pointers]
          /\ Sound(c.entries, c.keys, c.pointers) /\ k \in DOMAIN c.entries
      BY <1>3 DEF SoundCache, Has
    <3> HIDE DEF d
    <3> QED
      BY <3>1, <3>2
  <2>2. /\ Used(c.keys, k) \in Seq(Key) /\ NoRepeats(Used(c.keys, k))
        /\ Range(Used(c.keys, k)) = Range(c.keys) \cup {k}
        /\ Len(Used(c.keys, k)) <= Len(c.keys)
    BY <2>1, PromotedKeys DEF Sound
  <2>3. Len(Used(c.keys, k)) \in Nat /\ Len(c.keys) \in Nat
    BY <2>1, <2>2, LenProperties DEF Sound
  <2>4. Sound(c.entries, Used(c.keys, k), c.pointers)
    BY <2>1, <2>2, <2>3, CacheAssumption DEF Sound
  <2>5. SoundCache(d) /\ Within(d, c)
    BY <2>1, <2>4 DEF SoundCache, Within
  <2> QED
    BY <1>3, <2>5 DEF Looked
<1> QED
  BY <1>1, <1>2, <1>3

LEMMA StoredFacts ==
  ASSUME NEW c, SoundCache(c), NEW k \in Key, NEW entry \in Entry
  PROVE  /\ SoundCache(Stored(c, k, entry))
         /\ k \in DOMAIN Stored(c, k, entry).entries
         /\ Stored(c, k, entry).entries[k] = entry
         /\ \A x \in DOMAIN Stored(c, k, entry).entries : x # k =>
              x \in DOMAIN c.entries /\ Stored(c, k, entry).entries[x] = c.entries[x]
<1> DEFINE full == ~Has(c, k) /\ Len(c.keys) >= MaxSize
           room == IF full THEN Dropped(c, {Head(c.keys)}) ELSE c
           put == [x \in DOMAIN room.entries \cup {k} |->
                     IF x = k THEN entry ELSE room.entries[x]]
           d == Stored(c, k, entry)
<1>1. SoundCache(room) /\ Within(room, c)
  BY DroppedFacts DEF Within
<1>2. k \notin DOMAIN room.entries => Len(room.keys) <= MaxSize - 1
  <2>1. Sound(c.entries, c.keys, c.pointers) /\ Len(c.keys) \in Nat
    BY LenProperties DEF SoundCache, Sound
  <2>2. CASE ~full
    BY <2>1, <2>2, CacheAssumption DEF Sound, Has
  <2>3. CASE full
    <3>1. Len(c.keys) >= 1 /\ c.keys # << >>
      BY <2>1, <2>3, CacheAssumption, EmptySeq DEF Sound
    <3>2. Head(c.keys) = c.keys[1] /\ 1 \in DOMAIN c.keys
      BY <2>1, <3>1, LenProperties, HeadTailProperties DEF Sound
    <3>3. Head(c.keys) \in Range(c.keys)
      BY <3>2 DEF Range
    <3>4. room.keys = KeysBut(c.keys, {Head(c.keys)})
      BY <2>3, DroppedFacts
    <3>5. Len(room.keys) <= Len(c.keys) - 1 /\ Len(room.keys) \in Nat
      <4>1. room.keys \in Seq(Key)
        BY <1>1 DEF SoundCache, Sound
      <4> HIDE DEF room
      <4> QED
        BY <2>1, <3>3, <3>4, <4>1, FewerKeys, LenProperties DEF Sound
    <3> HIDE DEF room
    <3> QED
      BY <2>1, <3>5, CacheAssumption DEF Sound
  <2> QED
    BY <2>2, <2>3
<1> HIDE DEF room
<1>3. d = [entries |-> put, keys |-> Used(room.keys, k), pointers |-> room.pointers]
  <2>1. room = [entries |-> room.entries, keys |-> room.keys, pointers |-> room.pointers]
    BY <1>1 DEF SoundCache
  <2>2. Promoted(room, k) =
          [entries |-> room.entries, keys |-> Used(room.keys, k), pointers |-> room.pointers]
    <3>1. Promoted(room, k) = [room EXCEPT !.keys = Used(room.keys, k)]
      BY DEF Promoted, Used
    <3> QED
      BY <2>1, <3>1
  <2>3. d = [Promoted(room, k) EXCEPT !.entries =
               [x \in DOMAIN @ \cup {k} |-> IF x = k THEN entry ELSE @[x]]]
    BY DEF Stored, room
  <2> QED
    BY <2>2, <2>3
<1>4. /\ Used(room.keys, k) \in Seq(Key) /\ NoRepeats(Used(room.keys, k))
      /\ Range(Used(room.keys, k)) = Range(room.keys) \cup {k}
      /\ Len(Used(room.keys, k)) <= Len(room.keys) + 1
      /\ k \in Range(room.keys) => Len(Used(room.keys, k)) <= Len(room.keys)
      /\ Len(Used(room.keys, k)) \in Nat /\ Len(room.keys) \in Nat
  BY <1>1, PromotedKeys, LenProperties DEF SoundCache, Sound
<1>5. Sound(put, Used(room.keys, k), room.pointers)
  <2>1. Sound(room.entries, room.keys, room.pointers)
    BY <1>1 DEF SoundCache
  <2>2. put \in [DOMAIN put -> Entry] /\ DOMAIN put = DOMAIN room.entries \cup {k}
    BY <2>1 DEF Sound
  <2>3. Len(Used(room.keys, k)) <= MaxSize
    BY <1>2, <1>4, <2>1, CacheAssumption DEF Sound
  <2>4. room.pointers \in [DOMAIN room.pointers -> DOMAIN put]
    BY <2>1, <2>2 DEF Sound
  <2> HIDE DEF put
  <2> QED
    BY <1>4, <2>1, <2>2, <2>3, <2>4 DEF Sound
<1> QED
  BY <1>1, <1>3, <1>5 DEF SoundCache, Within

LEMMA PointedFacts ==
  ASSUME NEW c, SoundCache(c), NEW o \in Orig, NEW k \in Key
  PROVE  SoundCache(Pointed(c, o, k)) /\ Within(Pointed(c, o, k), c)
<1>1. CASE ~Has(c, k)
  BY <1>1 DEF Pointed, Within
<1>2. CASE Has(c, k)
  <2> DEFINE to == [x \in DOMAIN c.pointers \cup {o} |-> IF x = o THEN k ELSE c.pointers[x]]
             d == Pointed(c, o, k)
  <2>1. /\ c = [entries |-> c.entries, keys |-> c.keys, pointers |-> c.pointers]
        /\ Sound(c.entries, c.keys, c.pointers) /\ k \in DOMAIN c.entries
    BY <1>2 DEF SoundCache, Has
  <2>2. d = [entries |-> c.entries, keys |-> c.keys, pointers |-> to]
    BY <1>2, <2>1 DEF Pointed
  <2>3. to \in [DOMAIN to -> DOMAIN c.entries] /\ DOMAIN to \subseteq Orig
    BY <2>1 DEF Sound
  <2> HIDE DEF to
  <2>4. Sound(c.entries, c.keys, to)
    BY <2>1, <2>3 DEF Sound
  <2> QED
    BY <2>2, <2>4 DEF SoundCache, Within
<1> QED
  BY <1>1, <1>2

(* A cache whose entries are new but for their deps is as sound.           *)
LEMMA RevisedFacts ==
  ASSUME NEW c, SoundCache(c), NEW e, e \in [DOMAIN c.entries -> Entry]
  PROVE  /\ SoundCache([c EXCEPT !.entries = e])
         /\ [c EXCEPT !.entries = e].entries = e
<1>1. /\ c = [entries |-> c.entries, keys |-> c.keys, pointers |-> c.pointers]
      /\ Sound(c.entries, c.keys, c.pointers)
  BY DEF SoundCache
<1>2. [c EXCEPT !.entries = e] = [entries |-> e, keys |-> c.keys, pointers |-> c.pointers]
  BY <1>1
<1>3. Sound(e, c.keys, c.pointers)
  BY <1>1 DEF Sound
<1> QED
  BY <1>2, <1>3 DEF SoundCache

LEMMA EmptyCacheFacts ==
  /\ SoundCache([entries |-> Empty, keys |-> << >>, pointers |-> Empty])
  /\ DOMAIN [entries |-> Empty, keys |-> << >>, pointers |-> Empty].entries = {}
<1>1. /\ Empty \in [DOMAIN Empty -> Entry] /\ DOMAIN Empty = {}
      /\ Empty \in [DOMAIN Empty -> DOMAIN Empty]
  BY DEF Empty
<1>2. << >> \in Seq(Key) /\ NoRepeats(<< >>) /\ Range(<< >>) = {} /\ Len(<< >>) = 0
  BY EmptySeq, LenProperties DEF NoRepeats, Range
<1>3. Sound(Empty, << >>, Empty)
  BY <1>1, <1>2, CacheAssumption DEF Sound
<1> QED
  BY <1>1, <1>3 DEF SoundCache

-----------------------------------------------------------------------------
(* The inductive invariant of the invalidation.                            *)

(* d is watched, and was accessed no longer ago than age.                  *)
WatchedSince(d, age) == d \in DOMAIN tracked /\ tracked[d] <= age

(* Directories that nobody replaced are watched for the paths in deps, and *)
(* of the ones in written an invalidation is on its way.                   *)
Guarded(deps, written, age) ==
  \A p \in deps : DirOf[p] \notin replaced =>
    /\ WatchedSince(DirOf[p], age)
    /\ p \in written => Pending(p)

(* The lifetime of an entry is shorter than that of an idle watch.         *)
WatchesOutlive == TTL > 0 /\ TTL < PruneAge

EntryGuarded(e) ==
  /\ e.written \subseteq e.deps
  /\ WatchesOutlive /\ e.age <= TTL => Guarded(e.deps, e.written, e.age)

(* What a request has watched since its first Watch was accessed just now. *)
RequestGuarded(r) ==
  /\ req[r].at \in {"stageA", "stageB", "upstream"} => req[r].todo = Mentions[req[r].orig]
  /\ req[r].at = "store" => req[r].todo = {}
  /\ req[r].at \in {"watch", "store"} => Guarded(Mentions[req[r].orig] \ req[r].todo, {}, 0)

InvalidationTypes ==
  InvalidationTypeOK /\ IsFiniteSet(DOMAIN tracked) /\ SoundCache(cache)

InvalidationInv ==
  /\ InvalidationTypes
  /\ DOMAIN tracked \ replaced \subseteq armed
  /\ \A k \in DOMAIN cache.entries : EntryGuarded(cache.entries[k])
  /\ \A r \in Request : RequestGuarded(r)

(* The watches that matter stay.                                           *)
Steady ==
  /\ replaced \subseteq replaced'
  /\ \A d \in Directory, age \in 0..PruneAge :
       WatchedSince(d, age) => WatchedSince(d, age)'

LEMMA EntriesStay ==
  ASSUME InvalidationTypes, Steady,
         \A k \in DOMAIN cache.entries : EntryGuarded(cache.entries[k]),
         NEW k \in DOMAIN cache.entries, k \in DOMAIN cache'.entries,
         cache'.entries[k] = cache.entries[k],
         \A p \in cache.entries[k].written : Pending(p) => Pending(p)'
  PROVE  EntryGuarded(cache.entries[k])'
<1>1. PICK e : e = cache.entries[k]
  OBVIOUS
<1>2. e \in Entry /\ cache'.entries[k] = e /\ EntryGuarded(e)
  BY <1>1 DEF InvalidationTypes, SoundCache, Sound
<1>3. e.deps \in SUBSET Path /\ e.age \in Nat
  BY <1>2 DEF Entry
<1>4. ASSUME WatchesOutlive, e.age <= TTL, NEW p \in e.deps, DirOf[p] \notin replaced'
      PROVE  /\ WatchedSince(DirOf[p], e.age)'
             /\ p \in e.written => Pending(p)'
  <2>1. e.age \in 0..PruneAge /\ DirOf[p] \in Directory
    BY <1>3, <1>4, CacheAssumption, WatcherAssumption, FilesAssumption DEF WatchesOutlive
  <2>2. WatchedSince(DirOf[p], e.age) /\ (p \in e.written => Pending(p))
    BY <1>2, <1>4 DEF EntryGuarded, Guarded, Steady
  <2> QED
    BY <1>1, <2>1, <2>2 DEF Steady
<1> QED
  BY <1>2, <1>4 DEF EntryGuarded, Guarded

LEMMA RequestStays ==
  ASSUME InvalidationTypes, Steady, NEW r \in Request, RequestGuarded(r), req'[r] = req[r]
  PROVE  RequestGuarded(r)'
<1>1. ASSUME req[r].at \in {"watch", "store"}, NEW p \in Mentions[req[r].orig] \ req[r].todo,
             DirOf[p] \notin replaced'
      PROVE  WatchedSince(DirOf[p], 0)'
  <2>1. Mentions[req[r].orig] \subseteq Path
    BY <1>1, HandlerAssumption DEF InvalidationTypes, InvalidationTypeOK, Requests, Done
  <2>2. 0 \in 0..PruneAge /\ DirOf[p] \in Directory
    BY <1>1, <2>1, WatcherAssumption, FilesAssumption
  <2>3. WatchedSince(DirOf[p], 0)
    BY <1>1 DEF RequestGuarded, Guarded, Steady
  <2> QED
    BY <2>2, <2>3 DEF Steady
<1> QED
  BY <1>1 DEF RequestGuarded, Guarded

-----------------------------------------------------------------------------
(* The steps of a request.                                                 *)

LEMMA RequestFacts ==
  ASSUME InvalidationTypes, NEW r \in Request, req[r].at # "done"
  PROVE  /\ req[r] \in Requests
         /\ req[r].orig \in Orig /\ req[r].key \in Key /\ req[r].todo \in SUBSET Path
         /\ Mentions[req[r].orig] \in SUBSET Path
         /\ \A to \in Step \ {"done"} : [req[r] EXCEPT !.at = to] \in Requests
<1>1. req[r] \in Requests
  BY DEF InvalidationTypes, InvalidationTypeOK, Done
<1> QED
  BY <1>1, HandlerAssumption DEF Requests

(* Nothing but requests and the cache moves.                               *)
Undisturbed == UNCHANGED <<watcherVars, fileVars>>

LEMMA UndisturbedSteady ==
  ASSUME InvalidationTypes, Undisturbed
  PROVE  /\ Steady
         /\ WatcherTypeOK' /\ IsFiniteSet(DOMAIN tracked)'
         /\ writes' \in 0..MaxWrites /\ replaced' \in SUBSET Directory
         /\ \A p \in Path : Pending(p) => Pending(p)'
<1>1. Steady
  BY DEF Undisturbed, watcherVars, fileVars, Steady, WatchedSince
<1> QED
  BY <1>1 DEF InvalidationTypes, InvalidationTypeOK, WatcherTypeOK, Undisturbed, watcherVars,
              fileVars, Pending, timerVars

LEMMA EntriesLeft ==
  ASSUME InvalidationInv, Steady, Within(cache', cache),
         \A p \in Path : Pending(p) => Pending(p)'
  PROVE  \A k \in DOMAIN cache'.entries : EntryGuarded(cache.entries[k])'
<1> SUFFICES ASSUME NEW k \in DOMAIN cache'.entries
             PROVE  EntryGuarded(cache.entries[k])'
  OBVIOUS
<1>1. k \in DOMAIN cache.entries /\ cache'.entries[k] = cache.entries[k]
  BY DEF Within
<1>2. cache.entries[k].written \in SUBSET Path
  BY <1>1 DEF InvalidationInv, InvalidationTypes, SoundCache, Sound, Entry
<1> QED
  BY <1>1, <1>2, EntriesStay DEF InvalidationInv

(* One request moves, from a place to another.                             *)
LEMMA RequestsElse ==
  ASSUME InvalidationInv, Steady, NEW r \in Request,
         \A q \in Request \ {r} : req'[q] = req[q], RequestGuarded(r)'
  PROVE  \A q \in Request : RequestGuarded(q)'
BY RequestStays DEF InvalidationInv

LEMMA MovesFacts ==
  ASSUME InvalidationTypes, NEW r \in Request, NEW from \in Step \ {"done"}, NEW to \in Step,
         Moves(r, from, to)
  PROVE  /\ req' \in [Request -> Requests \cup {Done}]
         /\ \A q \in Request \ {r} : req'[q] = req[q]
         /\ to = "done" => req'[r] = Done
         /\ to # "done" => /\ req'[r].at = to /\ req'[r].todo = req[r].todo
                           /\ req'[r].orig = req[r].orig
<1>1. req[r].at = from /\ req \in [Request -> Requests \cup {Done}]
  BY DEF Moves, InvalidationTypes, InvalidationTypeOK
<1>2. req[r] \in Requests /\ (to # "done" => [req[r] EXCEPT !.at = to] \in Requests)
  BY <1>1, RequestFacts
<1> DEFINE new == IF to = "done" THEN Done ELSE [req[r] EXCEPT !.at = to]
<1>3. new \in Requests \cup {Done}
  BY <1>2
<1>4. req' = [req EXCEPT ![r] = new]
  BY DEF Moves
<1>5. to # "done" => new.at = to /\ new.todo = req[r].todo /\ new.orig = req[r].orig
  BY <1>2 DEF Requests
<1>6. to = "done" => new = Done
  OBVIOUS
<1> HIDE DEF new
<1> QED
  BY <1>1, <1>3, <1>4, <1>5, <1>6

(* The whole invariant, when the watcher and the files are left alone.     *)
LEMMA QuietStep ==
  ASSUME InvalidationInv, Undisturbed, SoundCache(cache'),
         \A k \in DOMAIN cache'.entries : EntryGuarded(cache.entries[k])',
         req' \in [Request -> Requests \cup {Done}], arrivals' \in 0..MaxArrivals,
         \A q \in Request : RequestGuarded(q)'
  PROVE  InvalidationInv'
<1>1. /\ WatcherTypeOK' /\ IsFiniteSet(DOMAIN tracked)'
      /\ writes' \in 0..MaxWrites /\ replaced' \in SUBSET Directory
  BY UndisturbedSteady DEF InvalidationInv
<1>2. SoundCache(cache)'
  BY DEF SoundCache, Sound
<1>3. (DOMAIN tracked \ replaced \subseteq armed)'
  BY DEF InvalidationInv, Undisturbed, watcherVars, fileVars
<1>4. InvalidationTypes'
  BY <1>1, <1>2 DEF InvalidationTypes, InvalidationTypeOK
<1>5. (\A k \in DOMAIN cache.entries : EntryGuarded(cache.entries[k]))'
  OBVIOUS
<1>6. (\A r \in Request : RequestGuarded(r))'
  OBVIOUS
<1> QED
  BY <1>3, <1>4, <1>5, <1>6 DEF InvalidationInv

LEMMA ArriveStep ==
  ASSUME InvalidationInv, NEW r \in Request, Arrive(r)
  PROVE  InvalidationInv'
<1>1. Undisturbed /\ cache' = cache /\ arrivals' = arrivals + 1 /\ arrivals < MaxArrivals
  BY DEF Arrive, Undisturbed
<1>2. PICK o \in Orig, k \in Key :
        req' = [req EXCEPT ![r] = [at |-> "stageA", orig |-> o, key |-> k,
                                   todo |-> Mentions[o]]]
  BY DEF Arrive
<1>3. [at |-> "stageA", orig |-> o, key |-> k, todo |-> Mentions[o]] \in Requests
  BY HandlerAssumption DEF Requests, Step
<1>4. InvalidationTypes /\ req \in [Request -> Requests \cup {Done}] /\ arrivals \in 0..MaxArrivals
  BY DEF InvalidationInv, InvalidationTypes, InvalidationTypeOK
<1>5. /\ req' \in [Request -> Requests \cup {Done}]
      /\ \A q \in Request \ {r} : req'[q] = req[q]
  BY <1>2, <1>3, <1>4
<1>6. RequestGuarded(r)'
  <2>1. req'[r].at = "stageA" /\ req'[r].todo = Mentions[o] /\ req'[r].orig = o
    BY <1>2, <1>4
  <2> QED
    BY <2>1 DEF RequestGuarded
<1>7. arrivals' \in 0..MaxArrivals
  BY <1>1, <1>4, HandlerAssumption
<1>8. /\ \A k_1 \in DOMAIN cache'.entries : EntryGuarded(cache.entries[k_1])'
      /\ SoundCache(cache')
  BY <1>1, <1>4, UndisturbedSteady, EntriesLeft DEF Within, InvalidationTypes
<1> QED
  BY <1>1, <1>4, <1>5, <1>6, <1>7, <1>8, QuietStep, UndisturbedSteady, RequestsElse

LEMMA HandlerStep ==
  ASSUME InvalidationInv, NEW r \in Request,
         LookUpOriginal(r) \/ LookUpCompressed(r) \/ UpstreamAnswers(r) \/ AllWatched(r) \/ Point(r)
  PROVE  InvalidationInv'
<1>1. /\ Undisturbed /\ arrivals' = arrivals
  BY DEF LookUpOriginal, LookUpCompressed, UpstreamAnswers, AllWatched, Point, Undisturbed
<1>2. InvalidationTypes /\ arrivals' \in 0..MaxArrivals /\ SoundCache(cache)
  BY <1>1 DEF InvalidationInv, InvalidationTypes, InvalidationTypeOK
<1>3. /\ Steady /\ \A p \in Path : Pending(p) => Pending(p)'
  BY <1>1, <1>2, UndisturbedSteady
<1>4. SoundCache(cache') /\ Within(cache', cache)
  <2>1. CASE LookUpOriginal(r)
    <3>1. CASE Resolves(cache, req[r].orig)
      <4>1. cache.pointers[req[r].orig] \in Key
        BY <1>2, <3>1 DEF SoundCache, Sound, Resolves
      <4> QED
        BY <1>2, <2>1, <3>1, <4>1, LookedFacts DEF LookUpOriginal
    <3>2. CASE ~Resolves(cache, req[r].orig)
      BY <1>2, <2>1, <3>2 DEF LookUpOriginal, Within
    <3> QED
      BY <3>1, <3>2
  <2>2. CASE LookUpCompressed(r)
    <3>1. req[r].key \in Key
      BY <1>2, <2>2, RequestFacts DEF LookUpCompressed, Moves
    <3> QED
      BY <1>2, <2>2, <3>1, LookedFacts DEF LookUpCompressed
  <2>3. CASE UpstreamAnswers(r) \/ AllWatched(r)
    BY <1>2, <2>3 DEF UpstreamAnswers, AllWatched, Within
  <2>4. CASE Point(r)
    <3>1. req[r].key \in Key /\ req[r].orig \in Orig
      BY <1>2, <2>4, RequestFacts DEF Point, Moves
    <3> QED
      BY <1>2, <2>4, <3>1, PointedFacts DEF Point
  <2> QED
    BY <2>1, <2>2, <2>3, <2>4
<1>5. \A k \in DOMAIN cache'.entries : EntryGuarded(cache.entries[k])'
  BY <1>3, <1>4, EntriesLeft
<1>6. PICK from \in Step \ {"done"}, to \in Step :
        /\ Moves(r, from, to)
        /\ \/ to = "done"
           \/ from = "stageA" /\ to = "stageB"
           \/ from = "stageB" /\ to = "upstream"
           \/ from = "upstream" /\ to = "watch"
           \/ from = "watch" /\ to = "store" /\ req[r].todo = {}
  <2>1. CASE LookUpOriginal(r)
    <3>1. Moves(r, "stageA", "done") \/ Moves(r, "stageA", "stageB")
      BY <2>1 DEF LookUpOriginal
    <3> QED
      BY <3>1 DEF Step
  <2>2. CASE LookUpCompressed(r)
    <3>1. Moves(r, "stageB", "done") \/ Moves(r, "stageB", "upstream")
      BY <2>2 DEF LookUpCompressed
    <3> QED
      BY <3>1 DEF Step
  <2>3. CASE UpstreamAnswers(r)
    <3>1. Moves(r, "upstream", "done") \/ Moves(r, "upstream", "watch")
      BY <2>3 DEF UpstreamAnswers
    <3> QED
      BY <3>1 DEF Step
  <2>4. CASE AllWatched(r)
    <3>1. Moves(r, "watch", "store") /\ req[r].todo = {}
      BY <2>4 DEF AllWatched
    <3> QED
      BY <3>1 DEF Step
  <2>5. CASE Point(r)
    <3>1. Moves(r, "point", "done")
      BY <2>5 DEF Point
    <3> QED
      BY <3>1 DEF Step
  <2> QED
    BY <2>1, <2>2, <2>3, <2>4, <2>5
<1>7. /\ req' \in [Request -> Requests \cup {Done}]
      /\ \A q \in Request \ {r} : req'[q] = req[q]
      /\ to = "done" => req'[r] = Done
      /\ to # "done" => /\ req'[r].at = to /\ req'[r].todo = req[r].todo
                        /\ req'[r].orig = req[r].orig
  BY <1>2, <1>6, MovesFacts
<1>8. RequestGuarded(r)'
  <2>1. RequestGuarded(r) /\ req[r].at = from
    BY <1>6 DEF InvalidationInv, Moves
  <2>2. CASE to = "done"
    BY <1>7, <2>2 DEF RequestGuarded, Done
  <2>3. CASE to \in {"stageB", "upstream"}
    BY <1>6, <1>7, <2>1, <2>3 DEF RequestGuarded
  <2>4. CASE to = "watch"
    BY <1>6, <1>7, <2>1, <2>4 DEF RequestGuarded, Guarded
  <2>5. CASE to = "store"
    <3>1. from = "watch" /\ req[r].todo = {} /\ req'[r].at = "store" /\ req'[r].todo = {}
          /\ req'[r].orig = req[r].orig
      BY <1>6, <1>7, <2>5
    <3>2. Guarded(Mentions[req[r].orig] \ {}, {}, 0)
      BY <2>1, <3>1 DEF RequestGuarded
    <3>3. Guarded(Mentions[req[r].orig] \ req[r].todo, {}, 0)'
      BY <1>1, <3>1, <3>2 DEF Guarded, WatchedSince, Undisturbed, watcherVars, fileVars
    <3> QED
      BY <3>1, <3>3 DEF RequestGuarded
  <2> QED
    BY <1>6, <2>2, <2>3, <2>4, <2>5
<1>9. \A q \in Request : RequestGuarded(q)'
  BY <1>3, <1>7, <1>8, RequestsElse
<1> QED
  BY <1>1, <1>2, <1>4, <1>5, <1>7, <1>9, QuietStep

LEMMA StoreStep ==
  ASSUME InvalidationInv, NEW r \in Request, Store(r)
  PROVE  InvalidationInv'
<1> DEFINE entry == [deps |-> Mentions[req[r].orig], age |-> 0, written |-> {}]
           key == req[r].key
<1>1. Undisturbed /\ arrivals' = arrivals /\ Moves(r, "store", "point")
  BY DEF Store, Undisturbed
<1>2. InvalidationTypes /\ arrivals' \in 0..MaxArrivals /\ SoundCache(cache)
  BY <1>1 DEF InvalidationInv, InvalidationTypes, InvalidationTypeOK
<1>3. /\ Steady /\ \A p \in Path : Pending(p) => Pending(p)'
  BY <1>1, <1>2, UndisturbedSteady
<1>4. req[r].at = "store" /\ key \in Key /\ Mentions[req[r].orig] \in SUBSET Path
  BY <1>1, <1>2, RequestFacts DEF Moves
<1>5. entry \in Entry
  BY <1>4 DEF Entry
<1>6. PICK e \in Entry : e = entry
  BY <1>5
<1>7. cache' = Stored(cache, key, e)
  BY <1>6 DEF Store
<1>8. /\ SoundCache(cache')
      /\ key \in DOMAIN cache'.entries /\ cache'.entries[key] = e
      /\ \A x \in DOMAIN cache'.entries : x # key =>
           x \in DOMAIN cache.entries /\ cache'.entries[x] = cache.entries[x]
  <2> HIDE DEF entry, key
  <2> QED
    BY <1>2, <1>4, <1>7, StoredFacts
<1>9. EntryGuarded(cache.entries[key])'
  <2>1. req[r].todo = {} /\ Guarded(Mentions[req[r].orig] \ {}, {}, 0)
    BY <1>4 DEF InvalidationInv, RequestGuarded
  <2>2. ASSUME NEW p \in Mentions[req[r].orig], DirOf[p] \notin replaced'
        PROVE  WatchedSince(DirOf[p], 0)'
    BY <1>1, <2>1, <2>2 DEF Guarded, WatchedSince, Undisturbed, watcherVars, fileVars
  <2>3. /\ e.deps = Mentions[req[r].orig] /\ e.age = 0 /\ e.written = {}
    BY <1>6
  <2>4. cache'.entries[req'[r].key] = e
    <3>1. req'[r].key = req[r].key
      BY <1>1, <1>2, <1>4, RequestFacts DEF Moves, InvalidationTypes, InvalidationTypeOK, Requests
    <3> QED
      BY <1>8, <3>1
  <2> QED
    BY <2>2, <2>3, <2>4 DEF EntryGuarded, Guarded
<1>10. \A k \in DOMAIN cache'.entries : EntryGuarded(cache.entries[k])'
  <2> SUFFICES ASSUME NEW k \in DOMAIN cache'.entries
               PROVE  EntryGuarded(cache.entries[k])'
    OBVIOUS
  <2>1. CASE k = req'[r].key
    BY <1>9, <2>1
  <2>2. CASE k # req'[r].key
    <3>1. req'[r].key = req[r].key
      BY <1>1, <1>2, <1>4, RequestFacts DEF Moves, InvalidationTypes, InvalidationTypeOK, Requests
    <3>2. k \in DOMAIN cache.entries /\ cache'.entries[k] = cache.entries[k]
      BY <1>8, <2>2, <3>1
    <3>3. cache.entries[k].written \in SUBSET Path
      BY <1>2, <3>2 DEF SoundCache, Sound, Entry
    <3> QED
      BY <1>2, <1>3, <3>2, <3>3, EntriesStay DEF InvalidationInv
  <2> QED
    BY <2>1, <2>2
<1>11. /\ req' \in [Request -> Requests \cup {Done}]
       /\ \A q \in Request \ {r} : req'[q] = req[q]
       /\ req'[r].at = "point"
  BY <1>1, <1>2, MovesFacts DEF Step
<1>12. \A q \in Request : RequestGuarded(q)'
  BY <1>3, <1>11, RequestsElse DEF RequestGuarded
<1> QED
  BY <1>1, <1>2, <1>8, <1>10, <1>11, <1>12, QuietStep

(* Watch: what was tracked is refreshed, what is new is armed.             *)
LEMMA WatchPathStep ==
  ASSUME InvalidationInv, NEW r \in Request, WatchPath(r)
  PROVE  InvalidationInv'
<1>1. /\ req[r].at = "watch" /\ UNCHANGED <<cache, unread, timerVars, arrivals, fileVars>>
  BY DEF WatchPath
<1>2. InvalidationTypes /\ WatcherTypeOK /\ IsFiniteSet(DOMAIN tracked)
  BY DEF InvalidationInv, InvalidationTypes, InvalidationTypeOK
<1>3. PICK p \in req[r].todo :
        \/ /\ Watch(p)
           /\ req' = IF IsWatching(p)' THEN [req EXCEPT ![r].todo = @ \ {p}]
                                       ELSE [req EXCEPT ![r] = Done]
        \/ /\ WatchFails(p)
           /\ req' = [req EXCEPT ![r] = Done]
  BY DEF WatchPath
<1>4. /\ req[r] \in Requests /\ req[r].orig \in Orig /\ req[r].todo \in SUBSET Path
      /\ Mentions[req[r].orig] \in SUBSET Path /\ p \in Path
      /\ [req[r] EXCEPT !.todo = @ \ {p}] \in Requests
      /\ req \in [Request -> Requests \cup {Done}]
  <2>1. /\ req[r] \in Requests /\ req[r].orig \in Orig /\ req[r].todo \in SUBSET Path
        /\ Mentions[req[r].orig] \in SUBSET Path
    BY <1>1, <1>2, RequestFacts
  <2> QED
    BY <1>2, <2>1 DEF Requests, InvalidationTypes, InvalidationTypeOK
<1> DEFINE d == DirOf[p]
<1>5. d \in Directory
  BY <1>4, FilesAssumption
<1>6. /\ tracked' = tracked \/ tracked' = Touched(d)
      /\ WatcherTypeOK' /\ IsFiniteSet(DOMAIN tracked)'
      /\ (DOMAIN tracked \ replaced \subseteq armed)'
  <2>1. DOMAIN tracked \subseteq Directory /\ tracked \in [DOMAIN tracked -> Nat]
        /\ armed \subseteq DOMAIN tracked /\ Cardinality(DOMAIN tracked) <= MaxDirs
        /\ DOMAIN tracked \ replaced \subseteq armed /\ replaced' = replaced
    BY <1>1, <1>2 DEF WatcherTypeOK, InvalidationInv, fileVars
  <2>2. /\ debounce \in [Path -> {"none", "running", "fired"}]
        /\ \A f \in {unread, orphans, fired, calls} : f \in [Path -> Nat]
    BY <1>2 DEF WatcherTypeOK
  <2>3. /\ debounce' \in [Path -> {"none", "running", "fired"}]
        /\ \A f \in {unread', orphans', fired', calls'} : f \in [Path -> Nat]
    BY <1>1, <2>2 DEF timerVars
  <2>4. CASE tracked' = tracked /\ armed' = armed
    BY <1>2, <2>1, <2>3, <2>4 DEF WatcherTypeOK
  <2>5. CASE tracked' = Touched(d) /\ d \in DOMAIN tracked /\ armed' = armed
    <3>1. DOMAIN tracked' = DOMAIN tracked /\ tracked' \in [DOMAIN tracked -> Nat]
      BY <2>1, <2>5 DEF Touched
    <3> QED
      BY <1>2, <2>1, <2>3, <2>5, <3>1 DEF WatcherTypeOK
  <2>6. CASE /\ tracked' = Touched(d) /\ d \notin DOMAIN tracked
             /\ Cardinality(DOMAIN tracked) < MaxDirs /\ armed' = armed \cup {d}
    <3>1. /\ DOMAIN tracked' = DOMAIN tracked \cup {d}
          /\ tracked' \in [DOMAIN tracked \cup {d} -> Nat]
      BY <2>1, <2>6 DEF Touched
    <3>2. /\ IsFiniteSet(DOMAIN tracked \cup {d})
          /\ Cardinality(DOMAIN tracked \cup {d}) = Cardinality(DOMAIN tracked) + 1
      BY <1>2, <2>6, FS_AddElement
    <3>3. Cardinality(DOMAIN tracked) \in Nat
      BY <1>2, FS_CardinalityType
    <3>4. Cardinality(DOMAIN tracked') <= MaxDirs
      BY <2>6, <3>1, <3>2, <3>3, WatcherAssumption
    <3> HIDE DEF d
    <3> QED
      BY <1>5, <2>1, <2>3, <2>6, <3>1, <3>2, <3>4 DEF WatcherTypeOK
  <2>7. \/ tracked' = tracked /\ armed' = armed
        \/ tracked' = Touched(d) /\ d \in DOMAIN tracked /\ armed' = armed
        \/ /\ tracked' = Touched(d) /\ d \notin DOMAIN tracked
           /\ Cardinality(DOMAIN tracked) < MaxDirs /\ armed' = armed \cup {d}
    BY <1>3 DEF Watch, WatchFails
  <2> QED
    BY <2>4, <2>5, <2>6, <2>7
<1>7. /\ Steady /\ \A q \in Path : Pending(q) => Pending(q)'
  <2>1. ASSUME NEW e \in Directory, NEW age \in 0..PruneAge, WatchedSince(e, age)
        PROVE  WatchedSince(e, age)'
    <3>1. CASE tracked' = tracked
      BY <2>1, <3>1 DEF WatchedSince
    <3>2. CASE tracked' = Touched(d)
      <4>1. e \in DOMAIN tracked' /\ tracked'[e] = IF e = d THEN 0 ELSE tracked[e]
        BY <2>1, <3>2 DEF WatchedSince, Touched
      <4>2. age \in Nat
        BY WatcherAssumption
      <4> HIDE DEF d
      <4> QED
        BY <2>1, <4>1, <4>2 DEF WatchedSince
    <3> QED
      BY <1>6, <3>1, <3>2
  <2> QED
    BY <1>1, <2>1 DEF Steady, fileVars, Pending, timerVars
<1>8. RequestGuarded(r)' /\ req' \in [Request -> Requests \cup {Done}]
      /\ \A q \in Request \ {r} : req'[q] = req[q]
  <2>1. CASE req' = [req EXCEPT ![r] = Done]
    BY <1>4, <2>1 DEF Done, RequestGuarded
  <2>2. CASE /\ Watch(p) /\ IsWatching(p)'
             /\ req' = [req EXCEPT ![r] = [req[r] EXCEPT !.todo = req[r].todo \ {p}]]
    <3>1. /\ req'[r].at = "watch" /\ req'[r].orig = req[r].orig
          /\ req'[r].todo = req[r].todo \ {p}
      BY <1>1, <1>4, <2>2 DEF Requests
    <3>2. Guarded(Mentions[req[r].orig] \ req[r].todo, {}, 0)
      BY <1>1 DEF InvalidationInv, RequestGuarded
    <3>3. WatchedSince(d, 0)'
      BY <2>2 DEF Watch, IsWatching, WatchedSince, Touched
    <3>4. ASSUME NEW q \in Mentions[req[r].orig] \ (req[r].todo \ {p}), DirOf[q] \notin replaced'
          PROVE  WatchedSince(DirOf[q], 0)'
      <4>1. CASE q = p
        BY <3>3, <4>1
      <4>2. CASE q # p
        <5>1. q \in Path /\ DirOf[q] \in Directory /\ 0 \in 0..PruneAge
          BY <1>4, FilesAssumption, WatcherAssumption
        <5>2. WatchedSince(DirOf[q], 0)
          BY <1>7, <3>2, <3>4, <4>2 DEF Guarded, Steady
        <5> QED
          BY <1>7, <5>1, <5>2 DEF Steady
      <4> QED
        BY <4>1, <4>2
    <3>5. RequestGuarded(r)'
      BY <3>1, <3>4 DEF RequestGuarded, Guarded
    <3> QED
      BY <1>4, <2>2, <3>5
  <2>3. CASE Watch(p) /\ IsWatching(p)'
    <3>1. \/ req' = [req EXCEPT ![r] = [req[r] EXCEPT !.todo = req[r].todo \ {p}]]
          \/ req' = [req EXCEPT ![r] = Done]
      BY <1>3, <2>3
    <3> QED
      BY <2>1, <2>2, <2>3, <3>1
  <2>4. CASE ~(Watch(p) /\ IsWatching(p)')
    <3>1. req' = [req EXCEPT ![r] = Done]
      BY <1>3, <2>4
    <3> QED
      BY <2>1, <3>1
  <2> QED
    BY <2>3, <2>4
<1>9. \A q \in Request : RequestGuarded(q)'
  BY <1>7, <1>8, RequestsElse
<1>10. (\A k \in DOMAIN cache.entries : EntryGuarded(cache.entries[k]))' /\ SoundCache(cache)'
  BY <1>1, <1>2, <1>7, EntriesLeft DEF Within, InvalidationTypes, SoundCache, Sound
<1>11. InvalidationTypeOK'
  BY <1>1, <1>2, <1>6, <1>8 DEF InvalidationTypes, InvalidationTypeOK, fileVars
<1> QED
  BY <1>6, <1>9, <1>10, <1>11 DEF InvalidationInv, InvalidationTypes

-----------------------------------------------------------------------------
(* The watcher, its timers, the janitor, files and time.                   *)

(* The whole invariant, when no request moves.                             *)
LEMMA RequestsWait ==
  ASSUME InvalidationInv, Steady, UNCHANGED requestVars,
         WatcherTypeOK', IsFiniteSet(DOMAIN tracked)', (DOMAIN tracked \ replaced \subseteq armed)',
         writes' \in 0..MaxWrites, replaced' \in SUBSET Directory, SoundCache(cache'),
         \A k \in DOMAIN cache'.entries : EntryGuarded(cache.entries[k])'
  PROVE  InvalidationInv'
<1>1. InvalidationTypes'
  <2>1. SoundCache(cache)'
    BY DEF SoundCache, Sound
  <2> QED
    BY <2>1 DEF InvalidationInv, InvalidationTypes, InvalidationTypeOK, requestVars
<1>2. (\A r \in Request : RequestGuarded(r))'
  BY RequestStays DEF InvalidationInv, requestVars
<1> QED
  BY <1>1, <1>2 DEF InvalidationInv

LEMMA WatcherFacts ==
  ASSUME InvalidationInv
  PROVE  /\ DOMAIN tracked \subseteq Directory /\ tracked \in [DOMAIN tracked -> Nat]
         /\ Cardinality(DOMAIN tracked) <= MaxDirs /\ armed \subseteq DOMAIN tracked
         /\ debounce \in [Path -> {"none", "running", "fired"}]
         /\ unread \in [Path -> Nat] /\ orphans \in [Path -> Nat]
         /\ fired \in [Path -> Nat] /\ calls \in [Path -> Nat]
         /\ IsFiniteSet(DOMAIN tracked) /\ DOMAIN tracked \ replaced \subseteq armed
         /\ writes \in 0..MaxWrites /\ replaced \in SUBSET Directory /\ SoundCache(cache)
BY DEF InvalidationInv, InvalidationTypes, InvalidationTypeOK, WatcherTypeOK

LEMMA TimersType ==
  ASSUME debounce' \in [Path -> {"none", "running", "fired"}],
         unread' \in [Path -> Nat], orphans' \in [Path -> Nat],
         fired' \in [Path -> Nat], calls' \in [Path -> Nat],
         DOMAIN tracked' \subseteq Directory, tracked' \in [DOMAIN tracked' -> Nat],
         Cardinality(DOMAIN tracked') <= MaxDirs, armed' \subseteq DOMAIN tracked'
  PROVE  WatcherTypeOK'
BY DEF WatcherTypeOK

LEMMA ReportStep ==
  ASSUME InvalidationInv, NEW p \in Path, ReadEvent(p) \/ Fire(p) \/ Forget(p)
  PROVE  InvalidationInv'
<1>1. /\ UNCHANGED <<cache, requestVars, fileVars, armed>>
      /\ tracked' = tracked \/ tracked' = Refreshed(DirOf[p])
  BY DEF ReadEvent, Fire, Forget, HandleEvent, TimerFires, ForgetTimer
<1>2. DOMAIN tracked' = DOMAIN tracked /\ tracked' \in [DOMAIN tracked -> Nat]
  BY <1>1, WatcherFacts DEF Refreshed, Touched
<1>3. \A d \in DOMAIN tracked : tracked'[d] <= tracked[d]
  BY <1>1, WatcherFacts DEF Refreshed, Touched
<1>4. Steady
  <2>1. ASSUME NEW d \in Directory, NEW age \in 0..PruneAge, WatchedSince(d, age)
        PROVE  WatchedSince(d, age)'
    <3>1. /\ d \in DOMAIN tracked /\ tracked[d] <= age /\ tracked'[d] <= tracked[d]
          /\ tracked[d] \in Nat /\ tracked'[d] \in Nat /\ age \in Nat
      BY <1>2, <1>3, <2>1, WatcherFacts, WatcherAssumption DEF WatchedSince
    <3> QED
      BY <1>2, <3>1 DEF WatchedSince
  <2> QED
    BY <1>1, <2>1 DEF Steady, fileVars
<1>5. /\ debounce' \in [Path -> {"none", "running", "fired"}]
      /\ unread' \in [Path -> Nat] /\ orphans' \in [Path -> Nat]
      /\ fired' \in [Path -> Nat] /\ calls' \in [Path -> Nat]
      /\ \A q \in Path : Pending(q) => Pending(q)'
  <2>1. CASE HandleEvent(p)
    BY <2>1, WatcherFacts DEF HandleEvent, ResetTimer, Pending
  <2>2. CASE TimerFires(p)
    <3>1. /\ fired' = [fired EXCEPT ![p] = fired[p] + 1] /\ UNCHANGED <<unread, calls>>
          /\ \/ debounce' = [debounce EXCEPT ![p] = "fired"] /\ orphans' = orphans
             \/ /\ orphans[p] > 0 /\ orphans' = [orphans EXCEPT ![p] = orphans[p] - 1]
                /\ debounce' = debounce
      BY <2>2 DEF TimerFires
    <3> QED
      BY <3>1, WatcherFacts DEF Pending
  <2>3. CASE ForgetTimer(p)
    BY <2>3, WatcherFacts DEF ForgetTimer, Pending
  <2> QED
    BY <2>1, <2>2, <2>3 DEF ReadEvent, Fire, Forget
<1>6. WatcherTypeOK' /\ IsFiniteSet(DOMAIN tracked)' /\ (DOMAIN tracked \ replaced \subseteq armed)'
  BY <1>1, <1>2, <1>5, WatcherFacts, TimersType DEF fileVars
<1>7. \A k \in DOMAIN cache'.entries : EntryGuarded(cache.entries[k])'
  BY <1>1, <1>4, <1>5, EntriesLeft DEF Within
<1> QED
  BY <1>1, <1>4, <1>6, <1>7, WatcherFacts, RequestsWait DEF fileVars

(* onChange takes away the entries its call stood for.                     *)
LEMMA OnChangeStep ==
  ASSUME InvalidationInv, NEW p \in Path, OnChange(p)
  PROVE  InvalidationInv'
<1>1. /\ cache' = Invalidated(cache, p) /\ calls' = [calls EXCEPT ![p] = calls[p] - 1]
      /\ calls[p] > 0
      /\ UNCHANGED <<tracked, armed, unread, debounce, orphans, fired, requestVars, fileVars>>
  BY DEF OnChange
<1> DEFINE gone == {k \in DOMAIN cache.entries : p \in cache.entries[k].deps}
<1>2. /\ SoundCache(cache') /\ Within(cache', cache)
      /\ DOMAIN cache'.entries = DOMAIN cache.entries \ gone
  BY <1>1, WatcherFacts, DroppedFacts DEF Invalidated
<1>3. Steady
  BY <1>1 DEF Steady, WatchedSince, fileVars
<1>4. /\ calls' \in [Path -> Nat] /\ \A q \in Path \ {p} : Pending(q) => Pending(q)'
  BY <1>1, WatcherFacts DEF Pending
<1>5. ASSUME NEW k \in DOMAIN cache'.entries
      PROVE  EntryGuarded(cache.entries[k])'
  <2>1. k \in DOMAIN cache.entries /\ cache'.entries[k] = cache.entries[k] /\ k \notin gone
    BY <1>2, <1>5 DEF Within
  <2>2. cache.entries[k].written \subseteq cache.entries[k].deps /\ p \notin cache.entries[k].deps
    BY <2>1 DEF InvalidationInv, EntryGuarded
  <2>3. cache.entries[k].written \in SUBSET Path
    BY <2>1, WatcherFacts DEF SoundCache, Sound, Entry
  <2>4. \A q \in cache.entries[k].written : Pending(q) => Pending(q)'
    BY <1>4, <2>2, <2>3
  <2> HIDE DEF gone
  <2> QED
    BY <1>3, <2>1, <2>4, EntriesStay DEF InvalidationInv
<1>6. WatcherTypeOK'
  BY <1>1, <1>4, WatcherFacts, TimersType
<1> QED
  BY <1>1, <1>2, <1>3, <1>5, <1>6, WatcherFacts, RequestsWait DEF fileVars

(* pruneStale takes no watch that an entry leans on.                       *)
LEMMA PruneStep ==
  ASSUME InvalidationInv, PruneStale
  PROVE  InvalidationInv'
<1> DEFINE kept == {d \in DOMAIN tracked : tracked[d] <= PruneAge}
<1>1. /\ tracked' = [d \in kept |-> tracked[d]] /\ armed' = armed \ (DOMAIN tracked \ kept)
      /\ UNCHANGED <<unread, timerVars, cache, requestVars, fileVars>>
  BY DEF PruneStale, Prune
<1>2. DOMAIN tracked' = kept /\ tracked' \in [kept -> Nat] /\ kept \subseteq DOMAIN tracked
  BY <1>1, WatcherFacts
<1>3. /\ IsFiniteSet(kept) /\ Cardinality(kept) <= Cardinality(DOMAIN tracked)
      /\ Cardinality(kept) \in Nat /\ Cardinality(DOMAIN tracked) \in Nat
  BY <1>2, WatcherFacts, FS_Subset, FS_CardinalityType
<1>4. Steady
  <2>1. ASSUME NEW d \in Directory, NEW age \in 0..PruneAge, WatchedSince(d, age)
        PROVE  WatchedSince(d, age)'
    <3>1. d \in kept /\ tracked'[d] = tracked[d]
      BY <1>1, <2>1, WatcherFacts, WatcherAssumption DEF WatchedSince
    <3> QED
      BY <1>2, <2>1, <3>1 DEF WatchedSince
  <2> QED
    BY <1>1, <2>1 DEF Steady, fileVars
<1>5. \A q \in Path : Pending(q) => Pending(q)'
  BY <1>1 DEF Pending, timerVars
<1>6. /\ WatcherTypeOK' /\ IsFiniteSet(DOMAIN tracked)'
      /\ (DOMAIN tracked \ replaced \subseteq armed)'
  <2>1. armed' \subseteq kept /\ kept \ replaced \subseteq armed'
    BY <1>1, <1>2, WatcherFacts
  <2>2. Cardinality(kept) <= MaxDirs
    BY <1>3, WatcherFacts, WatcherAssumption
  <2> HIDE DEF kept
  <2> QED
    BY <1>1, <1>2, <1>3, <2>1, <2>2, WatcherFacts, TimersType DEF timerVars, fileVars
<1>7. \A k \in DOMAIN cache'.entries : EntryGuarded(cache.entries[k])'
  BY <1>1, <1>4, <1>5, EntriesLeft DEF Within
<1> HIDE DEF kept
<1> QED
  BY <1>1, <1>4, <1>6, <1>7, WatcherFacts, RequestsWait DEF fileVars

LEMMA CleanStep ==
  ASSUME InvalidationInv, Cleanup \/ FlushCaches
  PROVE  InvalidationInv'
<1>1. Undisturbed /\ UNCHANGED requestVars
  BY DEF Cleanup, FlushCaches, Undisturbed
<1>2. SoundCache(cache') /\ Within(cache', cache)
  <2>1. CASE Cleanup
    BY <2>1, WatcherFacts, DroppedFacts DEF Cleanup, Cleaned
  <2>2. CASE FlushCaches
    BY <2>2, EmptyCacheFacts DEF FlushCaches, Within
  <2> QED
    BY <2>1, <2>2
<1>3. /\ Steady /\ WatcherTypeOK' /\ IsFiniteSet(DOMAIN tracked)'
      /\ writes' \in 0..MaxWrites /\ replaced' \in SUBSET Directory
      /\ \A p \in Path : Pending(p) => Pending(p)'
  BY <1>1, UndisturbedSteady DEF InvalidationInv
<1>4. (DOMAIN tracked \ replaced \subseteq armed)'
  BY <1>1, WatcherFacts DEF Undisturbed, watcherVars, fileVars
<1>5. \A k \in DOMAIN cache'.entries : EntryGuarded(cache.entries[k])'
  BY <1>2, <1>3, EntriesLeft
<1> QED
  BY <1>1, <1>2, <1>3, <1>4, <1>5, RequestsWait

LEMMA WriteFileStep ==
  ASSUME InvalidationInv, NEW p \in Path, WriteFile(p)
  PROVE  InvalidationInv'
<1> DEFINE new == [k \in DOMAIN cache.entries |->
                     [cache.entries[k] EXCEPT !.written =
                        cache.entries[k].written \cup ({p} \cap cache.entries[k].deps)]]
<1>1. /\ writes < MaxWrites /\ writes' = writes + 1
      /\ cache' = [cache EXCEPT !.entries = new]
      /\ unread' = [q \in Path |-> IF q \in {p} /\ DirOf[q] \in armed
                                     THEN unread[q] + 1 ELSE unread[q]]
      /\ UNCHANGED <<tracked, armed, timerVars, requestVars, replaced>>
  BY DEF WriteFile, Written, Notified
<1>2. \A k \in DOMAIN cache.entries : cache.entries[k] \in Entry
  BY WatcherFacts DEF SoundCache, Sound
<1>3. /\ new \in [DOMAIN cache.entries -> Entry]
      /\ \A k \in DOMAIN cache.entries :
           /\ new[k].deps = cache.entries[k].deps /\ new[k].age = cache.entries[k].age
           /\ new[k].written = cache.entries[k].written \cup ({p} \cap cache.entries[k].deps)
  BY <1>2 DEF Entry
<1> HIDE DEF new
<1>4. SoundCache(cache') /\ cache'.entries = new
  BY <1>1, <1>3, WatcherFacts, RevisedFacts
<1>5. Steady
  BY <1>1 DEF Steady, WatchedSince
<1>6. unread' \in [Path -> Nat] /\ \A q \in Path : Pending(q) => Pending(q)'
  <2>1. \A q \in Path : unread'[q] = unread[q] \/ unread'[q] = unread[q] + 1
    BY <1>1
  <2>2. unread' \in [Path -> Nat]
    BY <1>1, WatcherFacts
  <2> QED
    BY <1>1, <2>1, <2>2, WatcherFacts DEF Pending, timerVars
<1>7. DirOf[p] \in armed => Pending(p)'
  BY <1>1, WatcherFacts DEF Pending
<1>8. ASSUME NEW k \in DOMAIN cache'.entries
      PROVE  EntryGuarded(cache.entries[k])'
  <2>1. PICK e \in Entry : e = cache.entries[k] /\ k \in DOMAIN cache.entries
    BY <1>2, <1>3, <1>4
  <2>2. /\ cache'.entries[k].deps = e.deps /\ cache'.entries[k].age = e.age
        /\ cache'.entries[k].written = e.written \cup ({p} \cap e.deps)
    BY <1>3, <1>4, <2>1
  <2>3. EntryGuarded(e)
    BY <2>1 DEF InvalidationInv
  <2>4. ASSUME WatchesOutlive, e.age <= TTL, NEW q \in e.deps, DirOf[q] \notin replaced'
        PROVE  /\ WatchedSince(DirOf[q], e.age)'
               /\ q \in e.written \cup {p} => Pending(q)'
    <3>1. q \in Path /\ e.age \in 0..PruneAge /\ DirOf[q] \in Directory
      BY <2>4, CacheAssumption, WatcherAssumption, FilesAssumption DEF WatchesOutlive, Entry
    <3>2. /\ WatchedSince(DirOf[q], e.age) /\ (q \in e.written => Pending(q))
          /\ DirOf[q] \notin replaced
      BY <1>1, <2>3, <2>4 DEF EntryGuarded, Guarded
    <3>3. DirOf[q] \in armed
      BY <3>2, WatcherFacts DEF WatchedSince
    <3> QED
      BY <1>5, <1>6, <1>7, <3>1, <3>2, <3>3 DEF Steady
  <2>5. e.written \cup ({p} \cap e.deps) \subseteq e.deps
    BY <2>3 DEF EntryGuarded
  <2> QED
    BY <2>2, <2>4, <2>5 DEF EntryGuarded, Guarded
<1>9. /\ WatcherTypeOK' /\ IsFiniteSet(DOMAIN tracked)'
      /\ (DOMAIN tracked \ replaced \subseteq armed)'
  BY <1>1, <1>6, WatcherFacts, TimersType DEF timerVars
<1>10. writes' \in 0..MaxWrites /\ replaced' \in SUBSET Directory
  BY <1>1, WatcherFacts, HandlerAssumption
<1> QED
  BY <1>1, <1>4, <1>5, <1>8, <1>9, <1>10, RequestsWait

(* What a replaced directory held is excepted from now on.                 *)
LEMMA ReplaceDirStep ==
  ASSUME InvalidationInv, NEW d \in Directory, ReplaceDir(d)
  PROVE  InvalidationInv'
<1> DEFINE files == {q \in Path : DirOf[q] = d}
           new == [k \in DOMAIN cache.entries |->
                     [cache.entries[k] EXCEPT !.written =
                        cache.entries[k].written \cup (files \cap cache.entries[k].deps)]]
<1>1. /\ replaced' = replaced \cup {d}
      /\ cache' = [cache EXCEPT !.entries = new]
      /\ unread' = [q \in Path |-> IF q \in files /\ DirOf[q] \in armed
                                     THEN unread[q] + 1 ELSE unread[q]]
      /\ armed' = armed \ {d}
      /\ UNCHANGED <<tracked, timerVars, requestVars, writes>>
  BY DEF ReplaceDir, Written, Notified
<1>2. \A k \in DOMAIN cache.entries : cache.entries[k] \in Entry
  BY WatcherFacts DEF SoundCache, Sound
<1>3. /\ new \in [DOMAIN cache.entries -> Entry]
      /\ \A k \in DOMAIN cache.entries :
           /\ new[k].deps = cache.entries[k].deps /\ new[k].age = cache.entries[k].age
           /\ new[k].written = cache.entries[k].written \cup (files \cap cache.entries[k].deps)
  BY <1>2 DEF Entry
<1>4. \A q \in files : DirOf[q] = d
  OBVIOUS
<1> HIDE DEF new, files
<1>5. SoundCache(cache') /\ cache'.entries = new
  BY <1>1, <1>3, WatcherFacts, RevisedFacts
<1>6. Steady
  BY <1>1 DEF Steady, WatchedSince
<1>7. unread' \in [Path -> Nat] /\ \A q \in Path : Pending(q) => Pending(q)'
  <2>1. \A q \in Path : unread'[q] = unread[q] \/ unread'[q] = unread[q] + 1
    BY <1>1
  <2>2. unread' \in [Path -> Nat]
    BY <1>1, WatcherFacts
  <2> QED
    BY <1>1, <2>1, <2>2, WatcherFacts DEF Pending, timerVars
<1>8. ASSUME NEW k \in DOMAIN cache'.entries
      PROVE  EntryGuarded(cache.entries[k])'
  <2>1. PICK e \in Entry : e = cache.entries[k] /\ k \in DOMAIN cache.entries
    BY <1>2, <1>3, <1>5
  <2>2. /\ cache'.entries[k].deps = e.deps /\ cache'.entries[k].age = e.age
        /\ cache'.entries[k].written = e.written \cup (files \cap e.deps)
    BY <1>3, <1>5, <2>1
  <2>3. EntryGuarded(e)
    BY <2>1 DEF InvalidationInv
  <2>4. ASSUME WatchesOutlive, e.age <= TTL, NEW q \in e.deps, DirOf[q] \notin replaced'
        PROVE  /\ WatchedSince(DirOf[q], e.age)'
               /\ q \in e.written \cup files => Pending(q)'
    <3>1. q \in Path /\ e.age \in 0..PruneAge /\ DirOf[q] \in Directory
      BY <2>4, CacheAssumption, WatcherAssumption, FilesAssumption DEF WatchesOutlive, Entry
    <3>2. /\ WatchedSince(DirOf[q], e.age) /\ (q \in e.written => Pending(q))
          /\ q \notin files
      BY <1>1, <1>4, <2>3, <2>4 DEF EntryGuarded, Guarded
    <3> QED
      BY <1>6, <1>7, <3>1, <3>2 DEF Steady
  <2>5. e.written \cup (files \cap e.deps) \subseteq e.deps
    BY <2>3 DEF EntryGuarded
  <2> QED
    BY <2>2, <2>4, <2>5 DEF EntryGuarded, Guarded
<1>9. /\ WatcherTypeOK' /\ IsFiniteSet(DOMAIN tracked)'
      /\ (DOMAIN tracked \ replaced \subseteq armed)'
  BY <1>1, <1>7, WatcherFacts, TimersType DEF timerVars
<1>10. writes' \in 0..MaxWrites /\ replaced' \in SUBSET Directory
  BY <1>1, WatcherFacts
<1> QED
  BY <1>1, <1>5, <1>6, <1>8, <1>9, <1>10, RequestsWait

(* Entries and watches grow old together.                                  *)
LEMMA TickStep ==
  ASSUME InvalidationInv, Tick
  PROVE  InvalidationInv'
<1> DEFINE new == [k \in DOMAIN cache.entries |->
                     [cache.entries[k] EXCEPT !.age = Older(cache.entries[k].age, TTL)]]
<1>1. /\ \A r \in Request : req[r].at \notin {"watch", "store"}
      /\ cache' = [cache EXCEPT !.entries = new]
      /\ tracked' = [d \in DOMAIN tracked |-> Older(tracked[d], PruneAge)]
      /\ UNCHANGED <<armed, unread, timerVars, requestVars, fileVars>>
  BY DEF Tick
<1>2. /\ \A k \in DOMAIN cache.entries : cache.entries[k] \in Entry
      /\ TTL \in Nat /\ PruneAge \in Nat
  BY WatcherFacts, CacheAssumption, WatcherAssumption DEF SoundCache, Sound
<1>3. /\ new \in [DOMAIN cache.entries -> Entry]
      /\ \A k \in DOMAIN cache.entries :
           /\ new[k].deps = cache.entries[k].deps /\ new[k].written = cache.entries[k].written
           /\ new[k].age = Older(cache.entries[k].age, TTL)
  BY <1>2 DEF Entry, Older
<1> HIDE DEF new
<1>4. SoundCache(cache') /\ cache'.entries = new
  BY <1>1, <1>3, WatcherFacts, RevisedFacts
<1>5. /\ DOMAIN tracked' = DOMAIN tracked /\ tracked' \in [DOMAIN tracked -> Nat]
      /\ \A d \in DOMAIN tracked : tracked'[d] <= tracked[d] + 1
  BY <1>1, <1>2, WatcherFacts DEF Older
<1>6. ASSUME NEW k \in DOMAIN cache'.entries
      PROVE  EntryGuarded(cache.entries[k])'
  <2>1. PICK e \in Entry : e = cache.entries[k] /\ k \in DOMAIN cache.entries
    BY <1>2, <1>3, <1>4
  <2>2. /\ cache'.entries[k].deps = e.deps /\ cache'.entries[k].age = Older(e.age, TTL)
        /\ cache'.entries[k].written = e.written
    BY <1>3, <1>4, <2>1
  <2>3. EntryGuarded(e)
    BY <2>1 DEF InvalidationInv
  <2>4. ASSUME WatchesOutlive, Older(e.age, TTL) <= TTL, NEW q \in e.deps,
               DirOf[q] \notin replaced'
        PROVE  /\ WatchedSince(DirOf[q], Older(e.age, TTL))'
               /\ q \in e.written => Pending(q)'
    <3>1. e.age \in Nat /\ e.age <= TTL /\ Older(e.age, TTL) = e.age + 1
      BY <1>2, <2>4 DEF Entry, Older
    <3>2. /\ WatchedSince(DirOf[q], e.age) /\ (q \in e.written => Pending(q))
      BY <1>1, <2>3, <2>4, <3>1 DEF EntryGuarded, Guarded, fileVars
    <3>3. DirOf[q] \in DOMAIN tracked /\ tracked[DirOf[q]] <= e.age
      BY <3>2 DEF WatchedSince
    <3>4. DirOf[q] \in DOMAIN tracked' /\ tracked'[DirOf[q]] <= e.age + 1
      BY <1>5, <3>1, <3>3, WatcherFacts
    <3> QED
      BY <1>1, <3>1, <3>2, <3>4 DEF WatchedSince, Pending, timerVars
  <2> QED
    BY <2>2, <2>3, <2>4 DEF EntryGuarded, Guarded
<1>7. WatcherTypeOK'
  BY <1>1, <1>5, WatcherFacts, TimersType DEF timerVars
<1>8. InvalidationTypes'
  <2>1. SoundCache(cache)'
    BY <1>4 DEF SoundCache, Sound
  <2> QED
    BY <1>1, <1>5, <1>7, <2>1
    DEF InvalidationInv, InvalidationTypes, InvalidationTypeOK, requestVars, fileVars
<1>9. (\A r \in Request : RequestGuarded(r))'
  BY <1>1 DEF InvalidationInv, RequestGuarded, requestVars
<1> QED
  BY <1>1, <1>5, <1>6, <1>8, <1>9, WatcherFacts DEF InvalidationInv, fileVars

LEMMA InvalidationInitial == InvalidationInit => InvalidationInv
<1> SUFFICES ASSUME InvalidationInit PROVE InvalidationInv
  OBVIOUS
<1>1. /\ cache = [entries |-> Empty, keys |-> << >>, pointers |-> Empty]
      /\ tracked = [d \in {} |-> 0] /\ armed = {} /\ req = [r \in Request |-> Done]
      /\ arrivals = 0 /\ writes = 0 /\ replaced = {}
      /\ unread = [p \in Path |-> 0] /\ debounce = [p \in Path |-> "none"]
      /\ orphans = [p \in Path |-> 0] /\ fired = [p \in Path |-> 0]
      /\ calls = [p \in Path |-> 0]
  BY DEF InvalidationInit, CacheInit, WatcherInit
<1>2. SoundCache(cache) /\ DOMAIN cache.entries = {}
  BY <1>1, EmptyCacheFacts
<1>3. DOMAIN tracked = {} /\ IsFiniteSet({}) /\ Cardinality({}) = 0
  BY <1>1, FS_EmptySet
<1>4. WatcherTypeOK
  BY <1>1, <1>3, WatcherAssumption DEF WatcherTypeOK
<1>5. InvalidationTypes
  BY <1>1, <1>2, <1>3, <1>4, HandlerAssumption DEF InvalidationTypes, InvalidationTypeOK
<1>6. \A r \in Request : RequestGuarded(r)
  BY <1>1 DEF RequestGuarded, Done
<1> QED
  BY <1>1, <1>2, <1>3, <1>5, <1>6 DEF InvalidationInv

LEMMA InvalidationStep == InvalidationInv /\ [InvalidationNext]_invalidationVars => InvalidationInv'
<1> SUFFICES ASSUME InvalidationInv, [InvalidationNext]_invalidationVars
             PROVE  InvalidationInv'
  OBVIOUS
<1>1. ASSUME NEW r \in Request, Arrive(r) \/ Handle(r)
      PROVE  InvalidationInv'
  BY <1>1, ArriveStep, HandlerStep, StoreStep, WatchPathStep DEF Handle
<1>2. ASSUME NEW p \in Path, Report(p) \/ WriteFile(p)
      PROVE  InvalidationInv'
  BY <1>2, ReportStep, OnChangeStep, WriteFileStep DEF Report
<1>3. CASE PruneStale \/ Cleanup \/ FlushCaches \/ Tick
  BY <1>3, PruneStep, CleanStep, TickStep
<1>4. ASSUME NEW d \in Directory, ReplaceDir(d)
      PROVE  InvalidationInv'
  BY <1>4, ReplaceDirStep
<1>5. CASE UNCHANGED invalidationVars
  <2>1. Undisturbed /\ UNCHANGED requestVars /\ cache' = cache
    BY <1>5 DEF invalidationVars, Undisturbed
  <2>2. /\ Steady /\ WatcherTypeOK' /\ IsFiniteSet(DOMAIN tracked)'
        /\ writes' \in 0..MaxWrites /\ replaced' \in SUBSET Directory
        /\ \A p \in Path : Pending(p) => Pending(p)'
    BY <2>1, UndisturbedSteady DEF InvalidationInv
  <2>3. (DOMAIN tracked \ replaced \subseteq armed)'
    BY <2>1, WatcherFacts DEF Undisturbed, watcherVars, fileVars
  <2>4. \A k \in DOMAIN cache'.entries : EntryGuarded(cache.entries[k])'
    BY <2>1, <2>2, EntriesLeft DEF Within
  <2> QED
    BY <2>1, <2>2, <2>3, <2>4, WatcherFacts, RequestsWait
<1> QED
  BY <1>1, <1>2, <1>3, <1>4, <1>5 DEF InvalidationNext

LEMMA InvalidationInvariant == InvalidationSpec => []InvalidationInv
BY InvalidationInitial, InvalidationStep, PTL DEF InvalidationSpec

(* The watcher and the requests keep to their types.                       *)
THEOREM InvalidationTypeCorrect == InvalidationSpec => []InvalidationTypeOK
<1>1. InvalidationInv => InvalidationTypeOK
  BY DEF InvalidationInv, InvalidationTypes
<1> QED
  BY <1>1, InvalidationInvariant, PTL

(* Entries, order of use and pointers agree, and the cache keeps within    *)
(* its capacity, for any number of requests.                               *)
THEOREM CacheStaysConsistent == InvalidationSpec => []CacheConsistent
<1>1. InvalidationInv => CacheConsistent
  BY DEF InvalidationInv, InvalidationTypes, SoundCache, Sound, NoRepeats, CacheConsistent, Range
<1> QED
  BY <1>1, InvalidationInvariant, PTL

(* A live entry is watched, and once a file under it was written its       *)
(* invalidation is on its way, for every lifetime shorter than the pruning *)
(* age.                                                                    *)
THEOREM StaleAlwaysPending == InvalidationSpec => []StaleIsPending
<1>1. InvalidationInv => StaleIsPending
  <2> SUFFICES ASSUME InvalidationInv, TTL > 0 /\ TTL < PruneAge,
                      NEW k \in DOMAIN cache.entries, ~Expired(cache, k),
                      NEW p \in cache.entries[k].deps, DirOf[p] \notin replaced
               PROVE  /\ IsWatching(p)
                      /\ p \in cache.entries[k].written => Pending(p)
    BY DEF StaleIsPending
  <2>1. cache.entries[k].age \in Nat
    BY WatcherFacts DEF SoundCache, Sound, Entry
  <2>2. cache.entries[k].age <= TTL
    BY <2>1, CacheAssumption DEF Expired
  <2> QED
    BY <2>2 DEF InvalidationInv, EntryGuarded, WatchesOutlive, Guarded, WatchedSince, IsWatching
<1> QED
  BY <1>1, InvalidationInvariant, PTL

-----------------------------------------------------------------------------
(* Shutdown: types.                                                        *)

LEMMA QueueHead ==
  ASSUME NEW S, NEW s \in Seq(S), s # << >>, NoRepeats(s)
  PROVE  /\ Head(s) \in S /\ Head(s) \in Range(s)
         /\ Tail(s) \in Seq(S) /\ NoRepeats(Tail(s))
         /\ Range(Tail(s)) = Range(s) \ {Head(s)}
         /\ Len(Tail(s)) = Len(s) - 1
<1> DEFINE n == Len(s)
           t == Tail(s)
<1>1. /\ n \in Nat /\ DOMAIN s = 1..n /\ n # 0
      /\ Head(s) \in S /\ Head(s) = s[1] /\ t \in Seq(S) /\ Len(t) = n - 1
      /\ \A i \in 1..Len(t) : t[i] = s[i + 1]
  BY LenProperties, HeadTailProperties, EmptySeq
<1>2. DOMAIN t = 1..(n - 1) /\ \A i \in 1..(n - 1) : t[i] = s[i + 1]
  BY <1>1, LenProperties
<1> HIDE DEF n, t
<1>3. 1 \in 1..n /\ \A i \in 1..(n - 1) : i + 1 \in 1..n /\ i + 1 # 1
  BY <1>1
<1>4. NoRepeats(t)
  <2>1. ASSUME NEW i \in 1..(n - 1), NEW j \in 1..(n - 1), t[i] = t[j]
        PROVE  i = j
    <3>1. s[i + 1] = s[j + 1] /\ i + 1 \in DOMAIN s /\ j + 1 \in DOMAIN s
      BY <1>1, <1>2, <1>3, <2>1
    <3>2. i + 1 = j + 1
      BY <3>1 DEF NoRepeats
    <3> QED
      BY <1>1, <3>2
  <2> QED
    BY <1>2, <2>1 DEF NoRepeats
<1>5. Range(t) = Range(s) \ {Head(s)}
  <2>1. ASSUME NEW x \in Range(t)
        PROVE  x \in Range(s) \ {Head(s)}
    <3>1. PICK i \in 1..(n - 1) : x = s[i + 1]
      BY <1>2 DEF Range
    <3> QED
      BY <1>1, <1>3, <3>1 DEF Range, NoRepeats
  <2>2. ASSUME NEW x \in Range(s) \ {Head(s)}
        PROVE  x \in Range(t)
    <3>1. PICK i \in 1..n : x = s[i] /\ i # 1
      BY <1>1 DEF Range
    <3>2. i - 1 \in 1..(n - 1) /\ (i - 1) + 1 = i
      BY <1>1, <3>1
    <3>3. t[i - 1] = x
      BY <1>2, <3>1, <3>2
    <3> QED
      BY <1>2, <3>2, <3>3 DEF Range
  <2> QED
    BY <2>1, <2>2
<1>6. Head(s) \in Range(s)
  BY <1>1, <1>3 DEF Range
<1> QED
  BY <1>1, <1>4, <1>5, <1>6 DEF n, t

Counts == [enqueued : Nat, recorded : SUBSET Reporter, dropped : SUBSET Reporter]
Calls == [at : CallerAt, result : {"none", "nil", "timeout"}]
Stops == [by : Caller \cup {NoOne}, expired : BOOLEAN, drained : BOOLEAN,
          final : Snapshot, saved : BOOLEAN]
Tales == [contended : SUBSET Reporter, strayed : SUBSET Reporter]
Flushes == [at : FlusherAt, snapshot : Snapshot, flushes : Nat]

LEMMA ShutdownConstants ==
  /\ NoOne \in Taker /\ NoOne \in Event /\ Reporter \subseteq Taker /\ Reporter \subseteq Event
  /\ NoOne \notin Reporter /\ NoOne \notin Caller
  /\ QueueCap \in Nat \ {0} /\ Http \subseteq Reporter /\ Session \subseteq Reporter
  /\ Http \cap Session = {} /\ Reporter = Http \cup Session
  /\ Loads \subseteq Load /\ IsFiniteSet(Reporter) /\ IsFiniteSet(Taker)
<1>1. IsFiniteSet(Reporter)
  BY ShutdownAssumption, FS_Union DEF Reporter
<1>2. IsFiniteSet(Reporter \cup {NoOne})
  BY <1>1, FS_AddElement
<1> QED
  BY <1>1, <1>2, ShutdownAssumption DEF Reporter, Taker, Event

LEMMA ShutdownTypeFacts ==
  ASSUME ShutdownTypeOK
  PROVE  /\ load \in Loads /\ sender \in [Reporter -> SenderAt]
         /\ queued \in Seq(Reporter) /\ Len(queued) <= QueueCap /\ Len(queued) \in Nat
         /\ carried \in [Taker -> Event] /\ counted \in Counts /\ quit \in BOOLEAN
         /\ worker \in WorkerAt /\ flusher \in Flushes /\ log \in Seq(Snapshot)
         /\ caller \in [Caller -> Calls] /\ stop \in Stops /\ gossip \in Tales
BY LenProperties
DEF ShutdownTypeOK, Counts, Calls, Stops, Tales, Flushes

(* Who is about to record an event has one, and nobody else.               *)
Holding ==
  /\ \A r \in Reporter : carried[r] # NoOne <=> sender[r] = "record"
  /\ carried[NoOne] # NoOne <=> worker \in {"record", "drainRecord"}

LEMMA SendersType ==
  ASSUME ShutdownTypeOK, Holding, NEW r \in Reporter,
         \/ BeginRequest(r) \/ Enqueue(r) \/ CountEnqueued(r) \/ FindFull(r)
         \/ DrainOne(r) \/ RecordDrained(r) \/ Drop(r)
  PROVE  ShutdownTypeOK'
<1> USE ShutdownTypeFacts, ShutdownConstants
<1>1. UNCHANGED others
  BY DEF BeginRequest, Enqueue, CountEnqueued, FindFull, DrainOne, RecordDrained, Drop
<1>2. sender' \in [Reporter -> SenderAt]
  BY DEF BeginRequest, Enqueue, CountEnqueued, FindFull, DrainOne, RecordDrained, Drop,
         Advances, SenderAt
<1>3. queued' \in Seq(Reporter) /\ Len(queued') <= QueueCap
  <2>1. CASE queued' = queued
    BY <2>1
  <2>2. CASE Enqueue(r)
    <3>1. queued' = Append(queued, r) /\ Len(queued) < QueueCap
      BY <2>2 DEF Enqueue, Full
    <3>2. Append(queued, r) \in Seq(Reporter) /\ Len(Append(queued, r)) = Len(queued) + 1
      BY AppendProperties
    <3> QED
      BY <3>1, <3>2
  <2>3. CASE queued' = Tail(queued) /\ queued # << >>
    <3>1. Tail(queued) \in Seq(Reporter) /\ Len(Tail(queued)) = Len(queued) - 1
      BY <2>3, HeadTailProperties
    <3> QED
      BY <2>3, <3>1
  <2> QED
    BY <2>1, <2>2, <2>3
    DEF BeginRequest, CountEnqueued, FindFull, DrainOne, RecordDrained, Drop
<1>4. carried' \in [Taker -> Event]
  <2>1. CASE DrainOne(r)
    <3>1. queued # << >> => Head(queued) \in Reporter
      BY HeadTailProperties
    <3> QED
      BY <2>1, <3>1 DEF DrainOne
  <2>2. CASE RecordDrained(r)
    BY <2>2 DEF RecordDrained, RecordHeld
  <2> QED
    BY <2>1, <2>2 DEF BeginRequest, Enqueue, CountEnqueued, FindFull, Drop
<1>5. counted' \in Counts
  <2>1. CASE CountEnqueued(r)
    BY <2>1 DEF CountEnqueued, Counts
  <2>2. CASE RecordDrained(r)
    <3>1. counted' = [counted EXCEPT !.recorded = @ \cup {carried[r]}]
      BY <2>2 DEF RecordDrained, RecordHeld
    <3>2. carried[r] \in Reporter
      BY <2>2 DEF Holding, RecordDrained, Advances, Event
    <3> QED
      BY <3>1, <3>2 DEF Counts
  <2>3. CASE Drop(r)
    BY <2>3 DEF Drop, Counts
  <2> QED
    BY <2>1, <2>2, <2>3 DEF BeginRequest, Enqueue, FindFull, DrainOne
<1>6. gossip' \in Tales
  <2>1. CASE Enqueue(r)
    BY <2>1 DEF Enqueue, Tales
  <2>2. CASE DrainOne(r)
    <3>1. queued # << >> => Head(queued) \in Reporter
      BY HeadTailProperties
    <3>2. CASE queued = << >>
      BY <2>2, <3>2 DEF DrainOne
    <3>3. CASE queued # << >>
      <4>1. gossip' = gossip
            \/ gossip' = [gossip EXCEPT !.strayed = gossip.strayed \cup {Head(queued)}]
        BY <2>2, <3>3 DEF DrainOne
      <4> QED
        BY <3>1, <3>3, <4>1 DEF Tales
    <3> QED
      BY <3>2, <3>3
  <2> QED
    BY <2>1, <2>2 DEF BeginRequest, CountEnqueued, FindFull, RecordDrained, Drop
<1> QED
  BY <1>1, <1>2, <1>3, <1>4, <1>5, <1>6 DEF ShutdownTypeOK, others, Counts, Tales

LEMMA WorkersType ==
  ASSUME ShutdownTypeOK, Holding, WorkerTakes \/ WorkerRecords \/ WorkerQuits
  PROVE  ShutdownTypeOK'
<1> USE ShutdownTypeFacts, ShutdownConstants
<1>1. UNCHANGED <<load, sender, quit, flusher, log, caller, stop, gossip>>
  BY DEF WorkerTakes, WorkerRecords, WorkerQuits
<1>2. worker' \in WorkerAt
  BY DEF WorkerTakes, WorkerRecords, WorkerQuits, WorkerAt
<1>3. queued' \in Seq(Reporter) /\ Len(queued') <= QueueCap
  <2>1. queued # << >> => /\ Tail(queued) \in Seq(Reporter)
                          /\ Len(Tail(queued)) = Len(queued) - 1
    BY HeadTailProperties
  <2> QED
    <3>1. CASE queued' = queued
      BY <3>1
    <3>2. CASE queued' = Tail(queued) /\ queued # << >>
      BY <2>1, <3>2
    <3> QED
      BY <3>1, <3>2 DEF WorkerTakes, WorkerRecords, WorkerQuits
<1>4. carried' \in [Taker -> Event]
  <2>1. queued # << >> => Head(queued) \in Reporter
    BY HeadTailProperties
  <2> QED
    BY <2>1 DEF WorkerTakes, WorkerRecords, RecordHeld, WorkerQuits
<1>5. counted' \in Counts
  <2>1. CASE WorkerRecords
    <3>1. counted' = [counted EXCEPT !.recorded = @ \cup {carried[NoOne]}]
      BY <2>1 DEF WorkerRecords, RecordHeld
    <3> QED
      BY <2>1, <3>1 DEF Holding, WorkerRecords, Counts, Event
  <2> QED
    BY <2>1 DEF WorkerTakes, WorkerQuits
<1> QED
  BY <1>1, <1>2, <1>3, <1>4, <1>5 DEF ShutdownTypeOK, Counts

LEMMA FlushType ==
  ASSUME ShutdownTypeOK, FlushBegins \/ FlushWrites \/ FlusherQuits
  PROVE  ShutdownTypeOK'
<1> USE ShutdownTypeFacts, ShutdownConstants
<1>1. UNCHANGED <<load, sender, queued, carried, counted, quit, worker, caller, stop, gossip>>
  BY DEF FlushBegins, FlushWrites, FlusherQuits
<1>2. flusher' \in Flushes
  <2>1. counted.recorded \in Snapshot
    BY DEF Counts, Snapshot
  <2> QED
    <3>1. CASE FlushBegins
      BY <2>1, <3>1 DEF FlushBegins, Flushes, FlusherAt
    <3>2. CASE FlushWrites \/ FlusherQuits
      BY <3>2 DEF FlushWrites, FlusherQuits, Flushes, FlusherAt, Snapshot
    <3> QED
      BY <3>1, <3>2
<1>3. log' \in Seq(Snapshot)
  <2>1. Append(log, flusher.snapshot) \in Seq(Snapshot)
    BY AppendProperties DEF Flushes
  <2> QED
    BY <2>1 DEF FlushBegins, FlushWrites, FlusherQuits
<1> QED
  BY <1>1, <1>2, <1>3 DEF ShutdownTypeOK, Flushes

(* Where a caller goes next.                                               *)
LEMMA CallerMoves ==
  ASSUME ShutdownTypeOK, NEW c \in Caller, NEW at \in CallerAt,
         caller' = [caller EXCEPT ![c].at = at]
  PROVE  caller' \in [Caller -> Calls]
<1>1. caller[c] \in Calls
  BY ShutdownTypeFacts
<1>2. [caller[c] EXCEPT !.at = at] \in Calls
  BY <1>1 DEF Calls
<1>3. caller' = [caller EXCEPT ![c] = [caller[c] EXCEPT !.at = at]]
  OBVIOUS
<1> QED
  BY <1>2, <1>3, ShutdownTypeFacts

LEMMA CallerResolves ==
  ASSUME ShutdownTypeOK, NEW c \in Caller, NEW at \in CallerAt,
         NEW result \in {"none", "nil", "timeout"},
         caller' = [caller EXCEPT ![c].at = at, ![c].result = result]
  PROVE  caller' \in [Caller -> Calls]
<1> DEFINE old == caller[c]
<1>1. old \in Calls
  BY ShutdownTypeFacts
<1>2. caller' = [caller EXCEPT ![c] = [old EXCEPT !.at = at, !.result = result]]
  OBVIOUS
<1> HIDE DEF old
<1>3. [old EXCEPT !.at = at, !.result = result] \in Calls
  BY <1>1 DEF Calls
<1> QED
  BY <1>2, <1>3, ShutdownTypeFacts

LEMMA CallersType ==
  ASSUME ShutdownTypeOK, (\E c \in Caller : CallShutdown(c) \/ Proceed(c)) \/ DeadlinePasses
  PROVE  ShutdownTypeOK'
<1> USE ShutdownTypeFacts, ShutdownConstants
<1>1. UNCHANGED <<load, sender, queued, carried, counted, worker, flusher, gossip>>
  BY DEF CallShutdown, Proceed, ServerStops, CloseQuit, WaitForWorkers, TakeFinal, WriteFinal,
         WaiterReturns, DeadlinePasses, rest
<1>2. counted.recorded \in Snapshot
  BY DEF Counts, Snapshot
<1>3. /\ caller' \in [Caller -> Calls] /\ stop' \in Stops /\ quit' \in BOOLEAN
      /\ log' \in Seq(Snapshot)
  <2>1. CASE DeadlinePasses
    BY <2>1 DEF DeadlinePasses, Stops
  <2>2. ASSUME NEW c \in Caller, CallShutdown(c) \/ Proceed(c)
        PROVE  /\ caller' \in [Caller -> Calls] /\ stop' \in Stops /\ quit' \in BOOLEAN
               /\ log' \in Seq(Snapshot)
    <3>1. CASE CallShutdown(c)
      <4>1. caller' \in [Caller -> Calls]
        <5>1. PICK at \in CallerAt : caller' = [caller EXCEPT ![c].at = at]
          BY <3>1 DEF CallShutdown, CallerGoes, CallerAt
        <5> QED
          BY <5>1, CallerMoves
      <4>2. stop' \in Stops
        BY <1>2, <3>1 DEF CallShutdown, Stops
      <4> QED
        BY <3>1, <4>1, <4>2 DEF CallShutdown
    <3>2. CASE ServerStops(c)
      <4>1. caller' \in [Caller -> Calls]
        <5>1. caller' = [caller EXCEPT ![c].at = "close"] /\ "close" \in CallerAt
          BY <3>2 DEF ServerStops, CallerGoes, CallerAt
        <5> QED
          BY <5>1, CallerMoves
      <4>2. stop' \in Stops
        BY <1>2, <3>2 DEF ServerStops, Stops
      <4> QED
        BY <3>2, <4>1, <4>2 DEF ServerStops
    <3>3. CASE CloseQuit(c)
      <4>1. caller' \in [Caller -> Calls]
        <5>1. caller' = [caller EXCEPT ![c].at = "workers"] /\ "workers" \in CallerAt
          BY <3>3 DEF CloseQuit, CallerGoes, CallerAt
        <5> QED
          BY <5>1, CallerMoves
      <4>2. stop' \in Stops
        BY <3>3 DEF CloseQuit
      <4> QED
        BY <3>3, <4>1, <4>2 DEF CloseQuit
    <3>4. CASE WaitForWorkers(c)
      <4>1. caller' \in [Caller -> Calls]
        <5>1. PICK result \in {"nil", "timeout"} :
                caller' = [caller EXCEPT ![c].at = "snapshot", ![c].result = result]
          BY <3>4 DEF WaitForWorkers
        <5>2. "snapshot" \in CallerAt
          BY DEF CallerAt
        <5> QED
          BY <5>1, <5>2, CallerResolves
      <4>2. stop' \in Stops
        BY <3>4 DEF WaitForWorkers
      <4> QED
        BY <3>4, <4>1, <4>2 DEF WaitForWorkers
    <3>5. CASE TakeFinal(c)
      <4>1. caller' \in [Caller -> Calls]
        <5>1. caller' = [caller EXCEPT ![c].at = "write"] /\ "write" \in CallerAt
          BY <3>5 DEF TakeFinal, CallerGoes, CallerAt
        <5> QED
          BY <5>1, CallerMoves
      <4>2. stop' \in Stops
        BY <1>2, <3>5 DEF TakeFinal, Stops
      <4> QED
        BY <3>5, <4>1, <4>2 DEF TakeFinal
    <3>6. CASE WaiterReturns(c)
      <4>1. caller' \in [Caller -> Calls]
        <5>1. caller' = [caller EXCEPT ![c].at = "returned", ![c].result = "nil"]
              /\ "returned" \in CallerAt
          BY <3>6 DEF WaiterReturns, CallerAt
        <5> QED
          BY <5>1, CallerResolves
      <4>2. stop' \in Stops
        BY <3>6 DEF WaiterReturns
      <4> QED
        BY <3>6, <4>1, <4>2 DEF WaiterReturns
    <3>7. CASE WriteFinal(c)
      <4>1. caller' \in [Caller -> Calls]
        <5>1. caller' = [caller EXCEPT ![c].at = "returned"] /\ "returned" \in CallerAt
          BY <3>7 DEF WriteFinal, CallerGoes, CallerAt
        <5> QED
          BY <5>1, CallerMoves
      <4>2. stop' \in Stops
        BY <3>7 DEF WriteFinal, Stops
      <4>3. stop.final \in Snapshot
        BY DEF Stops
      <4>4. Append(log, stop.final) \in Seq(Snapshot)
        BY <4>3, AppendProperties
      <4> QED
        BY <3>7, <4>1, <4>2, <4>4 DEF WriteFinal
    <3> QED
      BY <2>2, <3>1, <3>2, <3>3, <3>4, <3>5, <3>6, <3>7 DEF Proceed
  <2> QED
    BY <2>1, <2>2
<1> QED
  BY <1>1, <1>3 DEF ShutdownTypeOK, Calls, Stops

-----------------------------------------------------------------------------
(* Where the accepted events are: each in one place, the queue, the        *)
(* recorded ones or a pair of hands.                                       *)
Hands(car) == {t \in Taker : car[t] # NoOne}
Placed(q, rec, car, accepted) ==
  /\ NoRepeats(q)
  /\ \A t, u \in Hands(car) : car[t] = car[u] => t = u
  /\ \A x \in rec : x \notin Range(q)
  /\ \A t \in Hands(car) : car[t] \notin Range(q) /\ car[t] \notin rec
  /\ \A x : x \in accepted <=> \/ x \in Range(q) \/ x \in rec
                               \/ \E t \in Hands(car) : x = car[t]

LEMMA PlacedAtEnd ==
  ASSUME NEW q \in Seq(Reporter), NEW rec \in SUBSET Reporter, NEW car \in [Taker -> Event],
         NEW accepted, Placed(q, rec, car, accepted), NEW r \in Reporter, r \notin accepted
  PROVE  Placed(Append(q, r), rec, car, accepted \cup {r})
<1>1. r \notin Range(q) /\ r \notin rec /\ \A t \in Hands(car) : r # car[t]
  BY DEF Placed
<1>2. NoRepeats(Append(q, r)) /\ Range(Append(q, r)) = Range(q) \cup {r}
  BY <1>1, KeysAppended DEF Placed
<1> QED
  BY <1>1, <1>2 DEF Placed

LEMMA PlacedInHands ==
  ASSUME NEW q \in Seq(Reporter), NEW rec \in SUBSET Reporter, NEW car \in [Taker -> Event],
         NEW accepted, Placed(q, rec, car, accepted), q # << >>,
         NEW t \in Taker, car[t] = NoOne
  PROVE  Placed(Tail(q), rec, [car EXCEPT ![t] = Head(q)], accepted)
<1> DEFINE held == [car EXCEPT ![t] = Head(q)]
<1>1. /\ Head(q) \in Reporter /\ Head(q) \in Range(q) /\ NoRepeats(Tail(q))
      /\ Range(Tail(q)) = Range(q) \ {Head(q)}
  BY QueueHead DEF Placed
<1>2. NoOne \notin Reporter
  BY ShutdownConstants
<1>3. /\ held[t] = Head(q) /\ \A u \in Taker : u # t => held[u] = car[u]
      /\ \A u : u \in Hands(held) <=> u = t \/ u \in Hands(car)
  BY <1>1, <1>2 DEF Hands
<1> HIDE DEF held
<1>4. \A u \in Hands(car) : u \in Taker /\ u # t
  BY DEF Hands
<1>5. \A u, v \in Hands(held) : held[u] = held[v] => u = v
  BY <1>1, <1>3, <1>4 DEF Placed
<1>6. \A x : (\E u \in Hands(held) : x = held[u])
              <=> x = Head(q) \/ (\E u \in Hands(car) : x = car[u])
  BY <1>3, <1>4
<1>7. \A u \in Hands(held) : held[u] \notin Range(Tail(q)) /\ held[u] \notin rec
  BY <1>1, <1>3, <1>4 DEF Placed
<1>8. \A x : x \in accepted <=> \/ x \in Range(Tail(q)) \/ x \in rec
                                \/ \E u \in Hands(held) : x = held[u]
  BY <1>1, <1>6 DEF Placed
<1>9. \A x \in rec : x \notin Range(Tail(q))
  BY <1>1 DEF Placed
<1>10. Placed(Tail(q), rec, held, accepted)
  BY <1>1, <1>5, <1>7, <1>8, <1>9 DEF Placed
<1> QED
  BY <1>10 DEF held

LEMMA PlacedInRecord ==
  ASSUME NEW q \in Seq(Reporter), NEW rec \in SUBSET Reporter, NEW car \in [Taker -> Event],
         NEW accepted, Placed(q, rec, car, accepted), NEW t \in Hands(car)
  PROVE  Placed(q, rec \cup {car[t]}, [car EXCEPT ![t] = NoOne], accepted)
<1> DEFINE left == [car EXCEPT ![t] = NoOne]
           grown == rec \cup {car[t]}
<1>1. t \in Taker /\ car[t] # NoOne
  BY DEF Hands
<1>2. /\ \A u \in Taker : u # t => left[u] = car[u]
      /\ \A u : u \in Hands(left) <=> u # t /\ u \in Hands(car)
  BY <1>1 DEF Hands
<1>3. \A u \in Hands(car) : u \in Taker
  BY DEF Hands
<1>4. \A x : x \in grown <=> x \in rec \/ x = car[t]
  OBVIOUS
<1> HIDE DEF left, grown
<1>5. \A u, v \in Hands(left) : left[u] = left[v] => u = v
  BY <1>2, <1>3 DEF Placed
<1>6. \A x \in grown : x \notin Range(q)
  BY <1>4 DEF Placed
<1>7. \A u \in Hands(left) : left[u] \notin Range(q) /\ left[u] \notin grown
  BY <1>2, <1>3, <1>4 DEF Placed
<1>8. \A x : (\E u \in Hands(car) : x = car[u])
              <=> x = car[t] \/ (\E u \in Hands(left) : x = left[u])
  BY <1>2, <1>3
<1>9. \A x : x \in accepted <=> \/ x \in Range(q) \/ x \in grown
                                \/ \E u \in Hands(left) : x = left[u]
  BY <1>4, <1>8 DEF Placed
<1>10. Placed(q, grown, left, accepted)
  BY <1>5, <1>6, <1>7, <1>9 DEF Placed
<1> QED
  BY <1>10 DEF left, grown

(* The places add up.                                                      *)
LEMMA PlacesAddUp ==
  ASSUME NEW q \in Seq(Reporter), NEW rec \in SUBSET Reporter, NEW car \in [Taker -> Event],
         NEW accepted, Placed(q, rec, car, accepted)
  PROVE  Cardinality(accepted) = Len(q) + Cardinality(rec) + Cardinality(Hands(car))
<1> DEFINE hands == Hands(car)
           held == {car[t] : t \in hands}
           inHand == [t \in hands |-> car[t]]
<1>1. IsFiniteSet(hands) /\ IsFiniteSet(rec) /\ IsFiniteSet(Range(q))
  <2>1. hands \in SUBSET Taker /\ IsFiniteSet(Taker) /\ IsFiniteSet(Reporter)
    BY ShutdownConstants DEF Hands
  <2> HIDE DEF hands
  <2> QED
    BY <2>1, FS_Subset, LengthIsCardinality DEF Placed
<1>2. Cardinality(Range(q)) = Len(q)
  BY LengthIsCardinality DEF Placed
<1>3. inHand \in Bijection(hands, held)
  <2>1. inHand \in [hands -> held] /\ \A x \in held : \E t \in hands : inHand[t] = x
    OBVIOUS
  <2>2. \A t, u \in hands : inHand[t] = inHand[u] => t = u
    BY DEF Placed
  <2> HIDE DEF inHand, hands, held
  <2> QED
    BY <2>1, <2>2 DEF Bijection, Injection, Surjection, IsInjective
<1>4. ExistsBijection(hands, held)
  BY <1>3 DEF ExistsBijection
<1>5. /\ \A x \in rec : x \notin Range(q)
      /\ \A x \in held : x \notin Range(q) /\ x \notin rec
      /\ accepted = (Range(q) \cup rec) \cup held
  <2>1. \A x : x \in held <=> \E t \in hands : x = car[t]
    OBVIOUS
  <2> HIDE DEF held
  <2> QED
    BY <2>1 DEF Placed
<1> HIDE DEF hands, held, inHand
<1>6. IsFiniteSet(held) /\ Cardinality(held) = Cardinality(hands)
  BY <1>1, <1>4, FS_Bijection
<1> DEFINE both == Range(q) \cup rec
<1>7. Range(q) \cap rec = {} /\ both \cap held = {}
  BY <1>5
<1>8. Cardinality({}) = 0
  BY FS_EmptySet
<1>9. /\ IsFiniteSet(both)
      /\ Cardinality(both) = Cardinality(Range(q)) + Cardinality(rec)
                               - Cardinality(Range(q) \cap rec)
  BY <1>1, FS_Union
<1> HIDE DEF both
<1>10. Cardinality(both \cup held) = Cardinality(both) + Cardinality(held)
                                       - Cardinality(both \cap held)
  BY <1>6, <1>9, FS_Union
<1>11. /\ Cardinality(Range(q)) \in Nat /\ Cardinality(rec) \in Nat
       /\ Cardinality(held) \in Nat
  BY <1>1, <1>6, FS_CardinalityType
<1>12. accepted = both \cup held
  BY <1>5 DEF both
<1>13. Cardinality(both) = Cardinality(Range(q)) + Cardinality(rec)
  <2>1. Cardinality(both) = Cardinality(Range(q)) + Cardinality(rec) - 0
    BY <1>7, <1>8, <1>9
  <2> QED
    BY <1>11, <2>1
<1>14. Cardinality(accepted) = Cardinality(both) + Cardinality(held) - 0
  BY <1>7, <1>8, <1>10, <1>12
<1>15. Cardinality(accepted) = Len(q) + Cardinality(rec) + Cardinality(hands)
  BY <1>2, <1>6, <1>11, <1>13, <1>14
<1> QED
  BY <1>15 DEF hands

Settled(r) == sender[r] = "done" /\ r \notin counted.dropped
Accepted == {r \in Reporter : sender[r] = "count" \/ Settled(r)}
Places == Placed(queued, counted.recorded, carried, Accepted)
Counted ==
  /\ counted.enqueued = Cardinality({r \in Reporter : Settled(r)})
  /\ \A r \in counted.dropped : sender[r] = "done"

(* What a sender's step does with its own place.                           *)
LEMMA SenderMoves ==
  ASSUME ShutdownTypeOK, NEW r \in Reporter,
         \/ BeginRequest(r) \/ Enqueue(r) \/ CountEnqueued(r) \/ FindFull(r)
         \/ DrainOne(r) \/ RecordDrained(r) \/ Drop(r)
  PROVE  /\ \A q \in Reporter : q # r => sender'[q] = sender[q]
         /\ BeginRequest(r) => sender[r] = "idle" /\ sender'[r] = "try"
         /\ Enqueue(r) => sender[r] \in {"try", "retry"} /\ sender'[r] = "count"
         /\ CountEnqueued(r) => sender[r] = "count" /\ sender'[r] = "done"
         /\ FindFull(r) => sender[r] = "try" /\ sender'[r] = "drain"
         /\ DrainOne(r) => /\ sender[r] = "drain"
                           /\ sender'[r] = IF queued = << >> THEN "retry" ELSE "record"
         /\ RecordDrained(r) => sender[r] = "record" /\ sender'[r] = "retry"
         /\ Drop(r) => sender[r] \in {"try", "retry"} /\ sender'[r] = "done"
<1>1. sender \in [Reporter -> SenderAt]
  BY ShutdownTypeFacts
<1>2. PICK to : sender' = [sender EXCEPT ![r] = to]
  BY DEF BeginRequest, Enqueue, CountEnqueued, FindFull, DrainOne, RecordDrained, Drop, Advances
<1> QED
  BY <1>1, <1>2
  DEF BeginRequest, Enqueue, CountEnqueued, FindFull, DrainOne, RecordDrained, Drop, Advances

LEMMA SendersKeepPlaces ==
  ASSUME ShutdownTypeOK, Holding, Places, Counted, NEW r \in Reporter,
         \/ BeginRequest(r) \/ Enqueue(r) \/ CountEnqueued(r) \/ FindFull(r)
         \/ DrainOne(r) \/ RecordDrained(r) \/ Drop(r)
  PROVE  Holding' /\ Places' /\ Counted'
<1> DEFINE own == sender[r]
           next == sender'[r]
<1>1. /\ \A q \in Reporter : q # r => sender'[q] = sender[q]
      /\ BeginRequest(r) => own = "idle" /\ next = "try"
      /\ Enqueue(r) => own \in {"try", "retry"} /\ next = "count"
      /\ CountEnqueued(r) => own = "count" /\ next = "done"
      /\ FindFull(r) => own = "try" /\ next = "drain"
      /\ DrainOne(r) => own = "drain" /\ next = IF queued = << >> THEN "retry" ELSE "record"
      /\ RecordDrained(r) => own = "record" /\ next = "retry"
      /\ Drop(r) => own \in {"try", "retry"} /\ next = "done"
  BY SenderMoves
<1>2. /\ queued \in Seq(Reporter) /\ counted.recorded \in SUBSET Reporter
      /\ carried \in [Taker -> Event] /\ counted \in Counts
      /\ r \in Taker /\ r # NoOne /\ NoOne \in Taker /\ Reporter \subseteq Taker
      /\ NoOne \notin Reporter /\ IsFiniteSet(Reporter)
  BY ShutdownTypeFacts, ShutdownConstants DEF Counts
<1>3. worker' = worker
  BY DEF BeginRequest, Enqueue, CountEnqueued, FindFull, DrainOne, RecordDrained, Drop, others
<1>4. own # "done" /\ r \notin counted.dropped
  BY <1>1 DEF Counted
<1>5. CASE ~Enqueue(r) /\ ~CountEnqueued(r) /\ ~Drop(r)
  <2>1. /\ own \notin {"count", "done"} /\ next \notin {"count", "done"}
        /\ counted'.enqueued = counted.enqueued /\ counted'.dropped = counted.dropped
    BY <1>1, <1>2, <1>5
    DEF BeginRequest, FindFull, DrainOne, RecordDrained, RecordHeld, Counts
  <2>2. \A q \in Reporter : Settled(q)' <=> Settled(q)
    BY <1>1, <2>1 DEF Settled
  <2>3. {q \in Reporter : Settled(q)'} = {q \in Reporter : Settled(q)}
    BY <2>2
  <2>4. Accepted' = Accepted
    BY <1>1, <2>1, <2>2 DEF Accepted
  <2>5. Counted'
    BY <1>1, <1>2, <2>1, <2>3 DEF Counted, Counts
  <2>6. CASE BeginRequest(r) \/ FindFull(r) \/ (DrainOne(r) /\ queued = << >>)
    <3>1. UNCHANGED <<queued, carried, counted>>
      BY <2>6 DEF BeginRequest, FindFull, DrainOne
    <3>2. Holding'
      BY <1>1, <1>3, <2>6, <3>1 DEF Holding
    <3>3. Places'
      BY <2>4, <3>1 DEF Places
    <3> QED
      BY <2>5, <3>2, <3>3
  <2>7. CASE DrainOne(r) /\ queued # << >>
    <3>1. /\ queued' = Tail(queued) /\ carried' = [carried EXCEPT ![r] = Head(queued)]
          /\ counted' = counted
      BY <2>7 DEF DrainOne
    <3>2. carried[r] = NoOne
      BY <1>1, <2>7 DEF Holding
    <3>3. Placed(Tail(queued), counted.recorded, [carried EXCEPT ![r] = Head(queued)], Accepted)
      BY <1>2, <2>7, <3>2, PlacedInHands DEF Places
    <3>4. Places'
      BY <2>4, <3>1, <3>3 DEF Places
    <3>5. Head(queued) \in Reporter
      BY <1>2, <2>7, HeadTailProperties
    <3>6. /\ carried'[r] = Head(queued) /\ carried'[r] # NoOne
          /\ \A t \in Taker : t # r => carried'[t] = carried[t]
      BY <1>2, <3>1, <3>5
    <3>7. Holding'
      BY <1>1, <1>2, <1>3, <2>7, <3>6 DEF Holding
    <3> QED
      BY <2>5, <3>4, <3>7
  <2>8. CASE RecordDrained(r)
    <3>1. /\ carried' = [carried EXCEPT ![r] = NoOne] /\ queued' = queued
          /\ counted'.recorded = counted.recorded \cup {carried[r]}
      BY <1>2, <2>8 DEF RecordDrained, RecordHeld, Counts
    <3>2. r \in Hands(carried)
      BY <1>1, <1>2, <2>8 DEF Holding, Hands
    <3>3. Placed(queued, counted.recorded \cup {carried[r]}, [carried EXCEPT ![r] = NoOne], Accepted)
      BY <1>2, <3>2, PlacedInRecord DEF Places
    <3>4. Places'
      BY <2>4, <3>1, <3>3 DEF Places
    <3>5. carried'[r] = NoOne /\ \A t \in Taker : t # r => carried'[t] = carried[t]
      BY <1>2, <3>1
    <3>6. Holding'
      BY <1>1, <1>2, <1>3, <2>8, <3>5 DEF Holding
    <3> QED
      BY <2>5, <3>4, <3>6
  <2> QED
    BY <1>5, <2>6, <2>7, <2>8
<1>6. CASE Enqueue(r)
  <2>1. queued' = Append(queued, r) /\ UNCHANGED <<carried, counted>>
    BY <1>6 DEF Enqueue
  <2>2. r \notin Accepted
    BY <1>1, <1>4, <1>6 DEF Accepted, Settled
  <2>3. \A q \in Reporter : Settled(q)' <=> Settled(q)
    BY <1>1, <1>6, <2>1 DEF Settled
  <2>4. {q \in Reporter : Settled(q)'} = {q \in Reporter : Settled(q)}
    BY <2>3
  <2>5. Accepted' = Accepted \cup {r}
    BY <1>1, <1>6, <2>3 DEF Accepted
  <2>6. Placed(Append(queued, r), counted.recorded, carried, Accepted \cup {r})
    BY <1>2, <2>2, PlacedAtEnd DEF Places
  <2>7. Places'
    BY <2>1, <2>5, <2>6 DEF Places
  <2>8. Counted'
    BY <1>1, <1>2, <1>4, <2>1, <2>4 DEF Counted, Counts
  <2>9. Holding'
    BY <1>1, <1>3, <1>6, <2>1 DEF Holding
  <2> QED
    BY <2>7, <2>8, <2>9
<1>7. CASE CountEnqueued(r)
  <2>1. /\ UNCHANGED <<queued, carried>> /\ counted'.enqueued = counted.enqueued + 1
        /\ counted'.recorded = counted.recorded /\ counted'.dropped = counted.dropped
    BY <1>2, <1>7 DEF CountEnqueued, Counts
  <2> DEFINE settled == {q \in Reporter : Settled(q)}
  <2>2. /\ \A q \in Reporter : Settled(q)' <=> Settled(q) \/ q = r
        /\ ~Settled(r)
    BY <1>1, <1>4, <1>7, <2>1 DEF Settled
  <2>3. {q \in Reporter : Settled(q)'} = settled \cup {r} /\ r \notin settled
        /\ settled \in SUBSET Reporter
    BY <2>2
  <2>4. Accepted' = Accepted
    BY <1>1, <1>7, <2>2 DEF Accepted
  <2>5. Places'
    BY <2>1, <2>4 DEF Places
  <2>6. Cardinality({q \in Reporter : Settled(q)'}) = counted.enqueued + 1
    <3> HIDE DEF settled
    <3>1. IsFiniteSet(settled)
      BY <1>2, <2>3, FS_Subset
    <3>2. Cardinality(settled \cup {r}) = Cardinality(settled) + 1
      BY <2>3, <3>1, FS_AddElement
    <3>3. counted.enqueued = Cardinality(settled)
      BY DEF Counted, settled
    <3> QED
      BY <2>3, <3>2, <3>3
  <2>7. Counted'
    BY <1>1, <1>2, <1>7, <2>1, <2>6 DEF Counted, Counts
  <2>8. Holding'
    BY <1>1, <1>3, <1>7, <2>1 DEF Holding
  <2> QED
    BY <2>5, <2>7, <2>8
<1>8. CASE Drop(r)
  <2>1. /\ UNCHANGED <<queued, carried>> /\ counted'.enqueued = counted.enqueued
        /\ counted'.recorded = counted.recorded
        /\ counted'.dropped = counted.dropped \cup {r}
    BY <1>2, <1>8 DEF Drop, Counts
  <2>2. \A q \in Reporter : Settled(q)' <=> Settled(q)
    BY <1>1, <1>4, <1>8, <2>1 DEF Settled
  <2>3. {q \in Reporter : Settled(q)'} = {q \in Reporter : Settled(q)}
    BY <2>2
  <2>4. Accepted' = Accepted
    BY <1>1, <1>8, <2>2 DEF Accepted
  <2>5. Places'
    BY <2>1, <2>4 DEF Places
  <2>6. Counted'
    BY <1>1, <1>2, <1>8, <2>1, <2>3 DEF Counted, Counts
  <2>7. Holding'
    BY <1>1, <1>3, <1>8, <2>1 DEF Holding
  <2> QED
    BY <2>5, <2>6, <2>7
<1> QED
  BY <1>5, <1>6, <1>7, <1>8

LEMMA WorkersKeepPlaces ==
  ASSUME ShutdownTypeOK, Holding, Places, Counted, WorkerTakes \/ WorkerRecords \/ WorkerQuits
  PROVE  Holding' /\ Places' /\ Counted'
<1>1. /\ queued \in Seq(Reporter) /\ counted.recorded \in SUBSET Reporter
      /\ carried \in [Taker -> Event] /\ counted \in Counts /\ worker \in WorkerAt
      /\ NoOne \in Taker /\ Reporter \subseteq Taker /\ NoOne \notin Reporter
  BY ShutdownTypeFacts, ShutdownConstants DEF Counts
<1>2. /\ sender' = sender /\ counted'.dropped = counted.dropped
      /\ counted'.enqueued = counted.enqueued
  BY <1>1 DEF WorkerTakes, WorkerRecords, WorkerQuits, RecordHeld, Counts
<1>3. \A q \in Reporter : Settled(q)' <=> Settled(q)
  BY <1>2 DEF Settled
<1>4. {q \in Reporter : Settled(q)'} = {q \in Reporter : Settled(q)}
  BY <1>3
<1>5. Counted' /\ Accepted' = Accepted
  BY <1>2, <1>3, <1>4 DEF Counted, Accepted
<1>6. CASE WorkerTakes
  <2>1. /\ queued' = Tail(queued) /\ carried' = [carried EXCEPT ![NoOne] = Head(queued)]
        /\ counted' = counted /\ queued # << >> /\ worker \in {"loop", "drain"}
        /\ worker' \in {"record", "drainRecord"}
    BY <1>6 DEF WorkerTakes
  <2>2. carried[NoOne] = NoOne
    BY <2>1 DEF Holding
  <2>3. Placed(Tail(queued), counted.recorded, [carried EXCEPT ![NoOne] = Head(queued)], Accepted)
    BY <1>1, <2>1, <2>2, PlacedInHands DEF Places
  <2>4. Places'
    BY <1>5, <2>1, <2>3 DEF Places
  <2>5. Head(queued) \in Reporter
    BY <1>1, <2>1, HeadTailProperties
  <2>6. carried'[NoOne] # NoOne /\ \A t \in Taker : t # NoOne => carried'[t] = carried[t]
    BY <1>1, <2>1, <2>5
  <2>7. Holding'
    BY <1>1, <1>2, <2>1, <2>6 DEF Holding
  <2> QED
    BY <1>5, <2>4, <2>7
<1>7. CASE WorkerRecords
  <2>1. /\ carried' = [carried EXCEPT ![NoOne] = NoOne] /\ queued' = queued
        /\ counted'.recorded = counted.recorded \cup {carried[NoOne]}
        /\ worker \in {"record", "drainRecord"} /\ worker' \in {"loop", "drain"}
    BY <1>1, <1>7 DEF WorkerRecords, RecordHeld, Counts
  <2>2. NoOne \in Hands(carried)
    BY <1>1, <2>1 DEF Holding, Hands
  <2>3. Placed(queued, counted.recorded \cup {carried[NoOne]},
               [carried EXCEPT ![NoOne] = NoOne], Accepted)
    BY <1>1, <2>2, PlacedInRecord DEF Places
  <2>4. Places'
    BY <1>5, <2>1, <2>3 DEF Places
  <2>5. carried'[NoOne] = NoOne /\ \A t \in Taker : t # NoOne => carried'[t] = carried[t]
    BY <1>1, <2>1
  <2>6. Holding'
    BY <1>1, <1>2, <2>1, <2>5 DEF Holding
  <2> QED
    BY <1>5, <2>4, <2>6
<1>8. CASE WorkerQuits
  <2>1. UNCHANGED <<queued, carried, counted>>
        /\ worker \in {"loop", "drain"} /\ worker' \in {"drain", "done"}
    BY <1>8 DEF WorkerQuits
  <2>2. Holding'
    BY <1>2, <2>1 DEF Holding
  <2>3. Places'
    BY <1>5, <2>1 DEF Places
  <2> QED
    BY <1>5, <2>2, <2>3
<1> QED
  BY <1>6, <1>7, <1>8

-----------------------------------------------------------------------------
(* Who has made room and met no rival still has it.                        *)
Room ==
  \A r \in Reporter : r \notin gossip.contended =>
    /\ sender[r] \in {"record", "retry"} => Len(queued) < QueueCap
    /\ r \in Proof => r \notin counted.dropped

LEMMA SendersKeepRoom ==
  ASSUME ShutdownTypeOK, Room, NEW r \in Reporter,
         \/ BeginRequest(r) \/ Enqueue(r) \/ CountEnqueued(r) \/ FindFull(r)
         \/ DrainOne(r) \/ RecordDrained(r) \/ Drop(r)
  PROVE  Room'
<1> DEFINE own == sender[r]
           next == sender'[r]
<1>1. /\ \A q \in Reporter : q # r => sender'[q] = sender[q]
      /\ BeginRequest(r) => own = "idle" /\ next = "try"
      /\ Enqueue(r) => own \in {"try", "retry"} /\ next = "count"
      /\ CountEnqueued(r) => own = "count" /\ next = "done"
      /\ FindFull(r) => own = "try" /\ next = "drain"
      /\ DrainOne(r) => own = "drain" /\ next = IF queued = << >> THEN "retry" ELSE "record"
      /\ RecordDrained(r) => own = "record" /\ next = "retry"
      /\ Drop(r) => own \in {"try", "retry"} /\ next = "done"
  BY SenderMoves
<1>2. /\ queued \in Seq(Reporter) /\ Len(queued) \in Nat /\ Len(queued) <= QueueCap
      /\ QueueCap \in Nat \ {0} /\ counted \in Counts /\ gossip \in Tales
      /\ counted.dropped \in SUBSET Reporter /\ gossip.contended \in SUBSET Reporter
  BY ShutdownTypeFacts, ShutdownConstants DEF Counts, Tales
<1> HIDE DEF own, next
<1>3. CASE Enqueue(r)
  <2>1. /\ counted' = counted
        /\ gossip'.contended = gossip.contended
             \cup {q \in Reporter \ {r} : sender[q] \in {"record", "retry"}}
    BY <1>2, <1>3 DEF Enqueue, others, Tales
  <2>2. sender'[r] = "count"
    BY <1>1, <1>3 DEF next
  <2>3. ASSUME NEW q \in Reporter, q \notin gossip'.contended
        PROVE  sender'[q] \notin {"record", "retry"} /\ (q \in Proof => q \notin counted'.dropped)
    BY <1>1, <2>1, <2>2, <2>3 DEF Room
  <2> QED
    BY <2>3 DEF Room
<1>4. CASE BeginRequest(r) \/ FindFull(r) \/ CountEnqueued(r)
  <2>1. UNCHANGED <<queued, gossip>> /\ counted'.dropped = counted.dropped
    BY <1>2, <1>4 DEF BeginRequest, FindFull, CountEnqueued, Counts
  <2>2. sender'[r] \in {"try", "drain", "done"}
    BY <1>1, <1>4 DEF next
  <2> QED
    BY <1>1, <2>1, <2>2 DEF Room
<1>5. CASE DrainOne(r)
  <2>1. counted' = counted /\ gossip'.contended = gossip.contended
    BY <1>2, <1>5 DEF DrainOne, Tales
  <2>2. Len(queued') \in Nat /\ Len(queued') < QueueCap
    <3>1. CASE queued = << >>
      BY <1>2, <1>5, <3>1, EmptySeq DEF DrainOne
    <3>2. CASE queued # << >>
      <4>1. queued' = Tail(queued)
        BY <1>5, <3>2 DEF DrainOne
      <4>2. Len(Tail(queued)) = Len(queued) - 1 /\ Len(queued) # 0
        BY <1>2, <3>2, HeadTailProperties, EmptySeq
      <4> QED
        BY <1>2, <4>1, <4>2
    <3> QED
      BY <3>1, <3>2
  <2> QED
    BY <2>1, <2>2 DEF Room
<1>6. CASE RecordDrained(r)
  <2>1. UNCHANGED <<queued, gossip>> /\ counted'.dropped = counted.dropped
        /\ sender[r] = "record"
    BY <1>1, <1>2, <1>6 DEF RecordDrained, RecordHeld, Counts, own
  <2> QED
    BY <1>1, <2>1 DEF Room
<1>7. CASE Drop(r)
  <2>1. /\ UNCHANGED <<queued, gossip>> /\ counted'.dropped = counted.dropped \cup {r}
        /\ ~(Len(queued) < QueueCap)
        /\ sender[r] = "retry" \/ r \notin Proof
    BY <1>2, <1>7 DEF Drop, Full, Advances, Counts
  <2>2. sender'[r] = "done"
    BY <1>1, <1>7 DEF next
  <2>3. r \notin gossip.contended => r \notin Proof
    BY <2>1 DEF Room
  <2> QED
    BY <1>1, <2>1, <2>2, <2>3 DEF Room
<1> QED
  BY <1>3, <1>4, <1>5, <1>6, <1>7

LEMMA WorkersKeepRoom ==
  ASSUME ShutdownTypeOK, Room, WorkerTakes \/ WorkerRecords \/ WorkerQuits
  PROVE  Room'
<1>1. /\ queued \in Seq(Reporter) /\ Len(queued) \in Nat /\ QueueCap \in Nat
      /\ counted \in Counts
  BY ShutdownTypeFacts, ShutdownConstants
<1>2. UNCHANGED <<sender, gossip>> /\ counted'.dropped = counted.dropped
  BY <1>1 DEF WorkerTakes, WorkerRecords, WorkerQuits, RecordHeld, Counts
<1>3. Len(queued') <= Len(queued) /\ Len(queued') \in Nat
  <2>1. CASE queued' = queued
    BY <1>1, <2>1
  <2>2. CASE WorkerTakes
    <3>1. queued' = Tail(queued) /\ queued # << >>
      BY <2>2 DEF WorkerTakes
    <3>2. Len(Tail(queued)) = Len(queued) - 1 /\ Len(queued) # 0
      BY <1>1, <3>1, HeadTailProperties, EmptySeq
    <3> QED
      BY <1>1, <3>1, <3>2
  <2> QED
    BY <2>1, <2>2 DEF WorkerRecords, WorkerQuits
<1>4. Len(queued) < QueueCap => Len(queued') < QueueCap
  BY <1>1, <1>3
<1> QED
  BY <1>2, <1>4 DEF Room

-----------------------------------------------------------------------------
(* How far the call that does the work has come.                           *)
Doing(places) == stop.by # NoOne /\ caller[stop.by].at \in places
InTime == /\ Doing({"snapshot", "write", "returned"})
          /\ caller[stop.by].result = "nil"
Stages ==
  /\ stop.by = NoOne => ~stop.drained /\ ~stop.saved /\ ~quit
  /\ stop.by # NoOne =>
       Doing({"server", "close", "workers", "snapshot", "write", "returned"})
  /\ \A c \in Caller : c # stop.by => caller[c].at \in {"idle", "waits", "returned"}
  /\ stop.drained => ~Doing({"server"})
  /\ quit => Doing({"workers", "snapshot", "write", "returned"})
  /\ worker \in {"drain", "drainRecord", "done"} => quit
  /\ InTime => worker = "done" /\ flusher.at = "done"
  /\ stop.saved => Doing({"returned"})
  /\ stop.saved /\ InTime => Last(log) = stop.final

(* What is left for the others once the server has been drained.           *)
Kept ==
  /\ stop.drained => \A r \in Http : sender[r] \in {"idle", "done"}
  /\ stop.drained /\ worker = "done" => \A r \in Http : r \notin Range(queued)
  /\ \A r \in Session : carried[r] # NoOne => carried[r] \in gossip.strayed
  /\ InTime /\ Doing({"write", "returned"}) /\ stop.drained =>
       \A r \in Http : Settled(r) /\ r \notin gossip.strayed => r \in stop.final

LEMMA WorkersKeepStages ==
  ASSUME ShutdownTypeOK, Stages, WorkerTakes \/ WorkerRecords \/ WorkerQuits
  PROVE  Stages'
<1>1. UNCHANGED <<quit, flusher, log, caller, stop>>
  BY DEF WorkerTakes, WorkerRecords, WorkerQuits
<1>2. worker # "done" /\ (worker' \in {"drain", "drainRecord", "done"} => quit)
  BY DEF WorkerTakes, WorkerRecords, WorkerQuits, Stages
<1>3. (InTime' <=> InTime) /\ \A p : Doing(p)' <=> Doing(p)
  BY <1>1 DEF InTime, Doing
<1>4. ~InTime
  BY <1>2 DEF Stages
<1> QED
  BY <1>1, <1>2, <1>3, <1>4 DEF Stages

LEMMA FlushKeepsStages ==
  ASSUME ShutdownTypeOK, Stages, FlushBegins \/ FlushWrites \/ FlusherQuits
  PROVE  Stages'
<1>1. UNCHANGED <<quit, worker, caller, stop>>
  BY DEF FlushBegins, FlushWrites, FlusherQuits
<1>2. flusher.at # "done"
  BY DEF FlushBegins, FlushWrites, FlusherQuits
<1>3. (InTime' <=> InTime) /\ \A p : Doing(p)' <=> Doing(p)
  BY <1>1 DEF InTime, Doing
<1>4. ~InTime
  BY <1>2 DEF Stages
<1> QED
  BY <1>1, <1>2, <1>3, <1>4 DEF Stages

LEMMA LastAppended ==
  ASSUME NEW S, NEW s \in Seq(S), NEW x \in S
  PROVE  Last(Append(s, x)) = x
<1>1. Len(Append(s, x)) = Len(s) + 1 /\ Append(s, x)[Len(s) + 1] = x
  BY AppendProperties
<1> QED
  BY <1>1 DEF Last

(* A second caller only waits; the first goes through its stages.          *)
LEMMA CallersKeepStages ==
  ASSUME ShutdownTypeOK, Stages,
         (\E c \in Caller : CallShutdown(c) \/ Proceed(c)) \/ DeadlinePasses
  PROVE  Stages'
<1>1. /\ caller \in [Caller -> Calls] /\ stop \in Stops /\ stop.by \in Caller \cup {NoOne}
      /\ stop.final \in Snapshot /\ log \in Seq(Snapshot) /\ NoOne \notin Caller
  BY ShutdownTypeFacts, ShutdownConstants DEF Stops
<1>2. UNCHANGED <<worker, flusher>>
  BY DEF CallShutdown, Proceed, ServerStops, CloseQuit, WaitForWorkers, TakeFinal, WriteFinal,
         WaiterReturns, DeadlinePasses, rest
<1>3. CASE DeadlinePasses
  <2>1. /\ UNCHANGED <<quit, log, caller>> /\ stop'.by = stop.by /\ stop'.saved = stop.saved
        /\ stop'.drained = stop.drained /\ stop'.final = stop.final
    BY <1>1, <1>3 DEF DeadlinePasses, rest, Stops
  <2> QED
    BY <1>2, <2>1 DEF Stages, InTime, Doing
<1>4. ASSUME NEW c \in Caller, CallShutdown(c), stop.by = NoOne
      PROVE  Stages'
  <2>1. /\ UNCHANGED <<quit, log>> /\ stop'.by = c /\ stop'.saved = stop.saved
        /\ stop'.drained = stop.drained /\ stop'.final = stop.final
        /\ caller'[c].at = "server" /\ \A d \in Caller : d # c => caller'[d] = caller[d]
    BY <1>1, <1>4 DEF CallShutdown, CallerGoes, Stops, Calls
  <2>2. /\ Doing({"server", "close", "workers", "snapshot", "write", "returned"})' /\ ~InTime'
        /\ ~quit /\ ~stop.saved /\ ~stop.drained
    BY <1>1, <1>4, <2>1 DEF Stages, Doing, InTime
  <2>3. \A d \in Caller : d # stop'.by => caller'[d].at \in {"idle", "waits", "returned"}
    BY <1>1, <1>4, <2>1 DEF Stages
  <2> QED
    BY <1>1, <1>2, <2>1, <2>2, <2>3 DEF Stages
<1>5. ASSUME NEW c \in Caller, (CallShutdown(c) /\ stop.by # NoOne) \/ WaiterReturns(c)
      PROVE  Stages'
  <2>1. /\ UNCHANGED <<quit, log, stop>> /\ stop.by # NoOne
        /\ caller[c].at \in {"idle", "waits"} /\ caller'[c].at \in {"waits", "returned"}
        /\ \A d \in Caller : d # c => caller'[d] = caller[d]
    BY <1>1, <1>5 DEF CallShutdown, WaiterReturns, CallerGoes, Calls
  <2>2. c # stop.by
    BY <2>1 DEF Stages, Doing
  <2>3. (InTime' <=> InTime) /\ \A p : Doing(p)' <=> Doing(p)
    BY <1>1, <2>1, <2>2 DEF InTime, Doing
  <2>4. \A d \in Caller : d # stop.by => caller'[d].at \in {"idle", "waits", "returned"}
    BY <2>1 DEF Stages
  <2> QED
    BY <1>2, <2>1, <2>3, <2>4 DEF Stages
<1>6. ASSUME NEW c \in Caller, ServerStops(c) \/ CloseQuit(c)
      PROVE  Stages'
  <2>1. /\ caller[c].at \in {"server", "close"} /\ caller'[c].at \in {"close", "workers"}
        /\ ServerStops(c) => caller[c].at = "server" /\ quit' = quit
        /\ CloseQuit(c) => caller'[c].at = "workers" /\ stop' = stop
        /\ \A d \in Caller : d # c => caller'[d] = caller[d]
        /\ log' = log /\ stop'.by = stop.by /\ stop'.saved = stop.saved
    BY <1>1, <1>6 DEF ServerStops, CloseQuit, CallerGoes, Calls, Stops
  <2>2. c = stop.by
    BY <2>1 DEF Stages
  <2>3. ~stop.saved /\ (worker \in {"drain", "drainRecord", "done"} => quit)
    BY <2>1, <2>2 DEF Stages, Doing
  <2>4. ServerStops(c) => ~quit
    BY <2>1, <2>2 DEF Stages, Doing
  <2>5. stop'.by = c /\ c # NoOne /\ caller'[c].at \in {"close", "workers"}
        /\ (quit' => caller'[c].at = "workers")
    <3>1. CASE ServerStops(c)
      BY <1>1, <2>1, <2>2, <2>4, <3>1
    <3>2. CASE CloseQuit(c)
      BY <1>1, <2>1, <2>2, <3>2
    <3> QED
      BY <1>6, <3>1, <3>2
  <2>6. ~InTime' /\ stop'.by # NoOne /\ ~Doing({"server"})'
        /\ Doing({"server", "close", "workers", "snapshot", "write", "returned"})'
        /\ (quit' => Doing({"workers", "snapshot", "write", "returned"})')
    BY <2>5 DEF InTime, Doing
  <2>7. quit => quit'
    BY <1>6 DEF ServerStops, CloseQuit
  <2>8. \A d \in Caller : d # stop'.by => caller'[d].at \in {"idle", "waits", "returned"}
    BY <2>1, <2>2 DEF Stages
  <2> QED
    BY <1>2, <2>1, <2>3, <2>6, <2>7, <2>8 DEF Stages
<1>7. ASSUME NEW c \in Caller, WaitForWorkers(c)
      PROVE  Stages'
  <2>1. /\ caller[c].at = "workers" /\ caller'[c].at = "snapshot"
        /\ caller'[c].result = "nil" => worker = "done" /\ flusher.at = "done"
        /\ \A d \in Caller : d # c => caller'[d] = caller[d]
        /\ UNCHANGED <<quit, log, stop>>
    BY <1>1, <1>7 DEF WaitForWorkers, Calls
  <2>2. c = stop.by /\ stop.by # NoOne
    BY <1>1, <2>1 DEF Stages
  <2>3. ~stop.saved
    BY <2>1, <2>2 DEF Stages, Doing
  <2>4. ~Doing({"server"})' /\ Doing({"workers", "snapshot", "write", "returned"})'
        /\ Doing({"server", "close", "workers", "snapshot", "write", "returned"})'
        /\ (InTime' => worker = "done" /\ flusher.at = "done")
    BY <2>1, <2>2 DEF Doing, InTime
  <2>5. \A d \in Caller : d # stop'.by => caller'[d].at \in {"idle", "waits", "returned"}
    BY <2>1, <2>2 DEF Stages
  <2> QED
    BY <1>2, <2>1, <2>2, <2>3, <2>4, <2>5 DEF Stages
<1>8. ASSUME NEW c \in Caller, TakeFinal(c)
      PROVE  Stages'
  <2>1. /\ caller[c].at = "snapshot" /\ caller'[c].at = "write"
        /\ caller'[c].result = caller[c].result
        /\ \A d \in Caller : d # c => caller'[d] = caller[d]
        /\ UNCHANGED <<quit, log>> /\ stop'.by = stop.by /\ stop'.saved = stop.saved
        /\ stop'.drained = stop.drained
    BY <1>1, <1>8 DEF TakeFinal, CallerGoes, Calls, Stops
  <2>2. c = stop.by /\ stop.by # NoOne
    BY <1>1, <2>1 DEF Stages
  <2>3. ~stop.saved
    BY <2>1, <2>2 DEF Stages, Doing
  <2>4. ~Doing({"server"})' /\ Doing({"workers", "snapshot", "write", "returned"})'
        /\ Doing({"server", "close", "workers", "snapshot", "write", "returned"})'
        /\ (InTime' <=> InTime)
    BY <2>1, <2>2 DEF Doing, InTime
  <2>5. \A d \in Caller : d # stop'.by => caller'[d].at \in {"idle", "waits", "returned"}
    BY <2>1, <2>2 DEF Stages
  <2> QED
    BY <1>2, <2>1, <2>2, <2>3, <2>4, <2>5 DEF Stages
<1>9. ASSUME NEW c \in Caller, WriteFinal(c)
      PROVE  Stages'
  <2>1. /\ caller[c].at = "write" /\ caller'[c].at = "returned"
        /\ caller'[c].result = caller[c].result
        /\ \A d \in Caller : d # c => caller'[d] = caller[d]
        /\ quit' = quit /\ stop'.by = stop.by /\ stop'.drained = stop.drained
        /\ stop'.final = stop.final
        /\ stop'.saved => stop.saved \/ log' = Append(log, stop.final)
    BY <1>1, <1>9 DEF WriteFinal, CallerGoes, Calls, Stops
  <2>2. c = stop.by /\ stop.by # NoOne
    BY <1>1, <2>1 DEF Stages
  <2>3. ~stop.saved
    BY <2>1, <2>2 DEF Stages, Doing
  <2>4. ~Doing({"server"})' /\ Doing({"workers", "snapshot", "write", "returned"})'
        /\ Doing({"server", "close", "workers", "snapshot", "write", "returned"})'
        /\ Doing({"returned"})' /\ (InTime' <=> InTime)
    BY <2>1, <2>2 DEF Doing, InTime
  <2>5. \A d \in Caller : d # stop'.by => caller'[d].at \in {"idle", "waits", "returned"}
    BY <2>1, <2>2 DEF Stages
  <2>6. Last(Append(log, stop.final)) = stop.final
    BY <1>1, LastAppended
  <2>7. stop'.saved => Last(log') = stop'.final
    BY <2>1, <2>3, <2>6
  <2> QED
    BY <1>2, <2>1, <2>2, <2>4, <2>5, <2>7 DEF Stages
<1> QED
  BY <1>3, <1>4, <1>5, <1>6, <1>7, <1>8, <1>9 DEF Proceed

(* A drained server leaves the queue to the sessions.                      *)
LEMMA SendersKeepKept ==
  ASSUME ShutdownTypeOK, Places, Stages, Kept, NEW r \in Reporter,
         \/ BeginRequest(r) \/ Enqueue(r) \/ CountEnqueued(r) \/ FindFull(r)
         \/ DrainOne(r) \/ RecordDrained(r) \/ Drop(r)
  PROVE  Kept'
<1>1. /\ queued \in Seq(Reporter) /\ carried \in [Taker -> Event] /\ counted \in Counts
      /\ gossip \in Tales /\ Http \subseteq Reporter /\ Session \subseteq Taker
      /\ r \in Taker /\ Http \cap Session = {} /\ Reporter = Http \cup Session
      /\ NoRepeats(queued)
  BY ShutdownTypeFacts, ShutdownConstants DEF Places, Placed
<1>2. UNCHANGED <<worker, caller, stop>>
  BY DEF BeginRequest, Enqueue, CountEnqueued, FindFull, DrainOne, RecordDrained, Drop, others
<1>3. \A q \in Reporter : q # r => sender'[q] = sender[q]
  BY SenderMoves
<1>4. stop.drained => r \notin Http
  <2>1. BeginRequest(r) /\ r \in Http => ~stop.drained
    BY DEF BeginRequest, Stages
  <2>2. ~BeginRequest(r) => sender[r] \notin {"idle", "done"}
    BY SenderMoves
  <2> QED
    BY <2>1, <2>2 DEF Kept
<1>5. /\ \A q \in counted.dropped : q \in counted'.dropped
      /\ \A q \in gossip.strayed : q \in gossip'.strayed
  <2>1. CASE DrainOne(r)
    BY <1>1, <2>1 DEF DrainOne, Tales
  <2>2. CASE Enqueue(r)
    BY <1>1, <2>2 DEF Enqueue, others, Tales
  <2>3. CASE RecordDrained(r) \/ CountEnqueued(r) \/ Drop(r)
    BY <1>1, <2>3 DEF RecordDrained, RecordHeld, CountEnqueued, Drop, Counts
  <2> QED
    BY <2>1, <2>2, <2>3 DEF BeginRequest, FindFull
<1>6. stop.drained =>
        \A q \in Http : sender'[q] = sender[q] /\ (Settled(q)' => Settled(q))
  BY <1>1, <1>3, <1>4, <1>5 DEF Settled
<1>7. stop.drained => \A q \in Http : q \in Range(queued') => q \in Range(queued)
  <2>1. CASE queued' = queued
    BY <2>1
  <2>2. CASE Enqueue(r)
    <3>1. queued' = Append(queued, r)
      BY <2>2 DEF Enqueue
    <3>2. sender[r] \in {"try", "retry"}
      BY <2>2, SenderMoves
    <3>3. r \notin Range(queued)
      BY <3>2 DEF Places, Placed, Accepted, Settled
    <3>4. Range(Append(queued, r)) = Range(queued) \cup {r}
      BY <1>1, <3>3, KeysAppended
    <3> QED
      BY <1>4, <3>1, <3>4
  <2>3. CASE DrainOne(r) /\ queued # << >>
    <3>1. queued' = Tail(queued)
      BY <2>3 DEF DrainOne
    <3>2. Range(Tail(queued)) = Range(queued) \ {Head(queued)}
      BY <1>1, <2>3, QueueHead
    <3> QED
      BY <3>1, <3>2
  <2> QED
    BY <2>1, <2>2, <2>3
    DEF BeginRequest, CountEnqueued, FindFull, DrainOne, RecordDrained, Drop
<1>8. \A s \in Session : carried'[s] # NoOne => carried'[s] \in gossip'.strayed
  <2>1. CASE DrainOne(r) /\ queued # << >>
    <3>1. /\ carried' = [carried EXCEPT ![r] = Head(queued)]
          /\ r \in Session => gossip'.strayed = gossip.strayed \cup {Head(queued)}
      BY <1>1, <2>1 DEF DrainOne, Tales
    <3> QED
      BY <1>1, <1>5, <3>1 DEF Kept
  <2>2. CASE RecordDrained(r)
    <3>1. carried' = [carried EXCEPT ![r] = NoOne]
      BY <2>2 DEF RecordDrained, RecordHeld
    <3> QED
      BY <1>1, <1>5, <3>1 DEF Kept
  <2>3. CASE carried' = carried
    BY <1>5, <2>3 DEF Kept
  <2> QED
    BY <2>1, <2>2, <2>3 DEF BeginRequest, Enqueue, CountEnqueued, FindFull, DrainOne, Drop
<1>9. /\ InTime' <=> InTime
      /\ Doing({"write", "returned"})' <=> Doing({"write", "returned"})
  BY <1>2 DEF InTime, Doing
<1>10. (stop.drained => \A q \in Http : sender[q] \in {"idle", "done"})'
  BY <1>2, <1>6 DEF Kept
<1>11. (stop.drained /\ worker = "done" => \A q \in Http : q \notin Range(queued))'
  BY <1>2, <1>7 DEF Kept
<1>12. (InTime /\ Doing({"write", "returned"}) /\ stop.drained =>
          \A q \in Http : Settled(q) /\ q \notin gossip.strayed => q \in stop.final)'
  BY <1>2, <1>5, <1>6, <1>9 DEF Kept
<1> QED
  BY <1>8, <1>10, <1>11, <1>12 DEF Kept

LEMMA WorkersKeepKept ==
  ASSUME ShutdownTypeOK, Places, Kept, WorkerTakes \/ WorkerRecords \/ WorkerQuits
  PROVE  Kept'
<1>1. /\ queued \in Seq(Reporter) /\ carried \in [Taker -> Event] /\ counted \in Counts
      /\ Http \subseteq Reporter /\ Session \subseteq Taker /\ NoOne \notin Session
      /\ NoRepeats(queued)
  BY ShutdownTypeFacts, ShutdownConstants DEF Places, Placed
<1>2. UNCHANGED <<sender, caller, stop, gossip>> /\ counted'.dropped = counted.dropped
  BY <1>1 DEF WorkerTakes, WorkerRecords, WorkerQuits, RecordHeld, Counts
<1>3. \A s \in Session : carried'[s] = carried[s]
  BY <1>1 DEF WorkerTakes, WorkerRecords, WorkerQuits, RecordHeld
<1>4. worker' = "done" => \A q \in Http : q \notin Range(queued')
  <2>1. worker' = "done" => queued' = << >>
    BY DEF WorkerTakes, WorkerRecords, WorkerQuits
  <2>2. \A q : q \notin Range(<< >>)
    BY DEF Range
  <2> QED
    BY <2>1, <2>2
<1>5. (InTime' <=> InTime) /\ \A p : Doing(p)' <=> Doing(p)
  BY <1>2 DEF InTime, Doing
<1>6. \A q \in Http : Settled(q)' <=> Settled(q)
  BY <1>2 DEF Settled
<1> QED
  BY <1>2, <1>3, <1>4, <1>5, <1>6 DEF Kept

LEMMA FlushKeepsKept ==
  ASSUME Kept, FlushBegins \/ FlushWrites \/ FlusherQuits
  PROVE  Kept'
<1>1. UNCHANGED <<sender, queued, carried, counted, worker, caller, stop, gossip>>
  BY DEF FlushBegins, FlushWrites, FlusherQuits
<1> QED
  BY <1>1 DEF Kept, InTime, Doing, Settled

(* The snapshot of a stop in time holds what the requests left behind.     *)
LEMMA FinalIsComplete ==
  ASSUME ShutdownTypeOK, Holding, Places, Kept, worker = "done", stop.drained,
         NEW r \in Http, Settled(r), r \notin gossip.strayed
  PROVE  r \in counted.recorded
<1>1. r \in Accepted
  BY ShutdownConstants DEF Accepted
<1>2. r \notin Range(queued)
  BY DEF Kept
<1>3. ASSUME NEW t \in Hands(carried), r = carried[t]
      PROVE  FALSE
  <2>1. t \in Taker /\ carried[t] # NoOne
    BY DEF Hands
  <2>2. t # NoOne
    BY <2>1 DEF Holding
  <2>3. t \in Reporter /\ sender[t] = "record"
    BY <2>1, <2>2 DEF Taker, Holding
  <2>4. t \in Session
    BY <2>3 DEF Kept, Reporter
  <2> QED
    BY <1>3, <2>1, <2>4 DEF Kept
<1> QED
  BY <1>1, <1>2, <1>3 DEF Places, Placed

LEMMA CallersKeepKept ==
  ASSUME ShutdownTypeOK, Holding, Places, Stages, Kept,
         (\E c \in Caller : CallShutdown(c) \/ Proceed(c)) \/ DeadlinePasses
  PROVE  Kept'
<1>1. /\ caller \in [Caller -> Calls] /\ stop \in Stops /\ stop.by \in Caller \cup {NoOne}
      /\ NoOne \notin Caller
  BY ShutdownTypeFacts, ShutdownConstants DEF Stops
<1>2. UNCHANGED <<sender, queued, carried, counted, worker, gossip>>
  BY DEF CallShutdown, Proceed, ServerStops, CloseQuit, WaitForWorkers, TakeFinal, WriteFinal,
         WaiterReturns, DeadlinePasses, rest
<1>3. \A q \in Http : Settled(q)' <=> Settled(q)
  BY <1>2 DEF Settled
<1>4. ASSUME NEW c \in Caller, CallShutdown(c), stop.by = NoOne
      PROVE  Kept'
  <2>1. /\ stop'.by = c /\ stop'.drained = stop.drained /\ caller'[c].at = "server"
    BY <1>1, <1>4 DEF CallShutdown, CallerGoes, Stops, Calls
  <2>2. ~InTime' /\ ~stop.drained
    BY <1>4, <2>1 DEF Stages, Doing, InTime
  <2> QED
    BY <1>2, <2>1, <2>2 DEF Kept
<1>5. ASSUME NEW c \in Caller, (CallShutdown(c) /\ stop.by # NoOne) \/ WaiterReturns(c)
      PROVE  Kept'
  <2>1. /\ stop' = stop /\ stop.by # NoOne /\ caller[c].at \in {"idle", "waits"}
        /\ \A d \in Caller : d # c => caller'[d] = caller[d]
    BY <1>1, <1>5 DEF CallShutdown, WaiterReturns, CallerGoes, Calls
  <2>2. c # stop.by
    BY <2>1 DEF Stages, Doing
  <2>3. (InTime' <=> InTime) /\ \A p : Doing(p)' <=> Doing(p)
    BY <1>1, <2>1, <2>2 DEF InTime, Doing
  <2> QED
    BY <1>2, <1>3, <2>1, <2>3 DEF Kept
<1>6. ASSUME NEW c \in Caller, ServerStops(c)
      PROVE  Kept'
  <2>1. /\ caller[c].at = "server" /\ caller'[c].at = "close" /\ stop'.by = stop.by
        /\ stop'.drained => stop.drained \/ \A q \in Http : sender[q] \in {"idle", "done"}
    BY <1>1, <1>6 DEF ServerStops, CallerGoes, Calls, Stops
  <2>2. c = stop.by
    BY <2>1 DEF Stages
  <2>3. worker # "done"
    BY <2>1, <2>2 DEF Stages, Doing
  <2>4. ~InTime'
    BY <2>1, <2>2 DEF InTime, Doing
  <2> QED
    BY <1>2, <2>1, <2>3, <2>4 DEF Kept
<1>7. ASSUME NEW c \in Caller, CloseQuit(c) \/ WaitForWorkers(c)
      PROVE  Kept'
  <2>1. /\ stop' = stop /\ caller[c].at \in {"close", "workers"}
        /\ caller'[c].at \in {"workers", "snapshot"}
    BY <1>1, <1>7 DEF CloseQuit, WaitForWorkers, CallerGoes, Calls
  <2>2. c = stop.by
    BY <2>1 DEF Stages
  <2>3. ~Doing({"write", "returned"})'
    BY <2>1, <2>2 DEF Doing
  <2> QED
    BY <1>2, <2>1, <2>3 DEF Kept
<1>8. ASSUME NEW c \in Caller, TakeFinal(c)
      PROVE  Kept'
  <2>1. /\ caller[c].at = "snapshot" /\ caller'[c].at = "write"
        /\ caller'[c].result = caller[c].result
        /\ stop'.by = stop.by /\ stop'.drained = stop.drained
        /\ stop'.final = counted.recorded
    BY <1>1, <1>8 DEF TakeFinal, CallerGoes, Calls, Stops
  <2>2. c = stop.by /\ stop.by # NoOne
    BY <1>1, <2>1 DEF Stages
  <2>3. InTime' => InTime
    BY <2>1, <2>2 DEF InTime, Doing
  <2>4. InTime => worker = "done"
    BY DEF Stages
  <2>5. InTime' /\ stop'.drained =>
          \A q \in Http : Settled(q) /\ q \notin gossip.strayed => q \in stop'.final
    BY <2>1, <2>3, <2>4, FinalIsComplete
  <2> QED
    BY <1>2, <1>3, <2>1, <2>5 DEF Kept
<1>9. ASSUME NEW c \in Caller, WriteFinal(c)
      PROVE  Kept'
  <2>1. /\ caller[c].at = "write" /\ caller'[c].result = caller[c].result
        /\ stop'.by = stop.by /\ stop'.drained = stop.drained /\ stop'.final = stop.final
    BY <1>1, <1>9 DEF WriteFinal, CallerGoes, Calls, Stops
  <2>2. c = stop.by /\ stop.by # NoOne
    BY <1>1, <2>1 DEF Stages
  <2>3. (InTime' => InTime) /\ Doing({"write", "returned"})
    BY <2>1, <2>2 DEF InTime, Doing
  <2> QED
    BY <1>2, <1>3, <2>1, <2>3 DEF Kept
<1>10. CASE DeadlinePasses
  <2>1. /\ caller' = caller /\ stop'.by = stop.by /\ stop'.drained = stop.drained
        /\ stop'.final = stop.final
    BY <1>1, <1>10 DEF DeadlinePasses, Stops
  <2>2. (InTime' <=> InTime) /\ \A p : Doing(p)' <=> Doing(p)
    BY <2>1 DEF InTime, Doing
  <2> QED
    BY <1>2, <1>3, <2>1, <2>2 DEF Kept
<1> QED
  BY <1>4, <1>5, <1>6, <1>7, <1>8, <1>9, <1>10 DEF Proceed

-----------------------------------------------------------------------------
(* Together, and from the first state on.                                  *)
ShutdownInv ==
  /\ ShutdownTypeOK /\ Holding /\ Places /\ Counted
  /\ Room /\ Stages /\ Kept

LEMMA NothingQueued == NoRepeats(<< >>) /\ \A x : x \notin Range(<< >>)
BY DEF NoRepeats, Range

LEMMA ShutdownInitial == ShutdownInit => ShutdownInv
<1> SUFFICES ASSUME ShutdownInit PROVE ShutdownInv
  OBVIOUS
<1> USE DEF ShutdownInit
<1>1. << >> \in Seq(Reporter) /\ Len(<< >>) = 0 /\ << >> \in Seq(Snapshot)
  BY EmptySeq
<1>2. ShutdownTypeOK
  <2>1. QueueCap \in Nat /\ NoOne \in Event
    BY ShutdownConstants
  <2>2. queued \in Seq(Reporter) /\ Len(queued) <= QueueCap /\ log \in Seq(Snapshot)
    BY <1>1, <2>1
  <2>3. sender \in [Reporter -> SenderAt] /\ carried \in [Taker -> Event]
    BY <2>1 DEF SenderAt
  <2>4. caller \in [Caller -> [at : CallerAt, result : {"none", "nil", "timeout"}]]
    BY DEF CallerAt
  <2>5. /\ counted \in [enqueued : Nat, recorded : SUBSET Reporter, dropped : SUBSET Reporter]
        /\ gossip \in [contended : SUBSET Reporter, strayed : SUBSET Reporter]
        /\ flusher \in [at : FlusherAt, snapshot : Snapshot, flushes : Nat]
        /\ stop \in [by : Caller \cup {NoOne}, expired : BOOLEAN, drained : BOOLEAN,
                     final : Snapshot, saved : BOOLEAN]
    BY DEF FlusherAt, Snapshot
  <2> QED
    BY <2>2, <2>3, <2>4, <2>5 DEF ShutdownTypeOK, WorkerAt
<1>3. Holding
  BY ShutdownConstants DEF Holding
<1>4. Places
  <2>1. NoRepeats(<< >>) /\ \A x : x \notin Range(<< >>)
    BY NothingQueued
  <2>2. Hands(carried) = {} /\ Accepted = {} /\ counted.recorded = {} /\ queued = << >>
    BY DEF Hands, Accepted, Settled
  <2> QED
    BY <2>1, <2>2 DEF Places, Placed
<1>5. Counted
  <2>1. {r \in Reporter : Settled(r)} = {}
    BY DEF Settled
  <2>2. counted.enqueued = 0 /\ counted.dropped = {}
    OBVIOUS
  <2> QED
    BY <2>1, <2>2, FS_EmptySet DEF Counted
<1>6. Room
  BY DEF Room
<1>7. /\ stop.by = NoOne /\ ~stop.drained /\ ~stop.saved /\ ~quit /\ worker = "loop"
      /\ \A c \in Caller : caller[c].at = "idle"
      /\ \A r \in Session : carried[r] = NoOne
  BY DEF Taker, Reporter
<1>8. ~InTime
  BY <1>7 DEF InTime, Doing
<1>9. Stages
  BY <1>7, <1>8 DEF Stages
<1>10. Kept
  BY <1>7, <1>8 DEF Kept
<1> QED
  BY <1>2, <1>3, <1>4, <1>5, <1>6, <1>9, <1>10 DEF ShutdownInv

LEMMA BystandersKeepPlaces ==
  ASSUME Holding, Places, Counted, Room,
         UNCHANGED <<sender, queued, carried, counted, worker, gossip>>
  PROVE  Holding' /\ Places' /\ Counted' /\ Room'
BY DEF Holding, Places, Placed, Hands, Accepted, Counted, Settled, Room

LEMMA ShutdownStep == ShutdownInv /\ [ShutdownNext]_shutdownVars => ShutdownInv'
<1> SUFFICES ASSUME ShutdownInv, [ShutdownNext]_shutdownVars
             PROVE  ShutdownInv'
  OBVIOUS
<1>1. /\ ShutdownTypeOK /\ Holding /\ Places /\ Counted
      /\ Room /\ Stages /\ Kept
  BY DEF ShutdownInv
<1>2. ASSUME NEW r \in Reporter,
             \/ BeginRequest(r) \/ Enqueue(r) \/ CountEnqueued(r) \/ FindFull(r)
             \/ DrainOne(r) \/ RecordDrained(r) \/ Drop(r)
      PROVE  ShutdownInv'
  <2>1. ShutdownTypeOK'
    BY <1>1, <1>2, SendersType
  <2>2. Holding' /\ Places' /\ Counted'
    BY <1>1, <1>2, SendersKeepPlaces
  <2>3. Room'
    BY <1>1, <1>2, SendersKeepRoom
  <2>4. UNCHANGED <<quit, worker, flusher, log, caller, stop>>
    BY <1>2
    DEF BeginRequest, Enqueue, CountEnqueued, FindFull, DrainOne, RecordDrained, Drop, others
  <2>5. Stages'
    BY <1>1, <2>4 DEF Stages, InTime, Doing
  <2>6. Kept'
    BY <1>1, <1>2, SendersKeepKept
  <2> QED
    BY <2>1, <2>2, <2>3, <2>5, <2>6 DEF ShutdownInv
<1>3. CASE WorkerTakes \/ WorkerRecords \/ WorkerQuits
  <2>1. ShutdownTypeOK'
    BY <1>1, <1>3, WorkersType
  <2>2. Holding' /\ Places' /\ Counted'
    BY <1>1, <1>3, WorkersKeepPlaces
  <2>3. Room'
    BY <1>1, <1>3, WorkersKeepRoom
  <2>4. Stages'
    BY <1>1, <1>3, WorkersKeepStages
  <2>5. Kept'
    BY <1>1, <1>3, WorkersKeepKept
  <2> QED
    BY <2>1, <2>2, <2>3, <2>4, <2>5 DEF ShutdownInv
<1>4. CASE FlushBegins \/ FlushWrites \/ FlusherQuits
  <2>1. ShutdownTypeOK'
    BY <1>1, <1>4, FlushType
  <2>2. UNCHANGED <<sender, queued, carried, counted, worker, gossip>>
    BY <1>4 DEF FlushBegins, FlushWrites, FlusherQuits
  <2>3. Holding' /\ Places' /\ Counted' /\ Room'
    BY <1>1, <2>2, BystandersKeepPlaces
  <2>4. Stages'
    BY <1>1, <1>4, FlushKeepsStages
  <2>5. Kept'
    BY <1>1, <1>4, FlushKeepsKept
  <2> QED
    BY <2>1, <2>3, <2>4, <2>5 DEF ShutdownInv
<1>5. CASE (\E c \in Caller : CallShutdown(c) \/ Proceed(c)) \/ DeadlinePasses
  <2>1. ShutdownTypeOK'
    BY <1>1, <1>5, CallersType
  <2>2. UNCHANGED <<sender, queued, carried, counted, worker, gossip>>
    BY <1>5 DEF CallShutdown, Proceed, ServerStops, CloseQuit, WaitForWorkers, TakeFinal,
                WriteFinal, WaiterReturns, DeadlinePasses, rest
  <2>3. Holding' /\ Places' /\ Counted' /\ Room'
    BY <1>1, <2>2, BystandersKeepPlaces
  <2>4. Stages'
    BY <1>1, <1>5, CallersKeepStages
  <2>5. Kept'
    BY <1>1, <1>5, CallersKeepKept
  <2> QED
    BY <2>1, <2>3, <2>4, <2>5 DEF ShutdownInv
<1>6. CASE UNCHANGED shutdownVars
  <2>1. /\ UNCHANGED <<sender, queued, carried, counted, worker, gossip>>
        /\ UNCHANGED <<load, quit, flusher, log, caller, stop>>
    BY <1>6 DEF shutdownVars
  <2>2. Holding' /\ Places' /\ Counted' /\ Room'
    BY <1>1, <2>1, BystandersKeepPlaces
  <2>3. ShutdownTypeOK'
    BY <1>1, <2>1 DEF ShutdownTypeOK
  <2>4. Stages' /\ Kept'
    BY <1>1, <2>1 DEF Stages, Kept, InTime, Doing, Settled
  <2> QED
    BY <2>2, <2>3, <2>4 DEF ShutdownInv
<1> QED
  BY <1>2, <1>3, <1>4, <1>5, <1>6 DEF ShutdownNext

LEMMA ShutdownInvariant == ShutdownSpec => []ShutdownInv
BY ShutdownInitial, ShutdownStep, PTL DEF ShutdownSpec

(* The senders, the analytics worker, the flush and the callers of         *)
(* Shutdown keep their queue, counters and findings well-formed, and the   *)
(* queue within its capacity.                                              *)
THEOREM ShutdownTypeCorrect == ShutdownSpec => []ShutdownTypeOK
<1>1. ShutdownInv => ShutdownTypeOK
  BY DEF ShutdownInv
<1> QED
  BY <1>1, ShutdownInvariant, PTL

(* No analytics event disappears, whatever the requests, the capacity of   *)
(* the queue and the callers of Shutdown: an accepted event is in exactly  *)
(* one place; one of proof priority is dropped only when another sender    *)
(* took the place made for it; and a Shutdown in time has written each     *)
(* request's event that no WebSocket session took away.                    *)
THEOREM EventsAlwaysKept == ShutdownSpec => []EventsKept
<1>1. ShutdownInv => EventsKept
  <2> SUFFICES ASSUME ShutdownInv PROVE EventsKept
    OBVIOUS
  <2>1. /\ ShutdownTypeOK /\ Holding /\ Places /\ Counted
        /\ Room /\ Stages /\ Kept
    BY DEF ShutdownInv
  <2>2. /\ queued \in Seq(Reporter) /\ carried \in [Taker -> Event]
        /\ counted.recorded \in SUBSET Reporter /\ counted.dropped \in SUBSET Reporter
        /\ Http \subseteq Reporter
    BY <2>1, ShutdownTypeFacts, ShutdownConstants DEF Counts
  <2>3. CountersHonest
    <3> DEFINE at(place) == {r \in Reporter : sender[r] = place}
               done == at("done") \ counted.dropped
               accepted == at("count") \cup done
    <3>1. done = {r \in Reporter : Settled(r)} /\ accepted = Accepted
      BY DEF Settled, Accepted
    <3>2. Placed(queued, counted.recorded, carried, accepted)
      BY <2>1, <3>1 DEF Places
    <3>3. counted.enqueued = Cardinality(done)
      BY <2>1, <3>1 DEF Counted
    <3> HIDE DEF done, accepted
    <3>4. Cardinality(accepted)
            = Len(queued) + Cardinality(counted.recorded) + Cardinality(Hands(carried))
      BY <2>2, <3>2, PlacesAddUp
    <3>5. accepted = Range(queued) \cup counted.recorded
                       \cup {carried[t] : t \in Hands(carried)}
      BY <3>2 DEF Placed
    <3> QED
      BY <3>3, <3>4, <3>5 DEF CountersHonest, Hands, done, accepted
  <2>4. ProofDropIsContended
    BY <2>1, <2>2 DEF ProofDropIsContended, Room
  <2>5. NothingLostOnCleanStop
    <3> SUFFICES ASSUME NEW c \in Caller, stop.by = c, caller[c].at = "returned",
                        caller[c].result = "nil", stop.drained, stop.saved,
                        NEW r \in Http, sender[r] = "done", r \notin counted.dropped,
                        r \notin gossip.strayed
                 PROVE  r \in Last(log)
      BY DEF NothingLostOnCleanStop
    <3>1. InTime /\ Doing({"write", "returned"})
      BY ShutdownConstants DEF InTime, Doing
    <3>2. r \in stop.final
      BY <2>1, <3>1 DEF Kept, Settled
    <3>3. Last(log) = stop.final
      BY <2>1, <3>1 DEF Stages
    <3> QED
      BY <3>2, <3>3
  <2> QED
    BY <2>3, <2>4, <2>5 DEF EventsKept
<1> QED
  BY <1>1, ShutdownInvariant, PTL
=============================================================================
