---------------------------- MODULE ResponseCache ----------------------------
(***************************************************************************)
(* The local response cache (src/internal/caching/response_cache.go): a    *)
(* map from the key of a compressed request to its entry, the keys in      *)
(* order of use, and the Stage A pointers from original requests to keys.  *)
(* Every method runs under one mutex, so each is a function of the whole   *)
(* cache.  An entry is what decides its fate: the paths it depends on, its *)
(* age, and, for the properties, the paths written since it was stored.    *)
(***************************************************************************)
EXTENDS Files, Integers, Sequences, FiniteSets, Functions

CONSTANTS
  Key,      \* keys of compressed requests (Stage B)
  Orig,     \* keys of original requests (Stage A)
  MaxSize,  \* capacity of the cache
  TTL       \* entries live for TTL ticks; 0 is for ever

ASSUME CacheAssumption == MaxSize \in Nat \ {0} /\ TTL \in Nat

VARIABLE cache

Entry == [deps : SUBSET Path, age : Nat, written : SUBSET Path]
Empty == [x \in {} |-> x]

CacheInit == cache = [entries |-> Empty, keys |-> << >>, pointers |-> Empty]

Has(c, k) == k \in DOMAIN c.entries
Expired(c, k) == TTL > 0 /\ c.entries[k].age > TTL

(* The keys that are not in gone, in their order: the nth of them is the   *)
(* one with n of them up to it.                                            *)
KeysBut(keys, gone) ==
  LET kept == {i \in DOMAIN keys : keys[i] \notin gone}
      upTo(i) == {j \in kept : j <= i}
  IN  [n \in 1..Cardinality(kept) |->
         keys[CHOOSE i \in kept : Cardinality(upTo(i)) = n]]

(* Mutant: the pointers to a removed key stay.                             *)
DroppedKeys(c, gone) ==
  [c EXCEPT !.entries = Restrict(@, DOMAIN @ \ gone), !.keys = KeysBut(@, gone)]

(* deleteKey and prunePointersTo, for the keys in gone.                    *)
Dropped(c, gone) ==
  [entries  |-> Restrict(c.entries, DOMAIN c.entries \ gone),
   keys     |-> KeysBut(c.keys, gone),
   pointers |-> RestrictDomain(c.pointers, LAMBDA o : c.pointers[o] \notin gone)]

(* promoteKey.                                                             *)
Promoted(c, k) == [c EXCEPT !.keys = Append(KeysBut(@, {k}), k)]

(* Get, and GetByOriginal once it has resolved the pointer: what is left   *)
(* of the cache; it is a hit when the key is live.                         *)
Live(c, k) == Has(c, k) /\ ~Expired(c, k)
Looked(c, k) == IF ~Has(c, k) THEN c
                ELSE IF Expired(c, k) THEN Dropped(c, {k}) ELSE Promoted(c, k)

(* An original request's key; a pointer always leads to an entry (see      *)
(* CacheConsistent), so the branch for orphans changes nothing here.       *)
Resolves(c, o) == o \in DOMAIN c.pointers

(* Set: a full cache first evicts the least recently used key.             *)
Stored(c, k, entry) ==
  LET full == ~Has(c, k) /\ Len(c.keys) >= MaxSize
      room == IF full THEN Dropped(c, {Head(c.keys)}) ELSE c
  IN  [Promoted(room, k) EXCEPT
         !.entries = [key \in DOMAIN @ \cup {k} |-> IF key = k THEN entry ELSE @[key]]]

(* Mutant: the pointer is set whether or not its target is there.          *)
PointedAnyway(c, o, k) ==
  [c EXCEPT !.pointers = [x \in DOMAIN @ \cup {o} |-> IF x = o THEN k ELSE @[x]]]

(* RegisterOriginalPointer.                                                *)
Pointed(c, o, k) ==
  IF ~Has(c, k) THEN c
  ELSE [c EXCEPT !.pointers =
          [x \in DOMAIN @ \cup {o} |-> IF x = o THEN k ELSE @[x]]]

(* Invalidate.                                                             *)
Invalidated(c, p) == Dropped(c, {k \in DOMAIN c.entries : p \in c.entries[k].deps})

(* Cleanup.                                                                *)
Cleaned(c) == Dropped(c, {k \in DOMAIN c.entries : Expired(c, k)})

-----------------------------------------------------------------------------
(* The entries, the order of use and the pointers agree, whatever lookups, *)
(* stores, evictions, expiries and invalidations of concurrent requests    *)
(* interleave: each entry is in the order once, a pointer leads to an      *)
(* entry, and the cache keeps within its capacity.                         *)
CacheConsistent ==
  /\ cache.entries \in [DOMAIN cache.entries -> Entry]
  /\ DOMAIN cache.pointers \subseteq Orig
  /\ \A i, j \in DOMAIN cache.keys : cache.keys[i] = cache.keys[j] => i = j
  /\ Range(cache.keys) = DOMAIN cache.entries
  /\ DOMAIN cache.entries \subseteq Key
  /\ Range(cache.pointers) \subseteq DOMAIN cache.entries
  /\ Len(cache.keys) <= MaxSize
=============================================================================
