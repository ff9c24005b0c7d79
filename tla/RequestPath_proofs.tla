-------------------------- MODULE RequestPath_proofs --------------------------
(***************************************************************************)
(* Proofs about the HTTP requests (RequestPath), for any number of them    *)
(* and any tools and texts: the types; the one retry of a refused body;    *)
(* the tools a client missed; and the questions of the archive tool, which *)
(* go up with every message their author meant.                            *)
(***************************************************************************)
EXTENDS RequestPath, WellFoundedInduction, SequenceTheorems, FiniteSetTheorems,
        TLAPS

-----------------------------------------------------------------------------
(* Numbers and sequences.                                                  *)

(* Induction: a set of natural numbers has a least one, so a property of   *)
(* all of them holds if there is no least one without it.                  *)
LEMMA LeastNatural ==
  ASSUME NEW T \in SUBSET Nat, T # {}
  PROVE  \E x \in T : \A y \in T : x <= y
<1> DEFINE R == OpToRel(<, Nat)
<1>1. IsWellFoundedOn(R, Nat)
  BY NatLessThanWellFounded
<1>2. T \subseteq Nat
  OBVIOUS
<1>3. ASSUME NEW x \in Nat, NEW y \in Nat, <<y, x>> \notin R
      PROVE  x <= y
  BY <1>3 DEF OpToRel
<1> HIDE DEF R
<1>4. \E x \in T : \A y \in T : ~ (<<y, x>> \in R)
  BY <1>1, <1>2, WFMin
<1>5. PICK x \in T : \A y \in T : ~ (<<y, x>> \in R)
  BY <1>4
<1>6. \A y \in T : x <= y
  BY <1>2, <1>3, <1>5
<1> QED
  BY <1>6

LEMMA GreatestIndex ==
  ASSUME NEW n \in Nat, NEW I \in SUBSET (1 .. n), I # {}
  PROVE  /\ Max(I) \in I
         /\ \A i \in I : i <= Max(I)
<1> DEFINE T == {n - i : i \in I}
<1>1. T \in SUBSET Nat /\ T # {}
  <2>1. \A i \in I : n - i \in Nat
    OBVIOUS
  <2>2. \E i \in I : n - i \in T
    OBVIOUS
  <2> QED
    BY <2>1, <2>2
<1>2. \E x \in T : \A y \in T : x <= y
  <2> HIDE DEF T
  <2> QED
    BY <1>1, LeastNatural, Zenon
<1>3. PICK m \in I : \A y \in T : n - m <= y
  BY <1>2
<1>4. ASSUME NEW i \in I
      PROVE  m >= i
  <2>1. n - i \in T
    OBVIOUS
  <2>2. n - m <= n - i /\ i \in Int /\ m \in Int
    BY <1>3, <2>1
  <2> QED
    BY <2>2
<1>5. \E i \in I : \A j \in I : i >= j
  BY <1>4
<1>6. Max(I) \in I /\ \A j \in I : Max(I) >= j
  BY <1>5 DEF Max
<1> QED
  BY <1>6

LEMMA LatestIndex ==
  ASSUME NEW n \in Nat, NEW I \in SUBSET (1 .. n), NEW at, at = IF I # {} THEN Max(I) ELSE 0
  PROVE  /\ at \in 0 .. n
         /\ at # 0 => at \in I
         /\ n \in I => at = n
<1>1. CASE I = {}
  BY <1>1
<1>2. CASE I # {}
  <2>1. at \in I /\ \A i \in I : i <= at
    BY <1>2, GreatestIndex
  <2>2. at \in 1 .. n
    BY <2>1
  <2>3. n \in I => n <= at
    BY <2>1
  <2> QED
    BY <2>1, <2>2, <2>3
<1> QED
  BY <1>1, <1>2

(* The last entry of a kind.                                               *)
LEMMA LatestUser ==
  ASSUME NEW s \in Seq(Entry)
  PROVE  LET at == SelectLastInSeq(s, IsUser)
         IN  at \in 0 .. Len(s) /\ (s # << >> /\ IsUser(s[Len(s)]) => at = Len(s))
<1> DEFINE I == {i \in 1 .. Len(s) : IsUser(s[i])}
<1>1. SelectLastInSeq(s, IsUser) = IF I # {} THEN Max(I) ELSE 0
  BY DEF SelectLastInSeq
<1>2. Len(s) \in Nat /\ I \in SUBSET (1 .. Len(s)) /\ (s # << >> => Len(s) \in 1 .. Len(s))
  BY EmptySeq, LenProperties
<1>3. s # << >> /\ IsUser(s[Len(s)]) => Len(s) \in I
  BY <1>2
<1> HIDE DEF I
<1> QED
  BY <1>1, <1>2, <1>3, LatestIndex

LEMMA LatestReply ==
  ASSUME NEW s \in Seq(Entry)
  PROVE  LET at == SelectLastInSeq(s, IsReply)
         IN  /\ at \in 0 .. Len(s) /\ (at # 0 => IsReply(s[at]))
             /\ s # << >> /\ IsReply(s[Len(s)]) => at = Len(s)
<1> DEFINE I == {i \in 1 .. Len(s) : IsReply(s[i])}
<1>1. SelectLastInSeq(s, IsReply) = IF I # {} THEN Max(I) ELSE 0
  BY DEF SelectLastInSeq
<1>2. Len(s) \in Nat /\ I \in SUBSET (1 .. Len(s)) /\ (s # << >> => Len(s) \in 1 .. Len(s))
  BY EmptySeq, LenProperties
<1>3. s # << >> /\ IsReply(s[Len(s)]) => Len(s) \in I
  BY <1>2
<1>4. \A i \in I : IsReply(s[i])
  OBVIOUS
<1> HIDE DEF I
<1> QED
  BY <1>1, <1>2, <1>3, <1>4, LatestIndex

(* The sessions of a store: each is in line once.                          *)
LEMMA RemoveOne ==
  ASSUME NEW S, NEW s \in Seq(S), IsInjective(s), NEW i \in DOMAIN s
  PROVE  /\ RemoveAt(s, i) \in Seq(S)
         /\ IsInjective(RemoveAt(s, i))
         /\ ToSet(RemoveAt(s, i)) = ToSet(s) \ {s[i]}
         /\ Len(RemoveAt(s, i)) = Len(s) - 1
<1> DEFINE n == Len(s)
           low == SubSeq(s, 1, i - 1)
           high == SubSeq(s, i + 1, n)
           r == RemoveAt(s, i)
<1>1. /\ n \in Nat /\ DOMAIN s = 1..n /\ i \in 1..n
      /\ \A k \in 1..n : s[k] \in S
  BY LenProperties, ElementOfSeq
<1>2. /\ low \in Seq(S) /\ Len(low) = i - 1
      /\ \A k \in 1..(i - 1) : low[k] = s[k]
  <2>1. 1 \in Int /\ i - 1 \in Int /\ \A k \in 1..(i - 1) : s[k] \in S
    BY <1>1
  <2> HIDE DEF n
  <2>2. /\ low \in Seq(S) /\ Len(low) = IF 1 <= i - 1 THEN i - 1 - 1 + 1 ELSE 0
        /\ \A k \in 1..(i - 1 - 1 + 1) : low[k] = s[1 + k - 1]
    BY <2>1, SubSeqProperties
  <2> QED
    BY <1>1, <2>2
<1>3. /\ high \in Seq(S) /\ Len(high) = n - i
      /\ \A k \in 1..(n - i) : high[k] = s[i + k]
  <2>1. i + 1 \in Int /\ n \in Int /\ \A k \in (i + 1)..n : s[k] \in S
    BY <1>1
  <2>2. /\ high \in Seq(S) /\ Len(high) = IF i + 1 <= n THEN n - (i + 1) + 1 ELSE 0
        /\ \A k \in 1..(n - (i + 1) + 1) : high[k] = s[(i + 1) + k - 1]
    BY <2>1, SubSeqProperties
  <2> HIDE DEF n
  <2> QED
    BY <1>1, <2>2
<1>4. r = low \o high
  BY DEF RemoveAt
<1> HIDE DEF n, low, high, r
<1>5. /\ r \in Seq(S) /\ Len(r) = n - 1
      /\ \A k \in 1..(n - 1) : r[k] = IF k <= i - 1 THEN low[k] ELSE high[k - (i - 1)]
  <2>1. /\ r \in Seq(S) /\ Len(r) = Len(low) + Len(high)
        /\ \A k \in 1..(Len(low) + Len(high)) :
             r[k] = IF k <= Len(low) THEN low[k] ELSE high[k - Len(low)]
    BY <1>2, <1>3, <1>4, ConcatProperties
  <2>2. Len(low) = i - 1 /\ Len(low) + Len(high) = n - 1
    BY <1>1, <1>2, <1>3
  <2> QED
    BY <2>1, <2>2
<1>6. \A k \in 1..(n - 1) : r[k] = IF k < i THEN s[k] ELSE s[k + 1]
  <2>1. ASSUME NEW k \in 1..(n - 1)
        PROVE  r[k] = IF k < i THEN s[k] ELSE s[k + 1]
    <3>1. CASE k < i
      <4>1. k <= i - 1 /\ k \in 1..(i - 1)
        BY <1>1, <3>1
      <4> QED
        BY <1>2, <1>5, <3>1, <4>1
    <3>2. CASE ~(k < i)
      <4>1. ~(k <= i - 1) /\ k - (i - 1) \in 1..(n - i) /\ i + (k - (i - 1)) = k + 1
        BY <1>1, <3>2
      <4> QED
        BY <1>3, <1>5, <3>2, <4>1
    <3> QED
      BY <3>1, <3>2
  <2> QED
    BY <2>1
<1>7. DOMAIN r = 1..(n - 1)
  BY <1>5, LenProperties
<1>8. IsInjective(r)
  <2>1. ASSUME NEW j \in 1..(n - 1), NEW k \in 1..(n - 1), r[j] = r[k]
        PROVE  j = k
    <3> DEFINE J == IF j < i THEN j ELSE j + 1
               K == IF k < i THEN k ELSE k + 1
    <3>1. J \in 1..n /\ K \in 1..n
      BY <1>1
    <3>2. s[J] = s[K]
      BY <1>6, <2>1
    <3>3. J = K
      BY <1>1, <3>1, <3>2 DEF IsInjective
    <3> QED
      BY <1>1, <3>3
  <2> QED
    BY <1>7, <2>1 DEF IsInjective
<1>9. ToSet(r) = ToSet(s) \ {s[i]}
  <2>1. ASSUME NEW x \in ToSet(r)
        PROVE  x \in ToSet(s) /\ x # s[i]
    <3>1. PICK k \in 1..(n - 1) : x = r[k]
      BY <1>7 DEF ToSet
    <3> DEFINE K == IF k < i THEN k ELSE k + 1
    <3>2. K \in 1..n /\ K # i /\ x = s[K]
      BY <1>1, <1>6, <3>1
    <3> HIDE DEF K
    <3> QED
      BY <1>1, <3>2 DEF ToSet, IsInjective
  <2>2. ASSUME NEW x \in ToSet(s), x # s[i]
        PROVE  x \in ToSet(r)
    <3>1. PICK k \in 1..n : x = s[k]
      BY <1>1 DEF ToSet
    <3>2. k # i
      BY <2>2, <3>1
    <3> DEFINE K == IF k < i THEN k ELSE k - 1
    <3>3. K \in 1..(n - 1) /\ (IF K < i THEN K ELSE K + 1) = k
      BY <1>1, <3>2
    <3>4. x = r[K]
      BY <1>6, <3>1, <3>3
    <3> HIDE DEF K
    <3> QED
      BY <1>7, <3>3, <3>4 DEF ToSet
  <2> QED
    BY <2>1, <2>2
<1> QED
  BY <1>5, <1>8, <1>9 DEF r, n

LEMMA WithoutFacts ==
  ASSUME NEW S, NEW s \in Seq(S), IsInjective(s), NEW d
  PROVE  /\ Without(s, d) \in Seq(S) /\ IsInjective(Without(s, d))
         /\ ToSet(Without(s, d)) = ToSet(s) \ {d}
         /\ Len(Without(s, d)) = IF d \in ToSet(s) THEN Len(s) - 1 ELSE Len(s)
<1>1. CASE d \in ToSet(s)
  <2> DEFINE i == CHOOSE i \in DOMAIN s : s[i] = d
  <2>1. i \in DOMAIN s /\ s[i] = d
    BY <1>1 DEF ToSet
  <2>2. Without(s, d) = RemoveAt(s, i)
    BY <1>1 DEF Without
  <2> HIDE DEF i
  <2> QED
    BY <1>1, <2>1, <2>2, RemoveOne
<1>2. CASE d \notin ToSet(s)
  BY <1>2 DEF Without
<1> QED
  BY <1>1, <1>2

LEMMA AppendFacts ==
  ASSUME NEW S, NEW s \in Seq(S), NEW d \in S
  PROVE  /\ Append(s, d) \in Seq(S) /\ Len(Append(s, d)) = Len(s) + 1
         /\ Append(s, d)[Len(s) + 1] = d /\ Append(s, d) # << >>
         /\ ToSet(Append(s, d)) = ToSet(s) \cup {d}
         /\ IsInjective(s) /\ d \notin ToSet(s) => IsInjective(Append(s, d))
<1> DEFINE a == Append(s, d)
<1>1. /\ a \in Seq(S) /\ a # << >> /\ Len(a) = Len(s) + 1 /\ Len(s) \in Nat
      /\ \A i \in 1 .. Len(s) : a[i] = s[i]
      /\ a[Len(s) + 1] = d
  BY AppendProperties, LenProperties
<1>2. DOMAIN a = 1 .. (Len(s) + 1) /\ DOMAIN s = 1 .. Len(s)
  BY <1>1, LenProperties
<1> HIDE DEF a
<1>3. ToSet(a) = ToSet(s) \cup {d}
  <2>1. ASSUME NEW x \in ToSet(a)
        PROVE  x \in ToSet(s) \cup {d}
    <3>1. PICK i \in 1 .. (Len(s) + 1) : x = a[i]
      BY <1>2 DEF ToSet
    <3>2. i \in 1 .. Len(s) \/ i = Len(s) + 1
      BY <1>1
    <3> QED
      BY <1>1, <1>2, <3>1, <3>2 DEF ToSet
  <2>2. ASSUME NEW x \in ToSet(s)
        PROVE  x \in ToSet(a)
    <3>1. PICK i \in 1 .. Len(s) : x = s[i]
      BY <1>2 DEF ToSet
    <3>2. i \in DOMAIN a /\ x = a[i]
      BY <1>1, <1>2, <3>1
    <3> QED
      BY <3>2 DEF ToSet
  <2>3. d \in ToSet(a)
    <3>1. Len(s) + 1 \in DOMAIN a
      BY <1>1, <1>2
    <3> QED
      BY <1>1, <3>1 DEF ToSet
  <2> QED
    BY <2>1, <2>2, <2>3
<1>4. ASSUME IsInjective(s), d \notin ToSet(s)
      PROVE  IsInjective(a)
  <2>1. ASSUME NEW i \in 1 .. (Len(s) + 1), NEW j \in 1 .. (Len(s) + 1), a[i] = a[j]
        PROVE  i = j
    <3>1. \A k \in 1 .. (Len(s) + 1) :
            k = Len(s) + 1 \/ (k \in DOMAIN s /\ a[k] = s[k] /\ a[k] \in ToSet(s))
      BY <1>1, <1>2 DEF ToSet
    <3>2. CASE i = Len(s) + 1 \/ j = Len(s) + 1
      BY <1>1, <1>4, <2>1, <3>1, <3>2
    <3>3. CASE i # Len(s) + 1 /\ j # Len(s) + 1
      BY <1>4, <2>1, <3>1, <3>3 DEF IsInjective
    <3> QED
      BY <3>2, <3>3
  <2> QED
    BY <1>2, <2>1 DEF IsInjective
<1> QED
  BY <1>1, <1>3, <1>4 DEF a

LEMMA TailFacts ==
  ASSUME NEW S, NEW s \in Seq(S), s # << >>, IsInjective(s)
  PROVE  /\ Tail(s) \in Seq(S) /\ IsInjective(Tail(s)) /\ Len(Tail(s)) = Len(s) - 1
         /\ Head(s) \in ToSet(s) /\ ToSet(Tail(s)) = ToSet(s) \ {Head(s)}
<1> DEFINE t == Tail(s)
<1>1. /\ t \in Seq(S) /\ Len(t) = Len(s) - 1 /\ Len(s) \in Nat \ {0}
      /\ \A i \in 1 .. Len(t) : t[i] = s[i + 1]
      /\ Head(s) = s[1]
  BY HeadTailProperties, EmptySeq, LenProperties
<1>2. DOMAIN t = 1 .. (Len(s) - 1) /\ DOMAIN s = 1 .. Len(s)
  BY <1>1, LenProperties
<1> HIDE DEF t
<1>3. \A i \in 1 .. (Len(s) - 1) : t[i] = s[i + 1] /\ i + 1 \in DOMAIN s
  BY <1>1, <1>2
<1>4. IsInjective(t)
  <2>1. ASSUME NEW i \in 1 .. (Len(s) - 1), NEW j \in 1 .. (Len(s) - 1), t[i] = t[j]
        PROVE  i = j
    <3>1. i + 1 = j + 1
      BY <1>3, <2>1 DEF IsInjective
    <3> QED
      BY <3>1
  <2> QED
    BY <1>2, <2>1 DEF IsInjective
<1>5. Head(s) \in ToSet(s)
  <2>1. 1 \in DOMAIN s
    BY <1>1, <1>2
  <2> QED
    BY <1>1, <2>1 DEF ToSet
<1>6. ASSUME NEW x \in ToSet(t)
      PROVE  x \in ToSet(s) \ {Head(s)}
  <2>1. PICK i \in 1 .. (Len(s) - 1) : x = t[i]
    BY <1>2 DEF ToSet
  <2>2. x = s[i + 1] /\ i + 1 \in DOMAIN s /\ i + 1 # 1 /\ 1 \in DOMAIN s
    BY <1>1, <1>2, <1>3, <2>1
  <2> QED
    BY <1>1, <2>2 DEF ToSet, IsInjective
<1>7. ASSUME NEW x \in ToSet(s), x # Head(s)
      PROVE  x \in ToSet(t)
  <2>1. PICK i \in 1 .. Len(s) : x = s[i]
    BY <1>2 DEF ToSet
  <2>2. i - 1 \in DOMAIN t /\ i - 1 + 1 = i
    BY <1>1, <1>2, <1>7, <2>1
  <2>3. x = t[i - 1]
    BY <1>2, <1>3, <2>1, <2>2
  <2> QED
    BY <2>2, <2>3 DEF ToSet
<1> QED
  BY <1>1, <1>4, <1>5, <1>6, <1>7 DEF t

-----------------------------------------------------------------------------
(* The types, part by part.                                                *)
WaysFit == way \in [Server -> Way \cup {Idle}]
TrackerFits ==
  /\ tracker \in [order : Seq(Conversation), use : [Conversation -> Usage]]
  /\ IsInjective(tracker.order) /\ Len(tracker.order) <= MaxTracked
  /\ \A d \in Conversation : ~Tracked(d) => tracker.use[d] = Unused
  /\ misses \subseteq Conversation \X Tool \X Nat
AnchorFits ==
  /\ anchor \in [order : Seq(Conversation), id : [Conversation -> 1 .. ids \cup {NoId}]]
  /\ IsInjective(anchor.order) /\ Len(anchor.order) <= MaxAnchors
  /\ \A d \in Conversation : anchor.id[d] = NoId <=> d \notin ToSet(anchor.order)
ClientFits ==
  /\ world \in World /\ rejected \in BOOLEAN /\ turns \in Nat /\ troubles \in Nat
  /\ talk \in [Conversation -> Seq(Entry)] /\ odd \subseteq Conversation
UpstreamFits ==
  ids \in Nat /\ DOMAIN known \subseteq 1 .. ids /\ known \in [DOMAIN known -> SUBSET Entry]

LEMMA TypeParts ==
  RequestPathTypeOK <=> WaysFit /\ TrackerFits /\ AnchorFits /\ ClientFits /\ UpstreamFits
<1>1. RequestPathTypeOK => WaysFit /\ ClientFits /\ UpstreamFits
  BY DEF RequestPathTypeOK, WaysFit, ClientFits, UpstreamFits
<1>2. RequestPathTypeOK => TrackerFits
  BY DEF RequestPathTypeOK, TrackerFits
<1>3. RequestPathTypeOK => AnchorFits
  BY DEF RequestPathTypeOK, AnchorFits
<1>4. \A one, other : (\A store \in {one, other} : IsInjective(store)) <=>
                        IsInjective(one) /\ IsInjective(other)
  OBVIOUS
<1>5. WaysFit /\ TrackerFits /\ AnchorFits /\ ClientFits /\ UpstreamFits => RequestPathTypeOK
  BY <1>4, Zenon DEF RequestPathTypeOK, WaysFit, TrackerFits, AnchorFits, ClientFits, UpstreamFits
<1> QED
  BY <1>1, <1>2, <1>3, <1>5

(* One request goes a step.                                                *)
LEMMA Moved ==
  ASSUME WaysFit, NEW s \in Server, NEW v, way' = [way EXCEPT ![s] = v]
  PROVE  /\ way'[s] = v /\ \A o \in Server : o # s => way'[o] = way[o]
         /\ v \in Way \cup {Idle} => WaysFit'
BY DEF WaysFit

LEMMA UnderWay ==
  ASSUME WaysFit, NEW s \in Server, way[s].at # "idle"
  PROVE  way[s] \in Way
BY DEF WaysFit, Idle

-----------------------------------------------------------------------------
(* Until it is sent, a request is prepared: what the client asked for      *)
(* stays, and of the tools it only gets more.                              *)
Early == {"mention", "peek", "forget", "observe", "cool", "judge", "remember", "hint",
          "rewrite"}
SameRequest(w, v) ==
  /\ v.dialog = w.dialog /\ v.history = w.history /\ v.stream = w.stream
  /\ v.last = w.last /\ v.own = w.own /\ v.gone = w.gone /\ v.needs = w.needs
Prepared(w, v) ==
  /\ v \in Way /\ w \in Way /\ w.at \in Early /\ v.at \in Early /\ SameRequest(w, v)
  /\ w.full \subseteq v.full
  /\ v.stage = w.stage /\ v.again = w.again /\ v.accepted = w.accepted
PreparedTo(s, v) == way' = [way EXCEPT ![s] = v] /\ Prepared(way[s], v)

LEMMA WayTypes ==
  ASSUME NEW w \in Way
  PROVE  /\ w.dialog \in Conversation /\ w.at \in Place /\ w.at # "idle"
         /\ w.todo \in SUBSET Tool /\ w.full \in SUBSET Tool /\ w.dropped \in SUBSET Tool
         /\ w.uses \in SUBSET Tool /\ w.mentions \in SUBSET Tool
         /\ w.own \in Sendable /\ w.sent \in Sendable
<1>1. /\ w.dialog \in Conversation /\ w.at \in Place
      /\ w.todo \in SUBSET Tool /\ w.full \in SUBSET Tool /\ w.dropped \in SUBSET Tool
      /\ w.uses \in SUBSET Tool /\ w.mentions \in SUBSET Tool
      /\ w.own \in Sendable /\ w.sent \in Sendable
  BY DEF Way
<1>2. "idle" \notin Place
  BY DEF Place, Attempt
<1> QED
  BY <1>1, <1>2

LEMMA EarlyPlaces == Early \subseteq Place
BY DEF Early, Place

LEMMA Todo ==
  ASSUME NEW w \in Way, w.at \in Early, NEW place \in Early, NEW ts \in SUBSET Tool
  PROVE  /\ Prepared(w, [w EXCEPT !.todo = ts, !.at = place])
         /\ Prepared(w, [w EXCEPT !.at = place, !.todo = ts])
         /\ Prepared(w, [w EXCEPT !.at = place])
<1>1. place \in Place
  BY EarlyPlaces
<1> DEFINE v == [w EXCEPT !.todo = ts, !.at = place]
           u == [w EXCEPT !.at = place, !.todo = ts]
           x == [w EXCEPT !.at = place]
<1>2. v \in Way /\ u \in Way /\ x \in Way
  <2>1. v \in Way
    BY <1>1, Zenon DEF Way
  <2>2. u \in Way
    BY <1>1, Zenon DEF Way
  <2>3. x \in Way
    BY <1>1, Zenon DEF Way
  <2> QED
    BY <2>1, <2>2, <2>3
<1>3. SameRequest(w, v) /\ SameRequest(w, u) /\ SameRequest(w, x)
  <2>1. SameRequest(w, v)
    BY SMTT(30) DEF SameRequest, Way
  <2>2. SameRequest(w, u)
    BY SMTT(30) DEF SameRequest, Way
  <2>3. SameRequest(w, x)
    BY SMTT(30) DEF SameRequest, Way
  <2> QED
    BY <2>1, <2>2, <2>3
<1>4. /\ v.at = place /\ v.full = w.full /\ v.stage = w.stage /\ v.again = w.again
      /\ v.accepted = w.accepted
  BY Zenon DEF Way
<1>5. /\ u.at = place /\ u.full = w.full /\ u.stage = w.stage /\ u.again = w.again
      /\ u.accepted = w.accepted
  BY Zenon DEF Way
<1>6. /\ x.at = place /\ x.full = w.full /\ x.stage = w.stage /\ x.again = w.again
      /\ x.accepted = w.accepted
  BY Zenon DEF Way
<1> HIDE DEF v, u, x
<1> QED
  BY <1>2, <1>3, <1>4, <1>5, <1>6 DEF Prepared, v, u, x

LEMMA MentionWay ==
  ASSUME WaysFit, TrackerFits, NEW s \in Server, Mention(s)
  PROVE  \E v : PreparedTo(s, v)
<1> DEFINE w == way[s]
           names == w.mentions \cap tracker.use[w.dialog].defs
           place == IF names = {} THEN "observe" ELSE "peek"
           v == [w EXCEPT !.todo = names, !.at = place]
<1>1. w \in Way /\ w.at = "mention" /\ way' = [way EXCEPT ![s] = v]
  <2>1. w.at = "mention" /\ way' = [way EXCEPT ![s] = v]
    BY Zenon DEF Mention, Go
  <2>2. w.at # "idle"
    BY <2>1
  <2> QED
    BY <2>1, <2>2, UnderWay, Zenon
<1>2. names \in SUBSET Tool /\ place \in Early /\ w.at \in Early
  <2>1. names \in SUBSET Tool
    BY <1>1, WayTypes, Zenon
  <2>2. "observe" \in Early /\ "peek" \in Early /\ "mention" \in Early
    BY Zenon DEF Early
  <2> QED
    BY <1>1, <2>1, <2>2, Zenon
<1>3. Prepared(w, v)
  BY <1>1, <1>2, Todo
<1> QED
  BY <1>1, <1>3, Zenon DEF PreparedTo

LEMMA PeekWay ==
  ASSUME WaysFit, TrackerFits, NEW s \in Server, Peek(s)
  PROVE  \E v : PreparedTo(s, v)
<1> DEFINE w == way[s]
           defs == w.todo \cap tracker.use[w.dialog].defs
<1>1. w \in Way /\ w.at = "peek" /\ w.at \in Early /\ "observe" \in Early /\ {} \in SUBSET Tool
  <2>1. w.at = "peek"
    BY Zenon DEF Peek, Go
  <2>2. w.at # "idle" /\ w.at \in Early /\ "observe" \in Early /\ {} \in SUBSET Tool
    BY <2>1 DEF Early
  <2> QED
    BY <2>1, <2>2, UnderWay, Zenon
<1>2. defs \in SUBSET Tool
  BY <1>1, WayTypes, Zenon
<1> HIDE DEF defs
<1>3. CASE defs \subseteq w.full
  <2> DEFINE v == [w EXCEPT !.at = "observe", !.todo = {}]
  <2>1. way' = [way EXCEPT ![s] = v]
    BY <1>3, Zenon DEF Peek, Go, defs
  <2>2. Prepared(w, v)
    BY <1>1, Todo, Zenon
  <2> QED
    BY <2>1, <2>2 DEF PreparedTo
<1>4. CASE ~(defs \subseteq w.full)
  <2> DEFINE v == [w EXCEPT !.at = "forget", !.full = @ \cup defs, !.uses = @ \cup defs]
  <2>1. way' = [way EXCEPT ![s] = v]
    BY <1>4, Zenon DEF Peek, Go, defs
  <2>2. Prepared(w, v)
    <3>1. "forget" \in Early \cap Place
      BY DEF Early, Place
    <3>2. w.full \cup defs \in SUBSET Tool /\ w.uses \cup defs \in SUBSET Tool
      BY <1>1, <1>2, WayTypes, Zenon
    <3>3. v = [w EXCEPT !.at = "forget", !.full = w.full \cup defs, !.uses = w.uses \cup defs]
      BY <1>1 DEF Way
    <3>4. v \in Way
      BY <1>1, <3>1, <3>2, <3>3 DEF Way
    <3>5. SameRequest(w, v) /\ v.at = "forget"
      BY <1>1, Zenon DEF SameRequest, Way
    <3>6. /\ w.full \subseteq v.full /\ v.stage = w.stage /\ v.again = w.again
          /\ v.accepted = w.accepted
      BY <1>1, Zenon DEF Way
    <3> QED
      BY <1>1, <3>1, <3>4, <3>5, <3>6 DEF Prepared
  <2> QED
    BY <2>1, <2>2 DEF PreparedTo
<1> QED
  BY <1>3, <1>4

LEMMA TurnWay ==
  ASSUME WaysFit, NEW s \in Server, ForgetDefs(s) \/ ObserveTurn(s) \/ ConsumeCooldown(s)
  PROVE  \E v : PreparedTo(s, v)
<1> DEFINE w == way[s]
<1>1. /\ w \in Way /\ w.at \in Early
      /\ \/ way' = [way EXCEPT ![s] = [w EXCEPT !.at = "observe", !.todo = {}]]
         \/ way' = [way EXCEPT ![s] = [w EXCEPT !.at = "hint"]]
         \/ way' = [way EXCEPT ![s] = [w EXCEPT !.at = "cool"]]
         \/ way' = [way EXCEPT ![s] = [w EXCEPT !.at = "judge", !.todo = w.full]]
  BY UnderWay, Zenon DEF ForgetDefs, ObserveTurn, ConsumeCooldown, Go, Early
<1>2. /\ {"observe", "hint", "cool", "judge"} \subseteq Early
      /\ {} \in SUBSET Tool /\ w.full \in SUBSET Tool
  BY <1>1, WayTypes DEF Early
<1> QED
  BY <1>1, <1>2, Todo DEF PreparedTo

LEMMA JudgeWay ==
  ASSUME WaysFit, NEW s \in Server, JudgeTool(s)
  PROVE  \E v : PreparedTo(s, v)
<1> DEFINE w == way[s]
<1>1. w \in Way /\ w.at = "judge"
  BY UnderWay DEF JudgeTool
<1>2. PICK t \in w.todo : 
        way' = [way EXCEPT ![s] =
                  [w EXCEPT !.todo = @ \ {t},
                            !.dropped = IF ActiveTool(w.dialog, t) THEN @ ELSE @ \cup {t}]]
  BY DEF JudgeTool, Go
<1> DEFINE drops == IF ActiveTool(w.dialog, t) THEN w.dropped ELSE w.dropped \cup {t}
           v == [w EXCEPT !.todo = w.todo \ {t}, !.dropped = drops]
<1>3. way' = [way EXCEPT ![s] = v]
  BY <1>1, <1>2 DEF Way
<1>4. drops \in SUBSET Tool /\ w.todo \ {t} \in SUBSET Tool
  BY <1>1, <1>2, WayTypes
<1> HIDE DEF drops, w
<1>5. Prepared(w, v)
  <2>1. v \in Way
    BY <1>1, <1>4 DEF Way
  <2>2. SameRequest(w, v) /\ v.at = w.at
    BY <1>1 DEF SameRequest, Way
  <2>3. v.full = w.full /\ v.stage = w.stage /\ v.again = w.again /\ v.accepted = w.accepted
    BY <1>1 DEF Way
  <2>4. w.at \in Early
    BY <1>1 DEF Early
  <2> QED
    BY <1>1, <2>1, <2>2, <2>3, <2>4 DEF Prepared
<1> HIDE DEF v
<1> QED
  BY <1>3, <1>5, Zenon DEF PreparedTo, w

LEMMA KeepWay ==
  ASSUME WaysFit, NEW s \in Server, KeepOne(s)
  PROVE  \E v : PreparedTo(s, v) /\ v.at # "judge"
<1> DEFINE w == way[s]
           out(ts) == [w EXCEPT !.dropped = ts, !.todo = ts,
                                !.at = IF ts = {} THEN "hint" ELSE "remember"]
<1>1. w \in Way /\ w.at = "judge"
  <2>1. w.at = "judge"
    BY Zenon DEF KeepOne
  <2>2. w.at # "idle"
    BY <2>1
  <2> QED
    BY <2>1, <2>2, UnderWay, Zenon
<1>2. \E ts \in SUBSET Tool : way' = [way EXCEPT ![s] = out(ts)]
  <2>1. \/ way' = [way EXCEPT ![s] = out(w.dropped)]
        \/ \E t \in w.dropped : way' = [way EXCEPT ![s] = out(w.dropped \ {t})]
    BY Zenon DEF KeepOne, Go
  <2>2. \A t : w.dropped \ {t} \in SUBSET Tool /\ w.dropped \in SUBSET Tool
    BY <1>1, WayTypes, Zenon
  <2> HIDE DEF out
  <2> QED
    BY <2>1, <2>2, Zenon
<1>3. PICK ts \in SUBSET Tool : way' = [way EXCEPT ![s] = out(ts)]
  BY <1>2
<1>4. Prepared(w, out(ts)) /\ out(ts).at # "judge"
  <2> DEFINE place == IF ts = {} THEN "hint" ELSE "remember"
             v == [w EXCEPT !.dropped = ts, !.todo = ts, !.at = place]
  <2>1. place \in Early /\ place # "judge" /\ w.at \in Early
    BY <1>1 DEF Early
  <2> HIDE DEF place
  <2>2. v \in Way
    <3>1. place \in Place
      BY <2>1, EarlyPlaces
    <3> QED
      BY <1>1, <3>1, Zenon DEF Way
  <2>3. SameRequest(w, v) /\ v.at = place
    BY <1>1 DEF SameRequest, Way
  <2>4. v.full = w.full /\ v.stage = w.stage /\ v.again = w.again /\ v.accepted = w.accepted
    BY <1>1 DEF Way
  <2>5. Prepared(w, v) /\ v.at # "judge"
    BY <1>1, <2>1, <2>2, <2>3, <2>4 DEF Prepared
  <2> QED
    BY <2>5, Zenon DEF place
<1>5. PreparedTo(s, out(ts))
  BY <1>3, <1>4, Zenon DEF PreparedTo
<1> HIDE DEF out
<1> QED
  BY <1>4, <1>5, Zenon

LEMMA RememberWay ==
  ASSUME WaysFit, NEW s \in Server, RememberDef(s)
  PROVE  \E v : PreparedTo(s, v)
<1> DEFINE w == way[s]
<1>1. w \in Way /\ w.at = "remember"
  <2>1. w.at = "remember"
    BY Zenon DEF RememberDef
  <2>2. w.at # "idle"
    BY <2>1
  <2> QED
    BY <2>1, <2>2, UnderWay, Zenon
<1>2. PICK t \in w.todo :
        way' = [way EXCEPT ![s] = [w EXCEPT !.todo = @ \ {t},
                                            !.at = IF w.todo = {t} THEN "hint" ELSE @]]
  BY Zenon DEF RememberDef, Go
<1> DEFINE place == IF w.todo = {t} THEN "hint" ELSE "remember"
           v == [w EXCEPT !.todo = w.todo \ {t}, !.at = place]
<1>3. way' = [way EXCEPT ![s] = v]
  BY <1>1, <1>2 DEF Way
<1>4. place \in Early /\ w.at \in Early /\ w.todo \ {t} \in SUBSET Tool
  BY <1>1, WayTypes, Zenon DEF Early
<1> HIDE DEF place
<1>5. Prepared(w, v)
  BY <1>1, <1>4, Todo
<1> HIDE DEF v
<1> QED
  BY <1>3, <1>5, Zenon DEF PreparedTo

-----------------------------------------------------------------------------
(* What was missed counts as used since.                                   *)
UsedSince(u, t, turn) == u.seen[t] \in Nat /\ turn <= u.seen[t] /\ turn <= u.turn
Warmed == \A m \in misses : UsedSince(tracker.use[m[1]], m[2], m[3])

(* A session's usage only advances.                                        *)
Advances(u, v) ==
  \A t \in Tool, n \in Nat : UsedSince(u, t, n) => UsedSince(v, t, n)

LEMMA TrackerTypes ==
  ASSUME TrackerFits
  PROVE  /\ tracker.order \in Seq(Conversation) /\ Len(tracker.order) \in Nat
         /\ \A d \in Conversation : tracker.use[d] \in Usage
         /\ tracker.use \in [Conversation -> Usage]
         /\ DOMAIN tracker = {"order", "use"} /\ tracker = [order |-> tracker.order, use |-> tracker.use]
BY LenProperties DEF TrackerFits

LEMMA UnusedIsUsage == Unused \in Usage
BY DEF Unused, Usage, Never

LEMMA TracksOrder ==
  ASSUME TrackerFits, NEW d \in Conversation, NEW u, NEW ms, Tracks(d, u, ms)
  PROVE  \E out \in SUBSET Conversation :
           /\ d \notin out
           /\ tracker'.order \in Seq(Conversation) /\ IsInjective(tracker'.order)
           /\ Len(tracker'.order) <= MaxTracked
           /\ ToSet(tracker'.order) = (ToSet(tracker.order) \ out) \cup {d}
           /\ tracker' = [order |-> tracker'.order,
                          use |-> [o \in Conversation |-> IF o = d THEN u
                                                          ELSE IF o \in out THEN Unused
                                                          ELSE tracker.use[o]]]
           /\ misses' = {m \in misses : m[1] \notin out} \cup ms
<1> DEFINE line == tracker.order
           evicts == ~Tracked(d) /\ Len(line) >= MaxTracked
           rest == IF evicts THEN Tail(line) ELSE Without(line, d)
           out == IF evicts THEN {Head(line)} ELSE {}
<1>1. /\ line \in Seq(Conversation) /\ IsInjective(line) /\ Len(line) <= MaxTracked
      /\ Len(line) \in Nat /\ MaxTracked \in Nat \ {0}
  BY TrackerTypes, RequestPathAssumption DEF TrackerFits
<1>2. Tracked(d) <=> d \in ToSet(line)
  BY DEF Tracked
<1>3. /\ tracker' = [order |-> Append(rest, d),
                     use |-> [o \in Conversation |-> IF o = d THEN u
                                                     ELSE IF o \in out THEN Unused
                                                     ELSE tracker.use[o]]]
      /\ misses' = {m \in misses : m[1] \notin out} \cup ms
  BY Zenon DEF Tracks
<1>4. ToSet(line) \subseteq Conversation
  BY <1>1, ElementOfSeq, LenProperties DEF ToSet
<1>5. /\ rest \in Seq(Conversation) /\ IsInjective(rest) /\ d \notin ToSet(rest)
      /\ Len(rest) + 1 <= MaxTracked
      /\ ToSet(rest) \cup {d} = (ToSet(line) \ out) \cup {d}
      /\ out \subseteq Conversation /\ d \notin out
  <2>1. CASE evicts
    <3>1. line # << >>
      BY <1>1, <2>1, EmptySeq
    <3>2. /\ Tail(line) \in Seq(Conversation) /\ IsInjective(Tail(line))
          /\ Len(Tail(line)) = Len(line) - 1
          /\ Head(line) \in ToSet(line) /\ ToSet(Tail(line)) = ToSet(line) \ {Head(line)}
      BY <1>1, <3>1, TailFacts
    <3>3. rest = Tail(line) /\ out = {Head(line)} /\ d \notin ToSet(line)
      BY <1>2, <2>1
    <3> HIDE DEF rest, out, line
    <3> QED
      BY <1>1, <1>4, <3>2, <3>3
  <2>2. CASE ~evicts
    <3>1. /\ Without(line, d) \in Seq(Conversation) /\ IsInjective(Without(line, d))
          /\ ToSet(Without(line, d)) = ToSet(line) \ {d}
          /\ Len(Without(line, d)) = IF d \in ToSet(line) THEN Len(line) - 1 ELSE Len(line)
      BY <1>1, WithoutFacts
    <3>2. rest = Without(line, d) /\ out = {}
      BY <2>2
    <3>3. d \in ToSet(line) \/ Len(line) + 1 <= MaxTracked
      BY <1>1, <1>2, <2>2
    <3>4. Len(rest) + 1 <= MaxTracked
      <4> HIDE DEF rest, line
      <4> QED
        BY <1>1, <3>1, <3>2, <3>3
    <3> HIDE DEF rest, line, out
    <3> QED
      BY <1>1, <3>1, <3>2, <3>4
  <2> QED
    BY <2>1, <2>2
<1> HIDE DEF rest, out
<1>6. /\ Append(rest, d) \in Seq(Conversation) /\ IsInjective(Append(rest, d))
      /\ Len(Append(rest, d)) = Len(rest) + 1
      /\ ToSet(Append(rest, d)) = ToSet(rest) \cup {d}
  BY <1>5, AppendFacts
<1>7. tracker'.order = Append(rest, d)
  BY <1>3
<1> HIDE DEF line
<1>8. /\ out \in SUBSET Conversation /\ d \notin out
      /\ tracker'.order \in Seq(Conversation) /\ IsInjective(tracker'.order)
      /\ Len(tracker'.order) <= MaxTracked
      /\ ToSet(tracker'.order) = (ToSet(line) \ out) \cup {d}
  BY <1>5, <1>6, <1>7
<1> QED
  BY <1>3, <1>7, <1>8, Zenon DEF line

LEMMA TracksKeeps ==
  ASSUME TrackerFits, Warmed, NEW d \in Conversation, NEW u \in Usage,
         NEW ms \in SUBSET ({d} \X Tool \X Nat), Tracks(d, u, ms),
         Advances(tracker.use[d], u), \A m \in ms : UsedSince(u, m[2], m[3])
  PROVE  TrackerFits' /\ Warmed'
<1>1. PICK out \in SUBSET Conversation :
           /\ d \notin out
           /\ tracker'.order \in Seq(Conversation) /\ IsInjective(tracker'.order)
           /\ Len(tracker'.order) <= MaxTracked
           /\ ToSet(tracker'.order) = (ToSet(tracker.order) \ out) \cup {d}
           /\ tracker' = [order |-> tracker'.order,
                          use |-> [o \in Conversation |-> IF o = d THEN u
                                                          ELSE IF o \in out THEN Unused
                                                          ELSE tracker.use[o]]]
           /\ misses' = {m \in misses : m[1] \notin out} \cup ms
  BY TracksOrder
<1>2. /\ \A o \in Conversation : tracker.use[o] \in Usage
      /\ Unused \in Usage
  BY TrackerTypes, UnusedIsUsage
<1>3. /\ tracker'.use \in [Conversation -> Usage] /\ tracker'.use[d] = u
      /\ \A o \in out : tracker'.use[o] = Unused
      /\ \A o \in Conversation : o # d /\ o \notin out => tracker'.use[o] = tracker.use[o]
  <2> DEFINE use == [o \in Conversation |-> IF o = d THEN u
                                            ELSE IF o \in out THEN Unused
                                            ELSE tracker.use[o]]
  <2>1. tracker'.use = use
    BY <1>1
  <2> QED
    BY <1>1, <1>2, <2>1
<1>4. misses \subseteq Conversation \X Tool \X Nat
  BY DEF TrackerFits
<1>5. TrackerFits'
  <2>1. tracker' \in [order : Seq(Conversation), use : [Conversation -> Usage]]
    BY <1>1, <1>3
  <2>2. ASSUME NEW o \in Conversation, o \notin ToSet(tracker'.order)
        PROVE  tracker'.use[o] = Unused
    <3>1. o # d /\ (o \in out \/ o \notin ToSet(tracker.order))
      BY <1>1, <2>2
    <3>2. o \notin ToSet(tracker.order) => tracker.use[o] = Unused
      BY DEF TrackerFits, Tracked
    <3> QED
      BY <1>3, <3>1, <3>2
  <2>3. misses' \subseteq Conversation \X Tool \X Nat
    <3>1. {d} \X Tool \X Nat \subseteq Conversation \X Tool \X Nat
      OBVIOUS
    <3> QED
      BY <1>1, <1>4, <3>1
  <2> QED
    BY <1>1, <2>1, <2>2, <2>3 DEF TrackerFits, Tracked
<1>6. Warmed'
  <2> SUFFICES ASSUME NEW m \in misses'
               PROVE  UsedSince(tracker'.use[m[1]], m[2], m[3])
    BY DEF Warmed
  <2>1. CASE m \in ms
    <3>1. m[1] = d
      BY <2>1
    <3> QED
      BY <1>3, <2>1, <3>1
  <2>2. CASE m \in misses /\ m[1] \notin out
    <3>1. UsedSince(tracker.use[m[1]], m[2], m[3])
      BY <2>2 DEF Warmed
    <3>2. m[1] \in Conversation /\ m[2] \in Tool /\ m[3] \in Nat
      BY <1>4, <2>2
    <3>3. CASE m[1] = d
      <4>1. UsedSince(u, m[2], m[3])
        BY <3>1, <3>2, <3>3 DEF Advances
      <4> QED
        BY <1>3, <3>3, <4>1
    <3>4. CASE m[1] # d
      BY <1>3, <2>2, <3>1, <3>2, <3>4
    <3> QED
      BY <3>3, <3>4
  <2> QED
    BY <1>1, <2>1, <2>2
<1> QED
  BY <1>5, <1>6

LEMMA SameTrackerKeeps ==
  ASSUME TrackerFits, Warmed, SameTracker
  PROVE  TrackerFits' /\ Warmed'
<1>1. tracker' = tracker /\ misses' = misses
  BY DEF SameTracker
<1>2. TrackerFits'
  BY <1>1, Zenon DEF TrackerFits, Tracked
<1>3. Warmed'
  BY <1>1, Zenon DEF Warmed
<1> QED
  BY <1>2, <1>3

LEMMA ForgetKeeps ==
  ASSUME WaysFit, TrackerFits, Warmed, NEW s \in Server, ForgetDefs(s)
  PROVE  TrackerFits' /\ Warmed'
<1> DEFINE d == way[s].dialog
           gone == way[s].todo
           u == tracker.use[d]
           v == [u EXCEPT !.defs = @ \ gone]
<1>1. way[s] \in Way
  BY UnderWay DEF ForgetDefs, Go
<1>2. d \in Conversation /\ gone \in SUBSET Tool
  BY <1>1, WayTypes
<1>3. misses' = misses /\ tracker' = [tracker EXCEPT !.use[d].defs = @ \ gone]
  BY Zenon DEF ForgetDefs
<1> HIDE DEF d, gone
<1>4. u \in Usage /\ tracker.use \in [Conversation -> Usage]
  BY <1>2, TrackerTypes
<1>5. v \in Usage /\ v.seen = u.seen /\ v.turn = u.turn
  BY <1>4 DEF Usage
<1>6. u = Unused => v = Unused
  BY DEF Unused
<1>7. tracker' = [order |-> tracker.order, use |-> [tracker.use EXCEPT ![d] = v]]
  BY <1>2, <1>3, <1>4, TrackerTypes
<1>8. /\ tracker'.order = tracker.order /\ tracker'.use \in [Conversation -> Usage]
      /\ tracker'.use[d] = v
      /\ \A o \in Conversation : o # d => tracker'.use[o] = tracker.use[o]
  BY <1>2, <1>4, <1>5, <1>7
<1> HIDE DEF v
<1>9. TrackerFits'
  <2>1. tracker' \in [order : Seq(Conversation), use : [Conversation -> Usage]]
    BY <1>7, <1>8, TrackerTypes
  <2>2. ASSUME NEW o \in Conversation, o \notin ToSet(tracker.order)
        PROVE  tracker'.use[o] = Unused
    BY <1>6, <1>8, <2>2 DEF TrackerFits, Tracked, u
  <2> QED
    BY <1>3, <1>8, <2>1, <2>2 DEF TrackerFits, Tracked
<1>10. Warmed'
  <2> SUFFICES ASSUME NEW m \in misses
               PROVE  UsedSince(tracker'.use[m[1]], m[2], m[3])
    BY <1>3 DEF Warmed
  <2>1. m[1] \in Conversation /\ UsedSince(tracker.use[m[1]], m[2], m[3])
    BY DEF TrackerFits, Warmed
  <2>2. CASE m[1] = d
    BY <1>5, <1>8, <2>1, <2>2 DEF UsedSince, u
  <2>3. CASE m[1] # d
    BY <1>8, <2>1, <2>3
  <2> QED
    BY <2>2, <2>3
<1> QED
  BY <1>9, <1>10

LEMMA ObserveKeeps ==
  ASSUME WaysFit, TrackerFits, Warmed, NEW s \in Server, ObserveTurn(s)
  PROVE  TrackerFits' /\ Warmed'
<1> DEFINE w == way[s]
           d == w.dialog
           u == tracker.use[d]
           seen == [t \in Tool |-> IF t \in w.uses THEN u.turn + 1 ELSE u.seen[t]]
           v == [u EXCEPT !.turn = u.turn + 1, !.seen = seen]
<1>1. CASE SameTracker
  BY <1>1, SameTrackerKeeps
<1>2. CASE Tracks(d, [u EXCEPT !.turn = @ + 1,
                               !.seen = [t \in Tool |-> IF t \in w.uses THEN u.turn + 1
                                                        ELSE @[t]]], {})
  <2>1. w \in Way
    BY UnderWay DEF ObserveTurn, Go
  <2>2. d \in Conversation
    BY <2>1, WayTypes
  <2> HIDE DEF d
  <2>3. /\ u \in Usage /\ u.turn \in Nat /\ u.seen \in [Tool -> Nat \cup {Never}]
        /\ DOMAIN u = {"turn", "seen", "defs", "cool"}
    BY <2>2, TrackerTypes DEF Usage
  <2>4. Tracks(d, v, {})
    BY <1>2, <2>3, Zenon
  <2>5. seen \in [Tool -> Nat \cup {Never}]
    BY <2>3
  <2>6. \A t \in Tool : seen[t] = u.turn + 1 \/ seen[t] = u.seen[t]
    OBVIOUS
  <2> HIDE DEF seen
  <2>7. v \in Usage /\ v.turn = u.turn + 1 /\ v.seen = seen
    <3> DEFINE n == u.turn + 1
    <3>1. n \in Nat
      BY <2>3
    <3> HIDE DEF n, u
    <3>2. LET x == [u EXCEPT !.turn = n, !.seen = seen]
          IN  x \in Usage /\ x.turn = n /\ x.seen = seen
      BY <2>3, <2>5, <3>1 DEF Usage
    <3> QED
      BY <3>2, Zenon DEF n, u
  <2> HIDE DEF v
  <2>8. Advances(u, v)
    BY <2>3, <2>6, <2>7 DEF Advances, UsedSince
  <2>9. {} \in SUBSET ({d} \X Tool \X Nat) /\ \A m \in {} : UsedSince(v, m[2], m[3])
    OBVIOUS
  <2> QED
    BY <2>2, <2>4, <2>7, <2>8, <2>9, TracksKeeps
<1> QED
  BY <1>1, <1>2 DEF ObserveTurn

LEMMA CooldownKeeps ==
  ASSUME WaysFit, TrackerFits, Warmed, NEW s \in Server, ConsumeCooldown(s)
  PROVE  TrackerFits' /\ Warmed'
<1> DEFINE d == way[s].dialog
           u == tracker.use[d]
           v == [u EXCEPT !.cool = @ - 1]
<1>1. CASE SameTracker
  BY <1>1, SameTrackerKeeps
<1>2. CASE u.cool > 0 /\ Tracks(d, v, {})
  <2>1. way[s] \in Way
    BY UnderWay DEF ConsumeCooldown, Go
  <2>2. d \in Conversation
    BY <2>1, WayTypes
  <2>3. u \in Usage /\ u.cool \in Nat
    BY <2>2, TrackerTypes DEF Usage
  <2> HIDE DEF d
  <2>4. v \in Usage /\ v.seen = u.seen /\ v.turn = u.turn
    BY <1>2, <2>3 DEF Usage
  <2>5. Tracks(d, v, {})
    BY <1>2
  <2> HIDE DEF v
  <2>6. Advances(u, v)
    BY <2>4 DEF Advances, UsedSince
  <2>7. {} \in SUBSET ({d} \X Tool \X Nat) /\ \A m \in {} : UsedSince(v, m[2], m[3])
    OBVIOUS
  <2> QED
    BY <2>2, <2>4, <2>5, <2>6, <2>7, TracksKeeps
<1> QED
  BY <1>1, <1>2 DEF ConsumeCooldown

LEMMA RememberKeeps ==
  ASSUME WaysFit, TrackerFits, Warmed, NEW s \in Server, RememberDef(s)
  PROVE  TrackerFits' /\ Warmed'
<1> DEFINE d == way[s].dialog
           u == tracker.use[d]
           v(t) == [u EXCEPT !.defs = @ \cup {t}]
<1>1. way[s] \in Way
  <2>1. way[s].at = "remember"
    BY Zenon DEF RememberDef
  <2>2. way[s].at # "idle"
    BY <2>1
  <2> QED
    BY <2>2, UnderWay, Zenon
<1>2. PICK t \in way[s].todo : Tracks(d, v(t), {})
  BY Zenon DEF RememberDef
<1>3. d \in Conversation /\ t \in Tool
  BY <1>1, <1>2, WayTypes
<1>4. u \in Usage
  BY <1>3, TrackerTypes
<1> HIDE DEF d
<1>5. v(t) \in Usage /\ v(t).seen = u.seen /\ v(t).turn = u.turn
  BY <1>3, <1>4 DEF Usage
<1> HIDE DEF v
<1>6. Advances(u, v(t))
  BY <1>5 DEF Advances, UsedSince
<1>7. {} \in SUBSET ({d} \X Tool \X Nat) /\ \A m \in {} : UsedSince(v(t), m[2], m[3])
  OBVIOUS
<1> QED
  BY <1>2, <1>3, <1>5, <1>6, <1>7, TracksKeeps

LEMMA MissedKeeps ==
  ASSUME TrackerFits, Warmed, NEW d \in Conversation, NEW ts \in SUBSET Tool, Missed(d, ts)
  PROVE  TrackerFits' /\ Warmed'
<1> DEFINE u == tracker.use[d]
           seen == [t \in Tool |-> IF t \in u.defs THEN u.turn ELSE u.seen[t]]
           v == [u EXCEPT !.cool = 1, !.seen = seen]
           ms == {<<d, t, u.turn>> : t \in ts \cap u.defs}
<1>1. /\ u \in Usage /\ u.turn \in Nat /\ u.seen \in [Tool -> Nat \cup {Never}]
      /\ DOMAIN u = {"turn", "seen", "defs", "cool"}
  BY TrackerTypes DEF Usage
<1>2. Tracks(d, v, ms)
  BY <1>1, Zenon DEF Missed
<1>3. seen \in [Tool -> Nat \cup {Never}]
  BY <1>1
<1>4. \A t \in Tool : seen[t] = IF t \in u.defs THEN u.turn ELSE u.seen[t]
  OBVIOUS
<1> HIDE DEF seen
<1>5. v \in Usage /\ v.turn = u.turn /\ v.seen = seen
  BY <1>1, <1>3 DEF Usage
<1> HIDE DEF v
<1>6. Advances(u, v)
  BY <1>1, <1>4, <1>5 DEF Advances, UsedSince
<1>7. ms \in SUBSET ({d} \X Tool \X Nat)
  BY <1>1
<1>8. ASSUME NEW m \in ms
      PROVE  UsedSince(v, m[2], m[3])
  <2>1. PICK t \in ts \cap u.defs : m = <<d, t, u.turn>>
    OBVIOUS
  <2>2. seen[t] = u.turn
    BY <1>4, <2>1
  <2>3. m[2] = t /\ m[3] = u.turn
    BY <2>1
  <2> QED
    BY <1>1, <1>5, <2>2, <2>3 DEF UsedSince
<1> HIDE DEF ms
<1> QED
  BY <1>2, <1>5, <1>6, <1>7, <1>8, TracksKeeps

LEMMA PruneFacts ==
  ASSUME WaysFit, TrackerFits, Warmed, NEW s \in Server, Prune(s)
  PROVE  TrackerFits' /\ Warmed' /\ \E v : PreparedTo(s, v)
<1>1. CASE Mention(s)
  BY <1>1, MentionWay, SameTrackerKeeps, Zenon DEF Mention
<1>2. CASE Peek(s)
  BY <1>2, PeekWay, SameTrackerKeeps, Zenon DEF Peek
<1>3. CASE ForgetDefs(s)
  BY <1>3, TurnWay, ForgetKeeps, Zenon
<1>4. CASE ObserveTurn(s)
  BY <1>4, TurnWay, ObserveKeeps, Zenon
<1>5. CASE ConsumeCooldown(s)
  BY <1>5, TurnWay, CooldownKeeps, Zenon
<1>6. CASE JudgeTool(s)
  BY <1>6, JudgeWay, SameTrackerKeeps, Zenon DEF JudgeTool
<1>7. CASE KeepOne(s)
  BY <1>7, KeepWay, SameTrackerKeeps, Zenon DEF KeepOne
<1>8. CASE RememberDef(s)
  BY <1>8, RememberWay, RememberKeeps, Zenon
<1> QED
  BY <1>1, <1>2, <1>3, <1>4, <1>5, <1>6, <1>7, <1>8, Zenon DEF Prune

-----------------------------------------------------------------------------
(* What is sent: one of the bodies, rewritten or not.                      *)
LEMMA WholeBody ==
  ASSUME NEW w \in Way, NEW tools \in SUBSET Tool, NEW hints \in BOOLEAN
  PROVE  LET b == Whole(w, tools, hints)
         IN  /\ b \in Sendable /\ b.items = w.own.items /\ b.prev = w.own.prev
             /\ b.tools = tools /\ b.hints = hints
<1>1. w.own \in Sendable
  BY WayTypes
<1> QED
  BY <1>1 DEF Whole, Sendable

LEMMA RewrittenBody ==
  ASSUME NEW w \in Way, NEW body \in Sendable, NEW id \in Id
  PROVE  LET b == Rewritten(w, body, id)
         IN  /\ b \in Sendable /\ b.tools = body.tools /\ b.hints = body.hints
             /\ IF id = NoId \/ w.last = NoTurn THEN b = body
                ELSE b.prev = id /\ b.items = {w.last}
<1>1. CASE id = NoId \/ w.last = NoTurn
  BY <1>1 DEF Rewritten
<1>2. CASE ~(id = NoId \/ w.last = NoTurn)
  <2>1. w.last \in Entry
    BY <1>2 DEF Way
  <2> DEFINE b == [body EXCEPT !.items = {w.last}, !.prev = id]
  <2>2. /\ b \in Sendable /\ b.tools = body.tools /\ b.hints = body.hints
        /\ b.prev = id /\ b.items = {w.last}
    BY <2>1 DEF Sendable
  <2>3. Rewritten(w, body, id) = b
    BY <1>2, Zenon DEF Rewritten
  <2> HIDE DEF b
  <2> QED
    BY <1>2, <2>2, <2>3
<1> QED
  BY <1>1, <1>2

LEMMA KeptTools ==
  ASSUME NEW w \in Way
  PROVE  Kept(w) \in SUBSET Tool
BY WayTypes DEF Kept

(* Hints are added, the history is replaced by an id.                      *)
LEMMA HintWay ==
  ASSUME WaysFit, NEW s \in Server, AddHints(s)
  PROVE  \E v : PreparedTo(s, v) /\ v.at # "judge"
<1> DEFINE w == way[s]
           hinted == "hints" \in world.levers /\ ~rejected
           v == [w EXCEPT !.at = "rewrite", !.hinted = hinted]
<1>1. w \in Way /\ w.at = "hint"
  BY UnderWay DEF AddHints, Go
<1>2. way' = [way EXCEPT ![s] = v]
  BY Zenon DEF AddHints, Go
<1>3. hinted \in BOOLEAN /\ {"hint", "rewrite"} \subseteq Early /\ "rewrite" \in Place
  BY DEF Early, Place
<1> HIDE DEF hinted, w
<1>4. v \in Way
  BY <1>1, <1>3 DEF Way
<1>5. SameRequest(w, v) /\ v.at = "rewrite"
  BY <1>1 DEF SameRequest, Way
<1>6. v.full = w.full /\ v.stage = w.stage /\ v.again = w.again /\ v.accepted = w.accepted
  BY <1>1 DEF Way
<1>7. Prepared(w, v) /\ v.at # "judge"
  BY <1>1, <1>3, <1>4, <1>5, <1>6 DEF Prepared
<1> HIDE DEF v
<1> QED
  BY <1>2, <1>7, Zenon DEF PreparedTo, w

(* From then on a request keeps what was made of it.                       *)
Made(w, v) ==
  /\ w \in Way /\ v \in Way /\ SameRequest(w, v)
  /\ v.full = w.full /\ v.dropped = w.dropped /\ v.hinted = w.hinted
AsMade(w, v) ==
  /\ Made(w, v) /\ v.anchored = w.anchored /\ v.stage = w.stage /\ v.sent = w.sent

(* What the proxy sends: the client's request with the tools it keeps, its *)
(* hints, and the id the store has of its conversation.                    *)
AnchorOf(w) == IF "anchor" \in world.levers THEN anchor.id[w.dialog] ELSE NoId
SentFirst(w, v) ==
  /\ w.at \in Early /\ v.at = "send" /\ Made(w, v)
  /\ v.stage = w.stage /\ v.again = w.again /\ v.accepted = w.accepted
  /\ v.anchored = (AnchorOf(w) # NoId /\ w.last # NoTurn)
  /\ v.sent = Rewritten(w, Whole(w, Kept(w), w.hinted), AnchorOf(w))

LEMMA AnchorIds ==
  ASSUME AnchorFits, UpstreamFits, NEW w \in Way
  PROVE  AnchorOf(w) \in Id /\ anchor.id[w.dialog] \in Id /\ AnchorNow(w) \in Id
<1>1. w.dialog \in Conversation
  BY WayTypes
<1>2. anchor.id[w.dialog] \in 1 .. ids \cup {NoId} /\ ids \in Nat
  BY <1>1 DEF AnchorFits, UpstreamFits
<1> QED
  BY <1>2 DEF AnchorOf, AnchorNow, Id

LEMMA AnchorWay ==
  ASSUME WaysFit, AnchorFits, UpstreamFits, NEW s \in Server, UseAnchor(s)
  PROVE  \E v : way' = [way EXCEPT ![s] = v] /\ SentFirst(way[s], v)
<1> DEFINE w == way[s]
           id == AnchorOf(w)
           body == Whole(w, Kept(w), w.hinted)
           anchored == id # NoId /\ w.last # NoTurn
           sent == Rewritten(w, body, id)
           v == [w EXCEPT !.at = "send", !.sent = sent, !.anchored = anchored]
<1>1. w \in Way /\ w.at = "rewrite" /\ w.at \in Early
  BY UnderWay DEF UseAnchor, Go, Early
<1>2. way' = [way EXCEPT ![s] = v]
  BY Zenon DEF UseAnchor, Go, AnchorOf
<1> HIDE DEF w
<1>3. w.hinted \in BOOLEAN
  BY <1>1 DEF Way
<1>4. body \in Sendable
  BY <1>1, <1>3, KeptTools, WholeBody
<1>5. sent \in Sendable
  BY <1>1, <1>4, AnchorIds, RewrittenBody
<1>6. anchored \in BOOLEAN /\ "send" \in Place
  BY DEF Place, Attempt
<1> HIDE DEF sent, anchored
<1>7. v \in Way
  BY <1>1, <1>5, <1>6 DEF Way
<1>8. SameRequest(w, v) /\ v.at = "send" /\ v.sent = sent /\ v.anchored = anchored
  BY <1>1 DEF SameRequest, Way
<1>9. /\ v.full = w.full /\ v.dropped = w.dropped /\ v.hinted = w.hinted
      /\ v.stage = w.stage /\ v.again = w.again /\ v.accepted = w.accepted
  BY <1>1 DEF Way
<1> HIDE DEF v
<1>10. SentFirst(w, v)
  BY <1>1, <1>7, <1>8, <1>9, Zenon DEF SentFirst, Made, sent, anchored
<1> QED
  BY <1>2, <1>10, Zenon DEF w

(* What an attempt comes to.                                               *)
FromOf(w) == Body(w).items \cup (IF Body(w).prev = NoId THEN {} ELSE known[Body(w).prev])
Takes(w) ==
  /\ ids' = ids + 1 /\ DOMAIN known' = DOMAIN known \cup {ids'}
  /\ known'[ids'] = FromOf(w) \cup {ReplyItem(ids')}
  /\ Body(w).prev # NoId => Body(w).prev \in DOMAIN known
  /\ \A id \in DOMAIN known : id # ids' => known'[id] = known[id]
Retried(w, v) ==
  AsMade(w, v) /\ v.at \in Attempt /\ v.again = w.again /\ v.accepted = w.accepted
Turned(w, v) ==
  /\ AsMade(w, v) /\ v.at = "answered" /\ v.again = w.again /\ v.accepted = w.accepted
  /\ v.resp # "ok" /\ (v.resp \in {"hints", "missing", "unknown"} => Refuses(w, v.resp))
AnswerTo(w, v) ==
  /\ AsMade(w, v) /\ v.at = "answered" /\ v.again = w.again /\ v.accepted = w.accepted + 1
  /\ v.resp = "ok" /\ v.id = ids' /\ v.from = FromOf(w) /\ w.accepted \in Nat
LostAnswer(w, v) == AsMade(w, v) /\ v.at = "original" /\ v.again = TRUE

LEMMA RefusedWay ==
  ASSUME NEW w \in Way, w.at \in Attempt, NEW resp \in Response, resp # "ok",
         resp \in {"hints", "missing", "unknown"} => Refuses(w, resp)
  PROVE  Turned(w, Answered(w, resp))
<1> DEFINE v == Answered(w, resp)
<1>1. v = [w EXCEPT !.at = "answered", !.resp = resp] /\ "answered" \in Place
  BY DEF Answered, Place
<1> HIDE DEF v
<1>2. v \in Way
  BY <1>1 DEF Way
<1>3. SameRequest(w, v)
  BY <1>1 DEF SameRequest, Way
<1>4. /\ v.full = w.full /\ v.dropped = w.dropped /\ v.hinted = w.hinted
      /\ v.anchored = w.anchored /\ v.stage = w.stage /\ v.sent = w.sent
  BY <1>1 DEF Way
<1>5. v.at = "answered" /\ v.again = w.again /\ v.accepted = w.accepted /\ v.resp = resp
  BY <1>1 DEF Way
<1> QED
  BY <1>2, <1>3, <1>4, <1>5 DEF Turned, AsMade, Made, v

LEMMA RetriedWay ==
  ASSUME NEW w \in Way, w.at \in Attempt, NEW at \in Attempt, NEW n \in 0 .. MaxRetries
  PROVE  /\ Retried(w, [w EXCEPT !.tries = n])
         /\ Retried(w, [w EXCEPT !.at = at])
         /\ Retried(w, Original(w))
<1>1. ASSUME NEW v \in Way, NEW place \in Attempt,
             v = [w EXCEPT !.tries = n] \/ v = [w EXCEPT !.at = place]
      PROVE  Retried(w, v)
  <2>1. v.at \in Attempt /\ SameRequest(w, v)
    BY <1>1 DEF SameRequest, Way
  <2>2. /\ v.full = w.full /\ v.dropped = w.dropped /\ v.hinted = w.hinted
        /\ v.anchored = w.anchored /\ v.stage = w.stage /\ v.sent = w.sent
        /\ v.again = w.again /\ v.accepted = w.accepted
    BY <1>1 DEF Way
  <2> QED
    BY <2>1, <2>2 DEF Retried, AsMade, Made
<1>2. Attempt \subseteq Place /\ "original" \in Attempt
  BY DEF Attempt, Place
<1>3. [w EXCEPT !.tries = n] \in Way /\ \A place \in Attempt : [w EXCEPT !.at = place] \in Way
  BY <1>2 DEF Way
<1> QED
  BY <1>1, <1>2, <1>3, Zenon DEF Original

LEMMA TakenWay ==
  ASSUME NEW w \in Way, w.at \in Attempt, NEW id \in Nat, id = ids',
         FromOf(w) \in SUBSET Entry
  PROVE  LET taken == [w EXCEPT !.accepted = @ + 1]
         IN  /\ AnswerTo(w, [Answered(taken, "ok") EXCEPT !.id = id, !.from = FromOf(w)])
             /\ LostAnswer(w, [Original(taken) EXCEPT !.again = TRUE])
<1> DEFINE n == w.accepted + 1
           from == FromOf(w)
           taken == [w EXCEPT !.accepted = @ + 1]
           v == [w EXCEPT !.accepted = n, !.at = "answered", !.resp = "ok", !.id = id,
                          !.from = from]
           u == [w EXCEPT !.accepted = n, !.at = "original", !.again = TRUE]
<1>1. w.accepted \in Nat /\ n \in Nat
  BY DEF Way
<1>2. taken = [w EXCEPT !.accepted = n]
  BY Zenon
<1>3. /\ [Answered(taken, "ok") EXCEPT !.id = id, !.from = from] = v
      /\ [Original(taken) EXCEPT !.again = TRUE] = u
  <2> HIDE DEF n, taken, from
  <2>1. [Answered(taken, "ok") EXCEPT !.id = id, !.from = from] = v
    BY <1>2 DEF Answered, Way
  <2>2. [Original(taken) EXCEPT !.again = TRUE] = u
    BY <1>2 DEF Original, Way
  <2> QED
    BY <2>1, <2>2
<1>4. {"answered", "original"} \subseteq Place /\ "ok" \in Response /\ id \in Id
  BY DEF Place, Attempt, Response, Id
<1> HIDE DEF n, taken, from
<1>5. v \in Way /\ u \in Way
  BY <1>1, <1>4 DEF Way, from
<1>6. SameRequest(w, v) /\ SameRequest(w, u)
  BY DEF SameRequest, Way
<1>7. /\ v.full = w.full /\ v.dropped = w.dropped /\ v.hinted = w.hinted
      /\ v.anchored = w.anchored /\ v.stage = w.stage /\ v.sent = w.sent
      /\ u.full = w.full /\ u.dropped = w.dropped /\ u.hinted = w.hinted
      /\ u.anchored = w.anchored /\ u.stage = w.stage /\ u.sent = w.sent
  BY DEF Way
<1>8. /\ v.at = "answered" /\ v.again = w.again /\ v.accepted = n /\ v.resp = "ok"
      /\ v.id = id /\ v.from = from /\ u.at = "original" /\ u.again = TRUE
  BY DEF Way
<1> HIDE DEF v, u
<1>9. AnswerTo(w, v)
  BY <1>1, <1>5, <1>6, <1>7, <1>8 DEF AnswerTo, AsMade, Made, n, from
<1>10. LostAnswer(w, u)
  BY <1>5, <1>6, <1>7, <1>8 DEF LostAnswer, AsMade, Made
<1> QED
  BY <1>3, <1>9, <1>10, Zenon DEF taken, from

LEMMA BodyFits ==
  ASSUME NEW w \in Way
  PROVE  /\ Body(w) \in Sendable /\ Body(w).items \in SUBSET Entry
         /\ Body(w).tools \in SUBSET Tool /\ Body(w).hints \in BOOLEAN /\ Body(w).prev \in Id
<1>1. Body(w) \in Sendable
  BY WayTypes DEF Body
<1> QED
  BY <1>1 DEF Sendable

LEMMA AcceptsFacts ==
  ASSUME WaysFit, UpstreamFits, NEW s \in Server, way[s].at \in Attempt, Accepts(s)
  PROVE  /\ UpstreamFits' /\ Takes(way[s])
         /\ \E v : /\ way' = [way EXCEPT ![s] = v]
                   /\ v = Idle \/ AnswerTo(way[s], v) \/ Retried(way[s], v)
                      \/ LostAnswer(way[s], v)
<1> DEFINE w == way[s]
           from == FromOf(w)
           taken == [w EXCEPT !.accepted = @ + 1]
<1>1. w.at # "idle"
  BY DEF Attempt
<1>2. w \in Way /\ w.at \in Attempt
  BY <1>1, UnderWay
<1>3. /\ ~Refuses(w, "unknown") /\ ids' = ids + 1
      /\ known' = [id \in DOMAIN known \cup {ids'} |->
                     IF id = ids' THEN from \cup {ReplyItem(id)} ELSE known[id]]
  BY Zenon DEF Accepts, FromOf
<1>4. \/ way' = [way EXCEPT ![s] = [Answered(taken, "ok") EXCEPT !.id = ids', !.from = from]]
      \/ way' = [way EXCEPT ![s] = [Original(taken) EXCEPT !.again = TRUE]]
      \/ way' = [way EXCEPT ![s] = Idle]
  BY Zenon DEF Accepts, Go, FromOf
<1> HIDE DEF w, taken
<1>5. ids \in Nat /\ ids' \in Nat
  BY <1>3 DEF UpstreamFits
<1>6. from \in SUBSET Entry
  <2>1. /\ Body(w).items \in SUBSET Entry
        /\ Body(w).prev # NoId => Body(w).prev \in DOMAIN known
    BY <1>2, <1>3, BodyFits DEF Refuses
  <2>2. \A id \in DOMAIN known : known[id] \in SUBSET Entry
    BY DEF UpstreamFits
  <2> QED
    BY <2>1, <2>2 DEF FromOf
<1>7. ReplyItem(ids') \in Entry
  BY <1>5 DEF ReplyItem, Entry
<1> HIDE DEF from
<1>8. UpstreamFits'
  <2>1. DOMAIN known' \subseteq 1 .. ids'
    BY <1>3, <1>5 DEF UpstreamFits
  <2>2. known' \in [DOMAIN known' -> SUBSET Entry]
    BY <1>3, <1>6, <1>7 DEF UpstreamFits
  <2> QED
    BY <1>5, <2>1, <2>2 DEF UpstreamFits
<1>9. Takes(w)
  <2>1. Body(w).prev # NoId => Body(w).prev \in DOMAIN known
    BY <1>3 DEF Refuses
  <2> QED
    BY <1>3, <2>1 DEF Takes, from
<1>10. /\ AnswerTo(w, [Answered(taken, "ok") EXCEPT !.id = ids', !.from = from])
       /\ LostAnswer(w, [Original(taken) EXCEPT !.again = TRUE])
  BY <1>2, <1>5, <1>6, TakenWay DEF from, taken
<1> QED
  BY <1>4, <1>8, <1>9, <1>10, Zenon DEF w

-----------------------------------------------------------------------------
(* What the upstream makes of a body, and the next body after a refusal.   *)
UpstreamSame == known' = known /\ ids' = ids

LEMMA TroubleFacts ==
  ASSUME WaysFit, NEW s \in Server, way[s].at \in Attempt,
         UpstreamRefuses(s) \/ UpstreamTroubled(s) \/ Unreachable(s)
  PROVE  /\ UpstreamSame
         /\ \E v : /\ way' = [way EXCEPT ![s] = v]
                   /\ v = Idle \/ Turned(way[s], v) \/ Retried(way[s], v)
<1> DEFINE w == way[s]
<1>1. w.at # "idle"
  BY DEF Attempt
<1>2. w \in Way /\ w.at \in Attempt
  BY <1>1, UnderWay
<1>3. {"hints", "missing", "unknown", "busy", "error"} \subseteq Response \ {"ok"}
  BY DEF Response
<1>4. Retried(w, Original(w)) /\ \A at \in Attempt : Retried(w, [w EXCEPT !.at = at])
  <2>1. 0 \in 0 .. MaxRetries
    BY DEF MaxRetries
  <2> HIDE DEF w
  <2> QED
    BY <1>2, <2>1, RetriedWay, Zenon
<1>5. CASE UpstreamRefuses(s)
  <2>1. UpstreamSame
    BY <1>5 DEF UpstreamRefuses, upstreamVars, UpstreamSame
  <2>2. PICK resp \in {"hints", "missing", "unknown"} :
          /\ Refuses(w, resp)
          /\ \/ way' = [way EXCEPT ![s] = Answered(w, resp)]
             \/ way' = [way EXCEPT ![s] = Original(w)]
    BY <1>5, Zenon DEF UpstreamRefuses, Go
  <2>3. Turned(w, Answered(w, resp))
    BY <1>2, <1>3, <2>2, RefusedWay
  <2> QED
    BY <1>4, <2>1, <2>2, <2>3, Zenon
<1>6. CASE UpstreamTroubled(s)
  <2>1. UpstreamSame
    BY <1>6 DEF UpstreamTroubled, upstreamVars, UpstreamSame
  <2>2. \/ w.tries < MaxRetries /\ way' = [way EXCEPT ![s] = [w EXCEPT !.tries = @ + 1]]
        \/ \E resp \in {"busy", "error"} : way' = [way EXCEPT ![s] = Answered(w, resp)]
        \/ \E at \in {"aggressive", "original"} : way' = [way EXCEPT ![s] = [w EXCEPT !.at = at]]
        \/ way' = [way EXCEPT ![s] = Original(w)]
    BY <1>6, Zenon DEF UpstreamTroubled, Go
  <2>3. CASE w.tries < MaxRetries /\ way' = [way EXCEPT ![s] = [w EXCEPT !.tries = @ + 1]]
    <3> DEFINE n == w.tries + 1
    <3>1. n \in 0 .. MaxRetries
      BY <1>2, <2>3 DEF Way, MaxRetries
    <3>2. way' = [way EXCEPT ![s] = [w EXCEPT !.tries = n]]
      BY <2>3, Zenon
    <3> HIDE DEF n
    <3>3. Retried(w, [w EXCEPT !.tries = n])
      BY <1>2, <3>1, RetriedWay
    <3> QED
      BY <2>1, <3>2, <3>3, Zenon
  <2>4. CASE \E resp \in {"busy", "error"} : way' = [way EXCEPT ![s] = Answered(w, resp)]
    <3>1. PICK resp \in {"busy", "error"} : way' = [way EXCEPT ![s] = Answered(w, resp)]
      BY <2>4
    <3>2. Turned(w, Answered(w, resp))
      BY <1>2, <1>3, RefusedWay
    <3> QED
      BY <2>1, <3>1, <3>2, Zenon
  <2>5. CASE \E at \in {"aggressive", "original"} : way' = [way EXCEPT ![s] = [w EXCEPT !.at = at]]
    <3>1. PICK at \in {"aggressive", "original"} : way' = [way EXCEPT ![s] = [w EXCEPT !.at = at]]
      BY <2>5
    <3>2. at \in Attempt
      BY DEF Attempt
    <3>3. Retried(w, [w EXCEPT !.at = at])
      BY <1>4, <3>2, Zenon
    <3> QED
      BY <2>1, <3>1, <3>3, Zenon
  <2> QED
    BY <1>4, <2>1, <2>2, <2>3, <2>4, <2>5, Zenon
<1>7. CASE Unreachable(s)
  <2>1. UpstreamSame
    BY <1>7 DEF Unreachable, upstreamVars, UpstreamSame
  <2>2. way' = [way EXCEPT ![s] = Original(w)] \/ way' = [way EXCEPT ![s] = Idle]
    BY <1>7, Zenon DEF Unreachable, Go
  <2> QED
    BY <1>4, <2>1, <2>2, Zenon
<1> QED
  BY <1>5, <1>6, <1>7, Zenon

(* An attempt: how it may end, and what the upstream makes of it.          *)
Sent(s, v) ==
  /\ way[s] \in Way /\ way[s].at \in Attempt /\ way' = [way EXCEPT ![s] = v]
  /\ \/ UpstreamSame /\ (v = Idle \/ Turned(way[s], v) \/ Retried(way[s], v))
     \/ Takes(way[s]) /\ (v = Idle \/ AnswerTo(way[s], v) \/ Retried(way[s], v)
                                   \/ LostAnswer(way[s], v))

LEMMA SendFacts ==
  ASSUME WaysFit, UpstreamFits, NEW s \in Server, Send(s)
  PROVE  UpstreamFits' /\ ids' \in Nat /\ ids <= ids' /\ \E v : Sent(s, v)
<1>1. way[s].at \in Attempt
  BY Zenon DEF Send
<1>2. way[s].at # "idle"
  BY <1>1 DEF Attempt
<1>3. way[s] \in Way
  BY <1>2, UnderWay
<1>4. CASE Accepts(s)
  <2>1. UpstreamFits' /\ Takes(way[s]) /\ \E v : Sent(s, v)
    BY <1>1, <1>3, <1>4, AcceptsFacts, Zenon DEF Sent
  <2> QED
    BY <2>1 DEF Takes, UpstreamFits
<1>5. ASSUME UpstreamSame
      PROVE  UpstreamFits' /\ ids' \in Nat /\ ids <= ids'
  BY <1>5 DEF UpstreamSame, UpstreamFits
<1>6. CASE UpstreamRefuses(s) \/ UpstreamTroubled(s) \/ Unreachable(s)
  <2>1. UpstreamSame /\ \E v : Sent(s, v)
    BY <1>1, <1>3, <1>6, TroubleFacts, Zenon DEF Sent
  <2> QED
    BY <1>5, <2>1
<1>7. CASE way' = [way EXCEPT ![s] = Idle] /\ UNCHANGED upstreamVars
  <2>1. UpstreamSame
    BY <1>7 DEF upstreamVars, UpstreamSame
  <2>2. Sent(s, Idle)
    BY <1>1, <1>3, <1>7, <2>1, Zenon DEF Sent
  <2> QED
    BY <1>5, <2>1, <2>2
<1> QED
  BY <1>4, <1>6, <1>7, Zenon DEF Send

(* An answer has the upstream's number.                                    *)
HasAnswer(w) == w.at = "store" \/ (w.at = "answered" /\ w.resp = "ok")
Numbered ==
  \A s \in Server : way[s].at # "idle" /\ HasAnswer(way[s]) => way[s].id \in 1 .. ids

(* One more request to the upstream: without the hints, with all tools,    *)
(* without the id.                                                         *)
Resent(w, v, stage, body) ==
  /\ Made(w, v) /\ v.at = "send" /\ v.stage = stage /\ v.sent = body
  /\ v.anchored = w.anchored /\ v.again = w.again /\ v.accepted = w.accepted

LEMMA ResendWay ==
  ASSUME NEW s \in Server, way[s] \in Way, NEW stage \in 1 .. 4, NEW body \in Sendable,
         Resend(s, stage, body)
  PROVE  \E v : way' = [way EXCEPT ![s] = v] /\ Resent(way[s], v, stage, body)
<1> DEFINE w == way[s]
           v == [w EXCEPT !.at = "send", !.tries = 0, !.stage = stage, !.sent = body]
<1>1. way' = [way EXCEPT ![s] = v]
  BY DEF Resend
<1>2. "send" \in Place /\ 0 \in 0 .. MaxRetries
  BY DEF Place, Attempt, MaxRetries
<1> HIDE DEF w
<1>3. w \in Way
  BY DEF w
<1>4. v \in Way
  BY <1>2, <1>3 DEF Way
<1>5. SameRequest(w, v)
  BY <1>3 DEF SameRequest, Way
<1>6. /\ v.full = w.full /\ v.dropped = w.dropped /\ v.hinted = w.hinted
      /\ v.anchored = w.anchored /\ v.again = w.again /\ v.accepted = w.accepted
      /\ v.at = "send" /\ v.stage = stage /\ v.sent = body
  BY <1>3 DEF Way
<1>7. Resent(w, v, stage, body)
  BY <1>3, <1>4, <1>5, <1>6 DEF Resent, Made
<1> HIDE DEF v
<1> QED
  BY <1>1, <1>7, Zenon DEF w

WithoutHints(w) == Rewritten(w, Whole(w, Kept(w), FALSE), AnchorNow(w))
WithAllTools(w) == Rewritten(w, Whole(w, w.full, FALSE), AnchorNow(w))
WithoutId(w) == Whole(w, Kept(w), w.hinted)

LEMMA RetriesAreBodies ==
  ASSUME AnchorFits, UpstreamFits, NEW w \in Way
  PROVE  WithoutHints(w) \in Sendable /\ WithAllTools(w) \in Sendable /\ WithoutId(w) \in Sendable
<1>1. Kept(w) \in SUBSET Tool /\ w.full \in SUBSET Tool
  BY KeptTools, WayTypes
<1>2. w.hinted \in BOOLEAN
  BY DEF Way
<1>3. AnchorNow(w) \in Id
  BY AnchorIds
<1>4. /\ Whole(w, Kept(w), FALSE) \in Sendable /\ Whole(w, w.full, FALSE) \in Sendable
      /\ Whole(w, Kept(w), w.hinted) \in Sendable
  BY <1>1, <1>2, WholeBody
<1> QED
  BY <1>3, <1>4, RewrittenBody DEF WithoutHints, WithAllTools, WithoutId

(* What the store of ids does.                                             *)
-----------------------------------------------------------------------------
(* The store of answers' ids, which keeps to its limit.                    *)
AnchorDrops(d) ==
  anchor' = [order |-> Others(d), id |-> [anchor.id EXCEPT ![d] = NoId]]
AnchorStores(d, id) ==
  LET order == Append(Others(d), d)
      full == Len(order) > MaxAnchors
  IN  anchor' = [order |-> IF full THEN Tail(order) ELSE order,
                 id |-> [o \in Conversation |-> IF o = d THEN id
                                                ELSE IF full /\ o = Head(order) THEN NoId
                                                ELSE anchor.id[o]]]

LEMMA AnchorTypes ==
  ASSUME AnchorFits
  PROVE  /\ anchor.order \in Seq(Conversation) /\ Len(anchor.order) \in Nat
         /\ anchor.id \in [Conversation -> 1 .. ids \cup {NoId}]
         /\ IsInjective(anchor.order) /\ Len(anchor.order) <= MaxAnchors
         /\ \A d \in Conversation : anchor.id[d] = NoId <=> d \notin ToSet(anchor.order)
BY LenProperties DEF AnchorFits

LEMMA DropsKeeps ==
  ASSUME AnchorFits, NEW d \in Conversation, AnchorDrops(d), ids' = ids
  PROVE  /\ AnchorFits'
         /\ \A o \in Conversation : anchor'.id[o] = IF o = d THEN NoId ELSE anchor.id[o]
<1>1. /\ Others(d) \in Seq(Conversation) /\ IsInjective(Others(d))
      /\ ToSet(Others(d)) = ToSet(anchor.order) \ {d}
      /\ Len(Others(d)) <= Len(anchor.order) /\ Len(Others(d)) \in Nat
  <2>1. /\ Others(d) \in Seq(Conversation) /\ IsInjective(Others(d))
        /\ ToSet(Others(d)) = ToSet(anchor.order) \ {d}
        /\ Len(Others(d)) = IF d \in ToSet(anchor.order) THEN Len(anchor.order) - 1
                            ELSE Len(anchor.order)
    BY AnchorTypes, WithoutFacts DEF Others
  <2>2. Len(Others(d)) \in Nat
    BY <2>1, LenProperties
  <2>3. Len(Others(d)) <= Len(anchor.order)
    <3> DEFINE n == Len(anchor.order)
               m == Len(Others(d))
    <3>1. n \in Nat /\ (m = n - 1 \/ m = n)
      BY <2>1, AnchorTypes
    <3> HIDE DEF m, n
    <3>2. m <= n
      BY <3>1
    <3> QED
      BY <3>2 DEF m, n
  <2> QED
    BY <2>1, <2>2, <2>3
<1> DEFINE id == [anchor.id EXCEPT ![d] = NoId]
<1>2. /\ id \in [Conversation -> 1 .. ids \cup {NoId}]
      /\ \A o \in Conversation : id[o] = IF o = d THEN NoId ELSE anchor.id[o]
  BY AnchorTypes
<1> HIDE DEF id
<1>3. anchor' = [order |-> Others(d), id |-> id]
  BY DEF AnchorDrops, id
<1>4. anchor'.order = Others(d) /\ anchor'.id = id
  BY <1>3
<1>5. Len(Others(d)) <= MaxAnchors
  BY <1>1, AnchorTypes, RequestPathAssumption
<1>6. \A o \in Conversation : id[o] = NoId <=> o \notin ToSet(Others(d))
  BY <1>1, <1>2, AnchorTypes
<1> QED
  BY <1>1, <1>2, <1>3, <1>4, <1>5, <1>6 DEF AnchorFits

LEMMA StoresKeeps ==
  ASSUME AnchorFits, NEW d \in Conversation, NEW id \in 1 .. ids, ids \in Nat, ids' = ids,
         AnchorStores(d, id)
  PROVE  /\ AnchorFits' /\ anchor'.id[d] = id
         /\ \A o \in Conversation : o # d => anchor'.id[o] \in {anchor.id[o], NoId}
<1> DEFINE rest == Others(d)
           order == Append(rest, d)
           full == Len(order) > MaxAnchors
           line == IF full THEN Tail(order) ELSE order
           has == [o \in Conversation |-> IF o = d THEN id
                                          ELSE IF full /\ o = Head(order) THEN NoId
                                          ELSE anchor.id[o]]
<1>1. /\ rest \in Seq(Conversation) /\ IsInjective(rest)
      /\ ToSet(rest) = ToSet(anchor.order) \ {d}
      /\ Len(rest) \in Nat /\ Len(rest) <= MaxAnchors
  <2>1. /\ rest \in Seq(Conversation) /\ IsInjective(rest)
        /\ ToSet(rest) = ToSet(anchor.order) \ {d}
        /\ Len(rest) = IF d \in ToSet(anchor.order) THEN Len(anchor.order) - 1
                       ELSE Len(anchor.order)
    BY AnchorTypes, WithoutFacts DEF Others
  <2>2. Len(rest) \in Nat
    BY <2>1, LenProperties
  <2>3. Len(rest) <= MaxAnchors
    <3> DEFINE n == Len(anchor.order)
               m == Len(rest)
    <3>1. n \in Nat /\ (m = n - 1 \/ m = n) /\ n <= MaxAnchors /\ MaxAnchors \in Nat
      BY <2>1, AnchorTypes, RequestPathAssumption
    <3> HIDE DEF m, n
    <3>2. m <= MaxAnchors
      BY <3>1
    <3> QED
      BY <3>2 DEF m
  <2> QED
    BY <2>1, <2>2, <2>3
<1>2. anchor' = [order |-> line, id |-> has]
  BY Zenon DEF AnchorStores
<1>3. anchor'.order = line /\ anchor'.id = has
  BY <1>2
<1> HIDE DEF rest
<1>4. /\ order \in Seq(Conversation) /\ Len(order) = Len(rest) + 1 /\ order # << >>
      /\ ToSet(order) = ToSet(rest) \cup {d} /\ IsInjective(order)
  BY <1>1, AppendFacts
<1> HIDE DEF order
<1>5. /\ Tail(order) \in Seq(Conversation) /\ IsInjective(Tail(order))
      /\ Len(Tail(order)) = Len(order) - 1 /\ Head(order) \in ToSet(order)
      /\ ToSet(Tail(order)) = ToSet(order) \ {Head(order)}
  BY <1>4, TailFacts
<1>6. /\ MaxAnchors \in Nat \ {0} /\ Len(order) <= MaxAnchors + 1 /\ Len(order) \in Nat
      /\ NoId \notin 1 .. ids
  <2>1. MaxAnchors \in Nat \ {0} /\ NoId \notin 1 .. ids
    BY RequestPathAssumption
  <2> QED
    BY <1>1, <1>4, <2>1
<1>7. full => Head(order) # d
  <2>1. ASSUME full
        PROVE  rest # << >>
    <3>1. Len(rest) # 0
      BY <1>4, <1>1, <1>6, <2>1
    <3> QED
      BY <3>1, <1>1, EmptySeq
  <2>2. rest # << >> => Head(order) = rest[1] /\ rest[1] \in ToSet(rest)
    <3> SUFFICES ASSUME rest # << >>
                 PROVE  Head(order) = rest[1] /\ rest[1] \in ToSet(rest)
      OBVIOUS
    <3>1. 1 \in 1 .. Len(rest) /\ DOMAIN rest = 1 .. Len(rest)
      BY <1>1, EmptySeq, LenProperties
    <3>2. order[1] = rest[1]
      BY <1>1, <3>1, AppendProperties DEF order
    <3>3. Head(order) = order[1]
      BY <1>4, HeadTailProperties
    <3> QED
      BY <3>1, <3>2, <3>3 DEF ToSet
  <2> QED
    BY <1>1, <2>1, <2>2
<1>8. /\ line \in Seq(Conversation) /\ IsInjective(line) /\ Len(line) <= MaxAnchors
      /\ ToSet(line) = IF full THEN ToSet(order) \ {Head(order)} ELSE ToSet(order)
  <2>1. CASE full
    <3>1. line = Tail(order)
      BY <2>1
    <3>2. Len(Tail(order)) <= MaxAnchors
      BY <1>5, <1>6
    <3> HIDE DEF line, full
    <3> QED
      BY <1>5, <2>1, <3>1, <3>2
  <2>2. CASE ~full
    <3>1. line = order /\ Len(order) <= MaxAnchors
      BY <1>6, <2>2
    <3> HIDE DEF line, full
    <3> QED
      BY <1>4, <2>2, <3>1
  <2> QED
    BY <2>1, <2>2
<1> HIDE DEF full, line
<1>9. /\ has \in [Conversation -> 1 .. ids \cup {NoId}] /\ has[d] = id
      /\ \A o \in Conversation : has[o] = IF o = d THEN id
                                          ELSE IF full /\ o = Head(order) THEN NoId
                                          ELSE anchor.id[o]
  BY AnchorTypes
<1> HIDE DEF has
<1>10. ASSUME NEW o \in Conversation
       PROVE  has[o] = NoId <=> o \notin ToSet(line)
  <2>1. anchor.id[o] = NoId <=> o \notin ToSet(anchor.order)
    BY AnchorTypes
  <2> QED
    BY <1>1, <1>4, <1>6, <1>7, <1>8, <1>9, <2>1
<1>11. AnchorFits'
  BY <1>2, <1>3, <1>8, <1>9, <1>10 DEF AnchorFits
<1> QED
  BY <1>3, <1>9, <1>11

-----------------------------------------------------------------------------
(* What the handler makes of an answer.                                    *)
Again(s, v) ==
  LET w == way[s]
  IN  \/ RefusedHints(w) /\ Resent(w, v, 2, WithoutHints(w)) /\ anchor' = anchor
      \/ MissedTools(w) /\ Resent(w, v, 3, WithAllTools(w)) /\ anchor' = anchor
      \/ LostAnchor(w) /\ Resent(w, v, 4, WithoutId(w)) /\ AnchorDrops(w.dialog)
Reaches(w) == talk' = [talk EXCEPT ![w.dialog] = Append(w.history, ReplyItem(w.id))]
Told(s, v) ==
  LET w == way[s]
  IN  /\ v = Idle \/ (w.resp = "ok" /\ v = [w EXCEPT !.at = "store"])
      /\ \/ talk' = talk /\ (v = Idle \/ w.gone)
         \/ w.resp = "ok" /\ Reaches(w) /\ (v = Idle => w.stream)
      /\ anchor' = anchor
Stored(s, v) ==
  LET w == way[s]
  IN  /\ v = Idle
      /\ IF "anchor" \in world.levers THEN AnchorStores(w.dialog, w.id) ELSE anchor' = anchor
Responded(s, v) ==
  /\ way[s] \in Way /\ way' = [way EXCEPT ![s] = v]
  /\ \/ way[s].at = "answered" /\ Again(s, v) /\ talk' = talk
     \/ way[s].at = "answered" /\ Told(s, v)
     \/ way[s].at = "store" /\ Stored(s, v) /\ talk' = talk

LEMMA AgainWay ==
  ASSUME WaysFit, AnchorFits, UpstreamFits, NEW s \in Server, way[s].at = "answered",
         RetryWithoutHints(s) \/ RetryWithAllTools(s) \/ RetryUnanchored(s)
  PROVE  /\ talk' = talk /\ troubles' = troubles /\ (rejected \in BOOLEAN => rejected' \in BOOLEAN)
         /\ \E v : Responded(s, v)
<1> DEFINE w == way[s]
<1>1. w.at # "idle"
  OBVIOUS
<1>2. w \in Way
  BY <1>1, UnderWay
<1>3. WithoutHints(w) \in Sendable /\ WithAllTools(w) \in Sendable /\ WithoutId(w) \in Sendable
  BY <1>2, RetriesAreBodies
<1>4. {2, 3, 4} \subseteq 1 .. 4
  OBVIOUS
<1>5. CASE RetryWithoutHints(s)
  <2>1. RefusedHints(w) /\ Resend(s, 2, WithoutHints(w)) /\ rejected' = TRUE
    BY <1>5, Zenon DEF RetryWithoutHints, WithoutHints
  <2>2. talk' = talk /\ anchor' = anchor /\ troubles' = troubles
    BY <1>5 DEF RetryWithoutHints
  <2>3. PICK v : way' = [way EXCEPT ![s] = v] /\ Resent(w, v, 2, WithoutHints(w))
    BY <1>2, <1>3, <1>4, <2>1, ResendWay
  <2>4. Responded(s, v)
    BY <1>2, <2>1, <2>2, <2>3, Zenon DEF Responded, Again
  <2> QED
    BY <2>1, <2>2, <2>4
<1>6. CASE RetryWithAllTools(s)
  <2>1. MissedTools(w) /\ Resend(s, 3, WithAllTools(w))
    BY <1>6, Zenon DEF RetryWithAllTools, WithAllTools
  <2>2. talk' = talk /\ anchor' = anchor /\ troubles' = troubles /\ rejected' = rejected
    BY <1>6 DEF RetryWithAllTools
  <2>3. PICK v : way' = [way EXCEPT ![s] = v] /\ Resent(w, v, 3, WithAllTools(w))
    BY <1>2, <1>3, <1>4, <2>1, ResendWay
  <2>4. Responded(s, v)
    BY <1>2, <2>1, <2>2, <2>3, Zenon DEF Responded, Again
  <2> QED
    BY <2>2, <2>4
<1>7. CASE RetryUnanchored(s)
  <2>1. LostAnchor(w) /\ Resend(s, 4, WithoutId(w)) /\ AnchorDrops(w.dialog)
    BY <1>7, Zenon DEF RetryUnanchored, WithoutId, AnchorDrops
  <2>2. talk' = talk /\ troubles' = troubles /\ rejected' = rejected
    BY <1>7 DEF RetryUnanchored
  <2>3. PICK v : way' = [way EXCEPT ![s] = v] /\ Resent(w, v, 4, WithoutId(w))
    BY <1>2, <1>3, <1>4, <2>1, ResendWay
  <2>4. Responded(s, v)
    BY <1>2, <2>1, <2>2, <2>3, Zenon DEF Responded, Again
  <2> QED
    BY <2>2, <2>4
<1> QED
  BY <1>5, <1>6, <1>7

LEMMA TroubleCounts ==
  ASSUME troubles \in Nat, Trouble \/ troubles' = troubles
  PROVE  troubles' \in Nat
BY DEF Trouble

LEMMA DeliverWay ==
  ASSUME WaysFit, NEW s \in Server, way[s].at = "answered", Deliver(s)
  PROVE  /\ rejected' = rejected /\ (troubles \in Nat => troubles' \in Nat)
         /\ \E v : Responded(s, v)
<1> DEFINE w == way[s]
           v == [w EXCEPT !.at = "store"]
           reaches == talk' = IF w.gone THEN talk
                        ELSE [talk EXCEPT ![w.dialog] = Append(w.history, ReplyItem(w.id))]
<1>1. w.at # "idle"
  OBVIOUS
<1>2. w \in Way
  BY <1>1, UnderWay
<1>3. anchor' = anchor /\ rejected' = rejected
  BY DEF Deliver
<1>4. \/ way' = [way EXCEPT ![s] = Idle] /\ talk' = talk /\ troubles' = troubles
      \/ /\ w.resp = "ok" /\ reaches /\ troubles' = troubles
         /\ way' = [way EXCEPT ![s] = IF w.stream THEN Idle ELSE v]
      \/ way' = [way EXCEPT ![s] = Idle] /\ talk' = talk /\ (Trouble \/ troubles' = troubles)
  <2>1. UNCHANGED <<talk, troubles>> => talk' = talk /\ troubles' = troubles
    OBVIOUS
  <2> QED
    BY <2>1, Zenon DEF Deliver
<1>5. reaches => (talk' = talk /\ w.gone) \/ Reaches(w)
  BY DEF Reaches
<1> HIDE DEF w, reaches, v
<1>6. troubles \in Nat => troubles' \in Nat
  BY <1>4, TroubleCounts
<1>7. ASSUME way' = [way EXCEPT ![s] = Idle], talk' = talk
      PROVE  Responded(s, Idle)
  BY <1>2, <1>3, <1>7, Zenon DEF Responded, Told, w
<1>8. ASSUME w.resp = "ok", reaches, way' = [way EXCEPT ![s] = IF w.stream THEN Idle ELSE v]
      PROVE  \E x : Responded(s, x)
  <2>1. CASE w.stream
    <3>1. way' = [way EXCEPT ![s] = Idle]
      BY <1>8, <2>1
    <3>2. Responded(s, Idle)
      BY <1>2, <1>3, <1>5, <1>8, <2>1, <3>1, Zenon DEF Responded, Told, w
    <3> QED
      BY <3>2
  <2>2. CASE ~w.stream
    <3>1. way' = [way EXCEPT ![s] = v]
      BY <1>8, <2>2
    <3>2. v = [way[s] EXCEPT !.at = "store"] /\ v # Idle
      BY <1>2 DEF v, w, Idle, Way
    <3>3. Responded(s, v)
      BY <1>2, <1>3, <1>5, <1>8, <3>1, <3>2, Zenon DEF Responded, Told, w
    <3> QED
      BY <3>3
  <2> QED
    BY <2>1, <2>2
<1> QED
  BY <1>3, <1>4, <1>6, <1>7, <1>8

LEMMA StoreWay ==
  ASSUME WaysFit, NEW s \in Server, StoreId(s)
  PROVE  /\ rejected' = rejected /\ troubles' = troubles /\ \E v : Responded(s, v)
<1> DEFINE w == way[s]
<1>1. w.at = "store" /\ w.at # "idle" /\ way' = [way EXCEPT ![s] = Idle]
  BY DEF StoreId, Go
<1>2. w \in Way
  BY <1>1, UnderWay
<1>3. talk' = talk /\ rejected' = rejected /\ troubles' = troubles
  BY DEF StoreId
<1>4. IF "anchor" \in world.levers THEN AnchorStores(w.dialog, w.id) ELSE anchor' = anchor
  BY Zenon DEF StoreId, AnchorStores
<1>5. Responded(s, Idle)
  BY <1>1, <1>2, <1>3, <1>4, Zenon DEF Responded, Stored
<1> QED
  BY <1>3, <1>5

LEMMA RespondTracks ==
  ASSUME WaysFit, TrackerFits, Warmed, NEW s \in Server, Respond(s)
  PROVE  TrackerFits' /\ Warmed'
<1>1. CASE SameTracker
  BY <1>1, SameTrackerKeeps
<1>2. CASE way[s].at = "answered" /\ Missed(way[s].dialog, way[s].dropped)
  <2>1. way[s].at # "idle"
    BY <1>2
  <2>2. way[s].dialog \in Conversation /\ way[s].dropped \in SUBSET Tool
    BY <2>1, UnderWay, WayTypes
  <2> QED
    BY <1>2, <2>2, MissedKeeps
<1>3. SameTracker \/ (way[s].at = "answered" /\ Missed(way[s].dialog, way[s].dropped))
  BY Zenon DEF Respond, RetryWithoutHints, RetryWithAllTools, RetryUnanchored, Deliver, StoreId
<1> QED
  BY <1>1, <1>2, <1>3

LEMMA RespondFacts ==
  ASSUME WaysFit, AnchorFits, UpstreamFits, ClientFits, Numbered, NEW s \in Server, Respond(s)
  PROVE  /\ known' = known /\ ids' = ids /\ world' = world /\ odd' = odd
         /\ \E v : Responded(s, v)
         /\ AnchorFits' /\ ClientFits'
<1>1. known' = known /\ ids' = ids /\ world' = world /\ odd' = odd /\ turns' = turns
  BY DEF Respond, upstreamVars
<1>2. /\ rejected' \in BOOLEAN /\ troubles' \in Nat
      /\ \E v : Responded(s, v)
  <2>1. CASE way[s].at = "answered" /\ (RetryWithoutHints(s) \/ RetryWithAllTools(s)
                                         \/ RetryUnanchored(s))
    BY <2>1, AgainWay DEF ClientFits
  <2>2. CASE way[s].at = "answered" /\ Deliver(s)
    BY <2>2, DeliverWay DEF ClientFits
  <2>3. CASE StoreId(s)
    BY <2>3, StoreWay DEF ClientFits
  <2> QED
    BY <2>1, <2>2, <2>3, Zenon DEF Respond
<1>3. PICK v : Responded(s, v)
  BY <1>2
<1> DEFINE w == way[s]
<1>4. w \in Way /\ w.dialog \in Conversation /\ w.history \in Seq(Entry) /\ ids \in Nat
  BY <1>3, Zenon DEF Responded, Way, UpstreamFits
<1>5. HasAnswer(w) => w.id \in 1 .. ids
  BY <1>4, WayTypes DEF Numbered
<1> HIDE DEF w
<1>6. talk' \in [Conversation -> Seq(Entry)]
  <2>1. CASE talk' = talk
    BY <2>1 DEF ClientFits
  <2>2. CASE w.at = "answered" /\ w.resp = "ok" /\ Reaches(w)
    <3>1. w.id \in Nat
      BY <1>4, <1>5, <2>2 DEF HasAnswer
    <3>2. ReplyItem(w.id) \in Entry
      BY <3>1 DEF ReplyItem, Entry
    <3>3. Append(w.history, ReplyItem(w.id)) \in Seq(Entry)
      BY <1>4, <3>2, AppendProperties
    <3> HIDE DEF Entry
    <3> QED
      BY <1>4, <2>2, <3>3 DEF Reaches, ClientFits
  <2> QED
    BY <1>3, <2>1, <2>2, Zenon DEF Responded, Told, w
<1>7. AnchorFits'
  <2>1. CASE anchor' = anchor
    BY <1>1, <2>1, Zenon DEF AnchorFits
  <2>2. CASE AnchorDrops(w.dialog)
    BY <1>1, <1>4, <2>2, DropsKeeps
  <2>3. CASE w.at = "store" /\ AnchorStores(w.dialog, w.id)
    <3>1. w.id \in 1 .. ids
      BY <1>5, <2>3 DEF HasAnswer
    <3> QED
      BY <1>1, <1>4, <2>3, <3>1, StoresKeeps
  <2> QED
    BY <1>3, <2>1, <2>2, <2>3, Zenon DEF Responded, Again, Told, Stored, w
<1>8. ClientFits'
  BY <1>1, <1>2, <1>6 DEF ClientFits
<1> QED
  BY <1>1, <1>2, <1>7, <1>8

-----------------------------------------------------------------------------
(* A new request.                                                          *)
LastId(d) == talk[d][Len(talk[d])][2]
WholeHistory(w, b) == b.prev = NoId /\ b.items = ToSet(w.history)
SinceReply(w, b) ==
  /\ talk[w.dialog] # << >> /\ b.items = {w.last}
  /\ IsReply(talk[w.dialog][Len(talk[w.dialog])]) => b.prev = LastId(w.dialog)
NextQuestion(w) ==
  /\ ~w.stream /\ ~w.gone /\ w.last \in Entry
  /\ w.history = Append(talk[w.dialog], w.last)
  /\ WholeHistory(w, w.own) \/ SinceReply(w, w.own)
Fresh(w) ==
  /\ w \in Way /\ w.at \in Early /\ w.stage = 1 /\ w.again = FALSE /\ w.accepted = 0
  /\ w.own.hints = FALSE /\ w.own.tools = w.full
Asked(s, v) ==
  /\ way[s].at = "idle" /\ way' = [way EXCEPT ![s] = v] /\ Fresh(v) /\ odd \subseteq odd'
  /\ v.dialog \notin odd' =>
       /\ \A o \in Server : way[o].at # "idle" => way[o].dialog # v.dialog
       /\ NextQuestion(v)

(* What a client lists of its conversation.                                *)
LEMMA SingleQuestion ==
  ASSUME NEW h \in Seq(Entry), NEW e \in Entry, IsUser(e), NEW delta \in BOOLEAN
  PROVE  LET input == IF delta THEN <<e>> ELSE h \o <<e>>
             at == SelectLastInSeq(input, IsUser)
         IN  /\ h \o <<e>> = Append(h, e) /\ ToSet(<<e>>) = {e}
             /\ at # 0 /\ input[at] = e
<1>1. h \o <<e>> = Append(h, e)
  BY AppendIsConcat
<1>2. << >> \in Seq(Entry) /\ Append(<< >>, e) = <<e>> /\ Len(<< >>) = 0
  <2> HIDE DEF Entry
  <2> QED
    OBVIOUS
<1>3. ToSet(<<e>>) = {e}
  BY DEF ToSet
<1>4. ASSUME NEW g \in Seq(Entry)
      PROVE  LET at == SelectLastInSeq(Append(g, e), IsUser)
             IN  at # 0 /\ Append(g, e)[at] = e
  <2> DEFINE a == Append(g, e)
             at == SelectLastInSeq(a, IsUser)
  <2>1. a \in Seq(Entry) /\ Len(a) = Len(g) + 1 /\ a[Len(g) + 1] = e /\ a # << >>
    BY AppendFacts
  <2>2. Len(g) \in Nat
    BY LenProperties
  <2> HIDE DEF a
  <2>3. at = Len(a)
    BY <2>1, LatestUser
  <2> HIDE DEF at
  <2>4. at # 0 /\ a[at] = e
    BY <2>1, <2>2, <2>3
  <2> QED
    BY <2>4 DEF a, at
<1>5. CASE delta
  <2>1. LET at == SelectLastInSeq(Append(<< >>, e), IsUser)
        IN  at # 0 /\ Append(<< >>, e)[at] = e
    BY <1>2, <1>4
  <2> QED
    BY <1>1, <1>2, <1>3, <1>5, <2>1
<1>6. CASE ~delta
  BY <1>1, <1>3, <1>4, <1>6
<1> QED
  BY <1>5, <1>6

LEMMA AskFacts ==
  ASSUME WaysFit, ClientFits, NEW s \in Server, Ask(s)
  PROVE  ClientFits' /\ talk' = talk /\ \E v : Asked(s, v)
<1>1. PICK d \in world.dialogs, q \in world.shapes :
       LET new == [i \in DOMAIN q.adds |-> <<q.adds[i], turns', i>>]
           reply == SelectLastInSeq(talk[d], IsReply)
           delta == q.delta /\ reply # 0
           input == IF delta THEN new ELSE talk[d] \o new
           user == SelectLastInSeq(input, IsUser)
           own == [items |-> ToSet(input), tools |-> q.lists, hints |-> FALSE,
                   prev |-> IF delta THEN talk[d][reply][2] ELSE NoId]
           alone == \A o \in Server : way[o].at # "idle" => way[o].dialog # d
       IN  /\ q.adds[1] = "output" => reply # 0
           /\ odd' = IF q.adds = <<"user">> /\ ~q.stream /\ alone THEN odd ELSE odd \cup {d}
           /\ way' = [way EXCEPT ![s] =
                [at |-> IF "prune" \in world.levers THEN "mention" ELSE "hint",
                 dialog |-> d, history |-> talk[d] \o new, stream |-> q.stream,
                 last |-> IF user = 0 THEN NoTurn ELSE input[user],
                 own |-> own, sent |-> own, resp |-> "none", id |-> NoId, from |-> {},
                 always |-> q.always, uses |-> q.uses, mentions |-> q.mentions, needs |-> q.needs,
                 full |-> q.lists, todo |-> {}, dropped |-> {},
                 hinted |-> FALSE, anchored |-> FALSE, stage |-> 1, tries |-> 0,
                 again |-> FALSE, accepted |-> 0, gone |-> FALSE]]
  BY Zenon DEF Ask
<1>2. /\ way[s].at = "idle" /\ turns' = turns + 1
      /\ world' = world /\ talk' = talk /\ rejected' = rejected /\ troubles' = troubles
  BY DEF Ask
<1> DEFINE new == [i \in DOMAIN q.adds |-> <<q.adds[i], turns', i>>]
           reply == SelectLastInSeq(talk[d], IsReply)
           delta == q.delta /\ reply # 0
           input == IF delta THEN new ELSE talk[d] \o new
           user == SelectLastInSeq(input, IsUser)
           prev == IF delta THEN talk[d][reply][2] ELSE NoId
           own == [items |-> ToSet(input), tools |-> q.lists, hints |-> FALSE, prev |-> prev]
           alone == \A o \in Server : way[o].at # "idle" => way[o].dialog # d
           single == q.adds = <<"user">> /\ ~q.stream /\ alone
           last == IF user = 0 THEN NoTurn ELSE input[user]
           place == IF "prune" \in world.levers THEN "mention" ELSE "hint"
           v == [at |-> place, dialog |-> d, history |-> talk[d] \o new, stream |-> q.stream,
                 last |-> last,
                 own |-> own, sent |-> own, resp |-> "none", id |-> NoId, from |-> {},
                 always |-> q.always, uses |-> q.uses, mentions |-> q.mentions, needs |-> q.needs,
                 full |-> q.lists, todo |-> {}, dropped |-> {},
                 hinted |-> FALSE, anchored |-> FALSE, stage |-> 1, tries |-> 0,
                 again |-> FALSE, accepted |-> 0, gone |-> FALSE]
<1>3. way' = [way EXCEPT ![s] = v] /\ odd' = IF single THEN odd ELSE odd \cup {d}
  BY <1>1, Zenon
<1>4. /\ d \in Conversation /\ talk[d] \in Seq(Entry) /\ turns' \in Nat
      /\ q.adds \in Seq({"user", "output"}) /\ q.delta \in BOOLEAN /\ q.stream \in BOOLEAN
      /\ q.always \in BOOLEAN /\ q.lists \in SUBSET Tool /\ q.uses \in SUBSET Tool
      /\ q.mentions \in SUBSET Tool /\ q.needs \in SUBSET Tool
  <2>1. world \in World /\ talk \in [Conversation -> Seq(Entry)] /\ turns \in Nat
    BY DEF ClientFits
  <2>2. d \in Conversation /\ IsShape(q)
    BY <2>1, RequestPathAssumption
  <2>3. talk[d] \in Seq(Entry) /\ turns' \in Nat
    <3> HIDE DEF Entry
    <3> QED
      BY <1>2, <2>1, <2>2
  <2> QED
    BY <2>2, <2>3 DEF IsShape
<1>5. new \in Seq(Entry)
  <2> DEFINE n == Len(q.adds)
  <2>1. n \in Nat /\ DOMAIN q.adds = 1 .. n /\ \A i \in 1 .. n : q.adds[i] \in {"user", "output"}
    BY <1>4, LenProperties, ElementOfSeq
  <2>2. \A i \in 1 .. n : <<q.adds[i], turns', i>> \in Entry
    BY <1>4, <2>1 DEF Entry
  <2>3. [i \in 1 .. n |-> <<q.adds[i], turns', i>>] \in Seq(Entry)
    <3> HIDE DEF n
    <3> QED
      BY <2>1, <2>2, IsASeq
  <2> QED
    BY <2>1, <2>3
<1> HIDE DEF new
<1>6. talk[d] \o new \in Seq(Entry) /\ input \in Seq(Entry)
  BY <1>4, <1>5, ConcatProperties
<1>7. /\ reply \in 0 .. Len(talk[d]) /\ Len(talk[d]) \in Nat
      /\ reply # 0 => talk[d][reply][2] \in Nat /\ talk[d] # << >>
      /\ talk[d] # << >> /\ IsReply(talk[d][Len(talk[d])]) => reply = Len(talk[d])
  <2>1. /\ reply \in 0 .. Len(talk[d]) /\ (reply # 0 => IsReply(talk[d][reply]))
        /\ talk[d] # << >> /\ IsReply(talk[d][Len(talk[d])]) => reply = Len(talk[d])
        /\ Len(talk[d]) \in Nat
    BY <1>4, LatestReply, LenProperties
  <2> HIDE DEF reply
  <2>2. ASSUME reply # 0
        PROVE  talk[d][reply][2] \in Nat /\ talk[d] # << >>
    <3>1. reply \in 1 .. Len(talk[d])
      BY <2>1, <2>2
    <3>2. talk[d][reply] \in Entry
      BY <1>4, <3>1, ElementOfSeq
    <3>3. Len(talk[d]) # 0
      BY <2>1, <3>1
    <3>4. talk[d] # << >>
      BY <3>3
    <3>5. talk[d][reply][2] \in Nat
      BY <3>2 DEF Entry
    <3> QED
      BY <3>4, <3>5
  <2> QED
    BY <2>1, <2>2
<1>8. last \in Entry \cup {NoTurn}
  <2>1. user \in 0 .. Len(input) /\ Len(input) \in Nat
    BY <1>6, LatestUser, LenProperties
  <2> HIDE DEF user, input
  <2>2. user # 0 => input[user] \in Entry
    BY <1>6, <2>1, ElementOfSeq
  <2> QED
    BY <2>2
<1>9. ToSet(input) \in SUBSET Entry /\ prev \in Id
  <2>1. ToSet(input) \in SUBSET Entry
    <3> HIDE DEF input
    <3> QED
      BY <1>6, ElementOfSeq, LenProperties DEF ToSet
  <2>2. prev \in Id
    BY <1>7 DEF Id
  <2> QED
    BY <2>1, <2>2
<1>10. own \in Sendable /\ own.hints = FALSE /\ own.tools = q.lists /\ own.prev = prev
       /\ own.items = ToSet(input)
  <2> HIDE DEF input, prev
  <2> QED
    BY <1>4, <1>9 DEF Sendable
<1>11. place \in Early /\ place \in Place /\ NoId \in Id /\ "none" \in Response
  BY DEF Early, Place, Id, Response
<1>12. single => /\ ~q.stream /\ alone /\ user # 0 /\ last \in Entry
                 /\ talk[d] \o new = Append(talk[d], last)
                 /\ ToSet(input) = IF delta THEN {last} ELSE ToSet(talk[d] \o new)
  <2> SUFFICES ASSUME single
               PROVE  /\ user # 0 /\ last \in Entry
                      /\ talk[d] \o new = Append(talk[d], last)
                      /\ ToSet(input) = IF delta THEN {last} ELSE ToSet(talk[d] \o new)
    OBVIOUS
  <2> DEFINE e == <<"user", turns', 1>>
  <2>1. new = <<e>>
    BY DEF new
  <2>2. e \in Entry /\ IsUser(e)
    BY <1>4 DEF Entry, IsUser
  <2> HIDE DEF e
  <2>3. delta \in BOOLEAN
    BY <1>4
  <2> HIDE DEF delta
  <2>4. /\ talk[d] \o <<e>> = Append(talk[d], e) /\ ToSet(<<e>>) = {e}
        /\ user # 0 /\ input[user] = e
    BY <1>4, <2>1, <2>2, <2>3, SingleQuestion
  <2>5. last = e
    BY <2>4
  <2> HIDE DEF user, last
  <2> QED
    BY <2>1, <2>2, <2>4, <2>5
<1> HIDE DEF own, last, place, reply, user
<1>13. v \in Way
  <2> HIDE DEF input, delta, prev
  <2>1. 1 \in 1 .. 4 /\ 0 \in 0 .. MaxRetries /\ 0 \in Nat
    BY DEF MaxRetries
  <2> QED
    BY <1>4, <1>6, <1>8, <1>10, <1>11, <2>1 DEF Way
<1>14. Fresh(v)
  <2> HIDE DEF input, delta, prev
  <2> QED
    BY <1>10, <1>11, <1>13 DEF Fresh
<1>15. single => NextQuestion(v)
  <2> SUFFICES ASSUME single PROVE NextQuestion(v)
    OBVIOUS
  <2>1. /\ v.stream = q.stream /\ v.gone = FALSE /\ v.last = last /\ v.dialog = d
        /\ v.history = talk[d] \o new /\ v.own = own
    OBVIOUS
  <2> HIDE DEF v
  <2>2. CASE delta
    <3>1. own.prev = talk[d][reply][2] /\ reply # 0 /\ own.items = {last}
      BY <1>10, <1>12, <2>2
    <3>2. SinceReply(v, v.own)
      BY <1>7, <2>1, <3>1 DEF SinceReply, LastId
    <3> QED
      BY <1>12, <2>1, <3>2 DEF NextQuestion
  <2>3. CASE ~delta
    <3>1. own.prev = NoId /\ own.items = ToSet(talk[d] \o new)
      BY <1>10, <1>12, <2>3
    <3>2. WholeHistory(v, v.own)
      BY <2>1, <3>1 DEF WholeHistory
    <3> QED
      BY <1>12, <2>1, <3>2 DEF NextQuestion
  <2> QED
    BY <2>2, <2>3
<1>16. v.dialog = d
  OBVIOUS
<1> HIDE DEF v
<1>17. Asked(s, v)
  BY <1>2, <1>3, <1>12, <1>14, <1>15, <1>16 DEF Asked
<1>18. ClientFits'
  <2>1. odd' \subseteq Conversation
    BY <1>3, <1>4 DEF ClientFits
  <2> QED
    BY <1>2, <1>4, <2>1 DEF ClientFits
<1> QED
  BY <1>2, <1>17, <1>18

-----------------------------------------------------------------------------
(* The steps, by what they do to one request and to the stores.            *)
SameStores == talk' = talk /\ anchor' = anchor /\ odd' = odd /\ world' = world
Left(s, v) ==
  /\ way[s] \in Way /\ v = [way[s] EXCEPT !.gone = TRUE] /\ way' = [way EXCEPT ![s] = v]
  /\ odd' = odd \cup {way[s].dialog}
Move(s, v) ==
  \/ /\ Asked(s, v) /\ UpstreamSame
     /\ talk' = talk /\ anchor' = anchor /\ world' = world
  \/ /\ Left(s, v) /\ UpstreamSame
     /\ talk' = talk /\ anchor' = anchor /\ world' = world
  \/ PreparedTo(s, v) /\ UpstreamSame /\ SameStores
  \/ /\ way' = [way EXCEPT ![s] = v] /\ SentFirst(way[s], v)
     /\ UpstreamSame /\ SameStores
  \/ Sent(s, v) /\ SameStores
  \/ Responded(s, v) /\ UpstreamSame /\ odd' = odd /\ world' = world
Forgets == DOMAIN known' \subseteq DOMAIN known /\ \A id \in DOMAIN known' : known'[id] = known[id]
Moves ==
  \/ \E s \in Server : \E v : Move(s, v)
  \/ way' = way /\ ids' = ids /\ Forgets /\ SameStores

TypesFit ==
  WaysFit /\ TrackerFits /\ AnchorFits /\ ClientFits /\ UpstreamFits /\ Warmed /\ Numbered

LEMMA LeftWay ==
  ASSUME NEW w \in Way
  PROVE  LET v == [w EXCEPT !.gone = TRUE]
         IN  /\ v \in Way /\ v.at = w.at /\ v.dialog = w.dialog /\ v.resp = w.resp /\ v.id = w.id
             /\ v.own = w.own /\ v.sent = w.sent /\ v.full = w.full /\ v.dropped = w.dropped
             /\ v.hinted = w.hinted /\ v.anchored = w.anchored /\ v.stage = w.stage
             /\ v.needs = w.needs /\ v.again = w.again /\ v.accepted = w.accepted
BY DEF Way

LEMMA FrameKeeps ==
  ASSUME AnchorFits, UpstreamFits, anchor' = anchor, ids' \in Nat, ids <= ids'
  PROVE  AnchorFits'
<1>1. 1 .. ids \subseteq 1 .. ids'
  BY DEF UpstreamFits
<1>2. anchor.id \in [Conversation -> 1 .. ids' \cup {NoId}]
  BY <1>1, AnchorTypes
<1>3. anchor \in [order : Seq(Conversation), id : [Conversation -> 1 .. ids' \cup {NoId}]]
  BY <1>2 DEF AnchorFits
<1> QED
  BY <1>3 DEF AnchorFits

LEMMA UpstreamKeeps ==
  ASSUME UpstreamFits, ids' = ids, Forgets, known' \in [DOMAIN known' -> SUBSET Entry]
  PROVE  UpstreamFits'
BY DEF UpstreamFits, Forgets

LEMMA AskMoves ==
  ASSUME TypesFit, NEW s \in Server, Ask(s)
  PROVE  (TrackerFits /\ AnchorFits /\ ClientFits /\ UpstreamFits /\ Warmed)'
         /\ \E v : Move(s, v)
<1>1. SameTracker /\ UpstreamSame /\ anchor' = anchor /\ world' = world
  BY DEF Ask, upstreamVars, SameTracker, UpstreamSame
<1>2. ids \in Nat /\ ids' = ids
  BY <1>1 DEF UpstreamSame, TypesFit, UpstreamFits
<1>3. AnchorFits' /\ UpstreamFits'
  BY <1>1, <1>2, FrameKeeps, Zenon DEF TypesFit, UpstreamFits, AnchorFits, UpstreamSame
<1>4. TrackerFits' /\ Warmed'
  BY <1>1, SameTrackerKeeps DEF TypesFit
<1>5. ClientFits' /\ talk' = talk /\ \E v : Asked(s, v)
  BY AskFacts DEF TypesFit
<1> QED
  BY <1>1, <1>3, <1>4, <1>5, Zenon DEF Move

LEMMA DisconnectMoves ==
  ASSUME TypesFit, NEW s \in Server, Disconnect(s)
  PROVE  (TrackerFits /\ AnchorFits /\ ClientFits /\ UpstreamFits /\ Warmed)'
         /\ \E v : Move(s, v)
<1>1. /\ SameTracker /\ UpstreamSame /\ anchor' = anchor /\ world' = world /\ talk' = talk
      /\ turns' = turns /\ rejected' = rejected /\ odd' = odd \cup {way[s].dialog}
  BY DEF Disconnect, upstreamVars, SameTracker, UpstreamSame
<1>2. AnchorFits' /\ UpstreamFits'
  BY <1>1, Zenon DEF TypesFit, UpstreamFits, AnchorFits, UpstreamSame
<1>3. TrackerFits' /\ Warmed'
  BY <1>1, SameTrackerKeeps DEF TypesFit
<1>4. way[s] \in Way
  <2>1. way[s].at # "idle" /\ WaysFit
    BY DEF Disconnect, TypesFit
  <2> QED
    BY <2>1, UnderWay
<1>5. way' = [way EXCEPT ![s] = [way[s] EXCEPT !.gone = TRUE]]
  BY DEF Disconnect, TypesFit, WaysFit
<1>6. Move(s, [way[s] EXCEPT !.gone = TRUE])
  BY <1>1, <1>4, <1>5, Zenon DEF Move, Left
<1>7. troubles' \in Nat
  BY TroubleCounts DEF Disconnect, TypesFit, ClientFits
<1>8. ClientFits'
  <2>1. way[s].dialog \in Conversation
    BY <1>4, WayTypes
  <2> QED
    BY <1>1, <1>7, <2>1 DEF ClientFits, TypesFit
<1> QED
  BY <1>2, <1>3, <1>6, <1>8

LEMMA PrepareMoves ==
  ASSUME TypesFit, NEW s \in Server, Prune(s) \/ Prepare(s)
  PROVE  (TrackerFits /\ AnchorFits /\ ClientFits /\ UpstreamFits /\ Warmed)'
         /\ \E v : Move(s, v)
<1>1. /\ UpstreamSame /\ SameStores /\ turns' = turns /\ rejected' = rejected
      /\ troubles' = troubles
  BY DEF Prune, Prepare, upstreamVars, clientVars, UpstreamSame, SameStores
<1>2. AnchorFits' /\ UpstreamFits' /\ ClientFits'
  BY <1>1, Zenon DEF TypesFit, UpstreamFits, AnchorFits, UpstreamSame, ClientFits, SameStores
<1>3. CASE Prune(s)
  BY <1>1, <1>2, <1>3, PruneFacts, Zenon DEF TypesFit, Move
<1>4. CASE Prepare(s)
  <2>1. TrackerFits' /\ Warmed'
    BY <1>4, SameTrackerKeeps, Zenon DEF TypesFit, Prepare
  <2>2. CASE AddHints(s)
    BY <1>1, <1>2, <2>1, <2>2, HintWay, Zenon DEF TypesFit, Move
  <2>3. CASE UseAnchor(s)
    BY <1>1, <1>2, <2>1, <2>3, AnchorWay, Zenon DEF TypesFit, Move
  <2> QED
    BY <1>4, <2>2, <2>3, Zenon DEF Prepare
<1> QED
  BY <1>3, <1>4

LEMMA SendMoves ==
  ASSUME TypesFit, NEW s \in Server, Send(s)
  PROVE  (TrackerFits /\ AnchorFits /\ ClientFits /\ UpstreamFits /\ Warmed)'
         /\ \E v : Move(s, v)
<1>1. /\ SameStores /\ turns' = turns /\ rejected' = rejected /\ SameTracker
  BY DEF Send, clientVars, SameStores
<1>2. UpstreamFits' /\ ids' \in Nat /\ ids <= ids' /\ \E v : Sent(s, v)
  BY SendFacts, Zenon DEF TypesFit
<1>3. AnchorFits'
  BY <1>1, <1>2, FrameKeeps DEF TypesFit, SameStores
<1>4. TrackerFits' /\ Warmed'
  BY <1>1, SameTrackerKeeps DEF TypesFit
<1>5. troubles' \in Nat
  <2>1. Trouble \/ troubles' = troubles
    <3>1. \/ troubles' = troubles \/ Trouble
          \/ UNCHANGED <<upstreamVars, troubles>>
      BY Zenon DEF Send, UpstreamRefuses, UpstreamTroubled, Accepts, Unreachable
    <3> QED
      BY <3>1
  <2> QED
    BY <2>1, TroubleCounts DEF TypesFit, ClientFits
<1>6. ClientFits'
  BY <1>1, <1>5 DEF ClientFits, TypesFit, SameStores
<1> QED
  BY <1>1, <1>2, <1>3, <1>4, <1>6, Zenon DEF Move

LEMMA RespondMoves ==
  ASSUME TypesFit, NEW s \in Server, Respond(s)
  PROVE  (TrackerFits /\ AnchorFits /\ ClientFits /\ UpstreamFits /\ Warmed)'
         /\ \E v : Move(s, v)
<1>1. TrackerFits' /\ Warmed'
  BY RespondTracks, Zenon DEF TypesFit
<1>2. /\ UpstreamSame /\ world' = world /\ odd' = odd /\ \E v : Responded(s, v)
      /\ AnchorFits' /\ ClientFits'
  BY RespondFacts DEF TypesFit, UpstreamSame
<1>3. UpstreamFits'
  BY <1>2, Zenon DEF TypesFit, UpstreamFits, UpstreamSame
<1> QED
  BY <1>1, <1>2, <1>3, Zenon DEF Move

(* What one request's step means for its type and its answer's number.     *)
LEMMA MoveFits ==
  ASSUME TypesFit, UpstreamFits', NEW s \in Server, NEW v, Move(s, v)
  PROVE  /\ way' = [way EXCEPT ![s] = v] /\ v \in Way \cup {Idle} /\ ids <= ids'
         /\ v # Idle /\ HasAnswer(v) => v.id \in 1 .. ids'
<1>1. ids \in Nat /\ ids' \in Nat
  BY DEF TypesFit, UpstreamFits
<1>2. UpstreamSame => ids' = ids
  BY DEF UpstreamSame
<1>3. \A w : w.at \in Early \cup Attempt => ~HasAnswer(w)
  BY DEF Early, Attempt, HasAnswer
<1>4. "send" \in Attempt /\ "original" \in Attempt
  BY DEF Attempt
<1>5. CASE Asked(s, v) /\ UpstreamSame
  BY <1>1, <1>2, <1>3, <1>5 DEF Asked, Fresh
<1>6. CASE Left(s, v) /\ UpstreamSame
  <2>1. way[s] \in Way /\ v = [way[s] EXCEPT !.gone = TRUE] /\ way' = [way EXCEPT ![s] = v]
    BY <1>6 DEF Left
  <2>2. v \in Way /\ v.at = way[s].at /\ v.resp = way[s].resp /\ v.id = way[s].id
    BY <2>1, LeftWay
  <2>3. HasAnswer(v) => HasAnswer(way[s])
    BY <2>2 DEF HasAnswer
  <2>4. way[s].at # "idle" 
    BY <2>1, WayTypes
  <2>5. HasAnswer(v) => v.id \in 1 .. ids
    BY <2>2, <2>3, <2>4 DEF TypesFit, Numbered
  <2> QED
    BY <1>1, <1>2, <1>6, <2>1, <2>2, <2>5
<1>7. CASE PreparedTo(s, v) /\ UpstreamSame
  BY <1>1, <1>2, <1>3, <1>7 DEF PreparedTo, Prepared
<1>8. CASE way' = [way EXCEPT ![s] = v] /\ SentFirst(way[s], v) /\ UpstreamSame
  BY <1>1, <1>2, <1>3, <1>4, <1>8 DEF SentFirst, Made
<1>9. CASE Sent(s, v)
  <2>1. ids <= ids'
    BY <1>1, <1>2, <1>9 DEF Sent, Takes
  <2>2. way' = [way EXCEPT ![s] = v]
    BY <1>9 DEF Sent
  <2>3. CASE Takes(way[s]) /\ AnswerTo(way[s], v)
    <3>1. v \in Way /\ v.id = ids' /\ ids' = ids + 1
      BY <2>3 DEF AnswerTo, AsMade, Made, Takes
    <3> QED
      BY <1>1, <2>1, <2>2, <3>1
  <2>4. CASE Turned(way[s], v)
    BY <2>1, <2>2, <2>4 DEF Turned, AsMade, Made, HasAnswer
  <2>5. CASE Retried(way[s], v)
    BY <1>3, <2>1, <2>2, <2>5 DEF Retried, AsMade, Made
  <2>6. CASE LostAnswer(way[s], v)
    BY <1>3, <1>4, <2>1, <2>2, <2>6 DEF LostAnswer, AsMade, Made
  <2>7. CASE v = Idle
    BY <2>1, <2>2, <2>7
  <2> QED
    BY <1>9, <2>3, <2>4, <2>5, <2>6, <2>7, Zenon DEF Sent
<1>10. CASE Responded(s, v) /\ UpstreamSame
  <2>1. way[s] \in Way /\ way' = [way EXCEPT ![s] = v]
    BY <1>10 DEF Responded
  <2>2. CASE \E stage, body : Resent(way[s], v, stage, body)
    BY <1>1, <1>2, <1>3, <1>4, <1>10, <2>1, <2>2 DEF Resent, Made
  <2>3. CASE v = Idle
    BY <1>1, <1>2, <1>10, <2>1, <2>3
  <2>4. CASE way[s].at = "answered" /\ way[s].resp = "ok" /\ v = [way[s] EXCEPT !.at = "store"]
    <3>1. "store" \in Place
      BY DEF Place
    <3>2. v \in Way /\ v.id = way[s].id
      BY <2>1, <2>4, <3>1 DEF Way
    <3>3. way[s].id \in 1 .. ids
      BY <2>1, <2>4, WayTypes DEF TypesFit, Numbered, HasAnswer
    <3> QED
      BY <1>1, <1>2, <1>10, <2>1, <3>2, <3>3
  <2> QED
    BY <1>10, <2>2, <2>3, <2>4, Zenon DEF Responded, Again, Told, Stored
<1> QED
  BY <1>5, <1>6, <1>7, <1>8, <1>9, <1>10, Zenon DEF Move

LEMMA MoveKeeps ==
  ASSUME TypesFit, NEW s \in Server, NEW v, Move(s, v),
         (TrackerFits /\ AnchorFits /\ ClientFits /\ UpstreamFits /\ Warmed)'
  PROVE  TypesFit'
<1>1. /\ way' = [way EXCEPT ![s] = v] /\ v \in Way \cup {Idle} /\ ids <= ids'
      /\ v # Idle /\ HasAnswer(v) => v.id \in 1 .. ids'
  BY MoveFits
<1>2. /\ WaysFit' /\ way'[s] = v /\ \A o \in Server : o # s => way'[o] = way[o]
  BY <1>1, Moved DEF TypesFit
<1>3. Numbered'
  <2> SUFFICES ASSUME NEW o \in Server, way'[o].at # "idle", HasAnswer(way'[o])
               PROVE  way'[o].id \in 1 .. ids'
    BY DEF Numbered, HasAnswer
  <2>1. CASE o = s
    BY <1>1, <1>2, <2>1 DEF Idle
  <2>2. CASE o # s
    <3>1. way[o].id \in 1 .. ids
      BY <1>2, <2>2 DEF TypesFit, Numbered
    <3>2. ids \in Nat /\ ids' \in Nat
      BY DEF TypesFit, UpstreamFits
    <3> QED
      BY <1>1, <1>2, <2>2, <3>1, <3>2
  <2> QED
    BY <2>1, <2>2
<1> QED
  BY <1>2, <1>3 DEF TypesFit

LEMMA StepFacts ==
  ASSUME TypesFit, RequestPathNext
  PROVE  TypesFit' /\ Moves
<1>1. ASSUME NEW s \in Server,
             Ask(s) \/ Disconnect(s) \/ Prune(s) \/ Prepare(s) \/ Send(s) \/ Respond(s)
      PROVE  TypesFit' /\ Moves
  <2>1. (TrackerFits /\ AnchorFits /\ ClientFits /\ UpstreamFits /\ Warmed)' /\ \E v : Move(s, v)
    BY <1>1, AskMoves, DisconnectMoves, PrepareMoves, SendMoves, RespondMoves, Zenon
  <2> QED
    BY <2>1, MoveKeeps, Zenon DEF Moves
<1>2. ASSUME way' = way, ids' = ids, Forgets, SameStores, UpstreamFits', SameTracker,
             turns' = turns, rejected' \in BOOLEAN, troubles' \in Nat
      PROVE  TypesFit' /\ Moves
  <2>1. TrackerFits' /\ Warmed'
    BY <1>2, SameTrackerKeeps DEF TypesFit
  <2>2. WaysFit' /\ Numbered' /\ AnchorFits'
    BY <1>2, Zenon DEF TypesFit, WaysFit, Numbered, AnchorFits, SameStores
  <2>3. ClientFits'
    BY <1>2 DEF TypesFit, ClientFits, SameStores
  <2> QED
    BY <1>2, <2>1, <2>2, <2>3, Zenon DEF TypesFit, Moves
<1>3. CASE UpstreamForgets
  <2>1. PICK old \in DOMAIN known : known' = [id \in DOMAIN known \ {old} |-> known[id]]
    BY <1>3 DEF UpstreamForgets
  <2>2. /\ way' = way /\ ids' = ids /\ SameStores /\ SameTracker /\ turns' = turns
        /\ rejected' = rejected /\ Trouble
    BY <1>3 DEF UpstreamForgets, clientVars, SameStores, SameTracker
  <2>3. Forgets /\ known' \in [DOMAIN known' -> SUBSET Entry]
    BY <2>1 DEF Forgets, TypesFit, UpstreamFits
  <2>4. UpstreamFits'
    BY <2>2, <2>3, UpstreamKeeps DEF TypesFit
  <2>5. rejected' \in BOOLEAN /\ troubles' \in Nat
    BY <2>2, TroubleCounts DEF TypesFit, ClientFits
  <2> QED
    BY <1>2, <2>2, <2>3, <2>4, <2>5
<1>4. CASE RejectionExpires
  <2>1. /\ way' = way /\ UpstreamSame /\ SameStores /\ SameTracker /\ turns' = turns
        /\ rejected' = FALSE /\ troubles' = troubles
    BY <1>4 DEF RejectionExpires, clientVars, upstreamVars, SameStores, SameTracker, UpstreamSame
  <2>2. Forgets /\ UpstreamFits' /\ ids' = ids
    BY <2>1 DEF Forgets, TypesFit, UpstreamFits, UpstreamSame
  <2>3. rejected' \in BOOLEAN /\ troubles' \in Nat
    BY <2>1 DEF TypesFit, ClientFits
  <2> QED
    BY <1>2, <2>1, <2>2, <2>3
<1> QED
  BY <1>1, <1>3, <1>4, Zenon DEF RequestPathNext

(* Initially nothing is under way.                                         *)
LEMMA AllInLine ==
  ASSUME NEW S, IsFiniteSet(S)
  PROVE  /\ SetToSeq(S) \in Seq(S) /\ IsInjective(SetToSeq(S)) /\ ToSet(SetToSeq(S)) = S
         /\ Len(SetToSeq(S)) = Cardinality(S) /\ Cardinality(S) \in Nat
<1> DEFINE n == Cardinality(S)
           f == SetToSeq(S)
<1>1. n \in Nat /\ ExistsBijection(1..n, S)
  BY FS_CardinalityType
<1>2. \E g \in [1..n -> S] : IsInjective(g)
  BY <1>1 DEF ExistsBijection, Bijection, Injection
<1>3. f \in [1..n -> S] /\ IsInjective(f)
  BY <1>2 DEF SetToSeq
<1> HIDE DEF f
<1>4. f \in Seq(S) /\ Len(f) = n
  <2> HIDE DEF n
  <2>1. f \in Seq(S) /\ DOMAIN f = 1..n
    BY <1>1, <1>3
  <2> QED
    BY <1>1, <2>1, LenProperties
<1>5. f \in Injection(1..n, S)
  BY <1>3 DEF Injection
<1>6. IsFiniteSet(1..n) /\ Cardinality(1..n) = n
  <2> HIDE DEF n
  <2>1. IsFiniteSet(1..n) /\ Cardinality(1..n) = IF 1 > n THEN 0 ELSE n - 1 + 1
    BY <1>1, FS_Interval
  <2> QED
    BY <1>1, <2>1
<1>7. f \in Surjection(1..n, S)
  BY <1>5, <1>6, FS_Injection
<1>8. ToSet(f) = S
  BY <1>3, <1>7 DEF Surjection, ToSet
<1> QED
  BY <1>1, <1>3, <1>4, <1>8 DEF f

-----------------------------------------------------------------------------
(* The first states, and the types of all of them.                         *)
LEMMA AgedIsUsage == Aged \in Usage
<1> DEFINE n == IdleThreshold + 1
           seen == [t \in Tool |-> 1]
<1>1. n \in Nat /\ seen \in [Tool -> Nat \cup {Never}]
  BY RequestPathAssumption
<1>2. Aged = [Unused EXCEPT !.turn = n, !.seen = seen]
  BY Zenon DEF Aged
<1> HIDE DEF n, seen
<1> QED
  BY <1>1, <1>2, UnusedIsUsage DEF Usage

LEMMA InitFits ==
  ASSUME RequestPathInit
  PROVE  TypesFit
<1> DEFINE old == world.old
<1>1. /\ world \in World /\ old \subseteq Conversation /\ IsFiniteSet(old)
      /\ Cardinality(old) <= MaxTracked
  BY RequestPathAssumption DEF RequestPathInit
<1>2. /\ SetToSeq(old) \in Seq(old) /\ IsInjective(SetToSeq(old)) /\ ToSet(SetToSeq(old)) = old
      /\ Len(SetToSeq(old)) <= MaxTracked
  BY <1>1, AllInLine
<1>3. SetToSeq(old) \in Seq(Conversation)
  BY <1>1, <1>2
<1> HIDE DEF old
<1>4. TrackerFits
  <2>1. tracker = [order |-> SetToSeq(old),
                   use |-> [d \in Conversation |-> IF d \in old THEN Aged ELSE Unused]]
        /\ misses = {}
    BY Zenon DEF RequestPathInit, old
  <2>2. tracker.order = SetToSeq(old)
        /\ tracker.use = [d \in Conversation |-> IF d \in old THEN Aged ELSE Unused]
    BY <2>1
  <2>3. tracker.use \in [Conversation -> Usage]
    BY <2>2, AgedIsUsage, UnusedIsUsage
  <2>4. tracker \in [order : Seq(Conversation), use : [Conversation -> Usage]]
    BY <1>3, <2>1, <2>2, <2>3
  <2>5. \A d \in Conversation : ~Tracked(d) => tracker.use[d] = Unused
    BY <1>2, <2>2 DEF Tracked
  <2> QED
    BY <1>2, <2>1, <2>2, <2>4, <2>5 DEF TrackerFits
<1>5. WaysFit /\ Numbered
  BY DEF RequestPathInit, WaysFit, Numbered, Idle
<1>6. AnchorFits
  <2>1. anchor = [order |-> << >>, id |-> [d \in Conversation |-> NoId]]
    BY DEF RequestPathInit
  <2>2. << >> \in Seq(Conversation) /\ Len(<< >>) = 0 /\ IsInjective(<< >>) /\ ToSet(<< >>) = {}
    BY DEF IsInjective, ToSet
  <2>3. [d \in Conversation |-> NoId] \in [Conversation -> 1 .. ids \cup {NoId}]
    OBVIOUS
  <2>4. anchor \in [order : Seq(Conversation), id : [Conversation -> 1 .. ids \cup {NoId}]]
    BY <2>1, <2>2, <2>3
  <2> QED
    BY <2>1, <2>2, <2>4, RequestPathAssumption DEF AnchorFits
<1>7. ClientFits
  <2>1. << >> \in Seq(Entry)
    <3> HIDE DEF Entry
    <3> QED
      OBVIOUS
  <2> QED
    BY <1>1, <2>1 DEF RequestPathInit, ClientFits
<1>8. UpstreamFits
  BY DEF RequestPathInit, UpstreamFits
<1>9. Warmed
  BY DEF RequestPathInit, Warmed
<1> QED
  BY <1>4, <1>5, <1>6, <1>7, <1>8, <1>9 DEF TypesFit

LEMMA StutterFits ==
  ASSUME TypesFit, UNCHANGED requestPathVars
  PROVE  TypesFit'
<1>1. /\ way' = way /\ tracker' = tracker /\ anchor' = anchor /\ world' = world /\ talk' = talk
      /\ known' = known /\ ids' = ids /\ odd' = odd /\ turns' = turns /\ rejected' = rejected
      /\ troubles' = troubles /\ misses' = misses
  BY DEF requestPathVars, clientVars, upstreamVars
<1> QED
  BY <1>1, Zenon DEF TypesFit, WaysFit, TrackerFits, Tracked, AnchorFits, ClientFits,
                     UpstreamFits, Warmed, Numbered

LEMMA TypesStayFit == RequestPathSpec => []TypesFit
<1>1. RequestPathInit => TypesFit
  BY InitFits
<1>2. TypesFit /\ [RequestPathNext]_requestPathVars => TypesFit'
  BY StepFacts, StutterFits
<1> QED
  BY <1>1, <1>2, PTL DEF RequestPathSpec

(* The state of an HTTP request's way through the proxy has its types: the *)
(* tracker and the store of ids stay within their limits, keep each        *)
(* conversation in line once, and hold nothing of one they do not track    *)
(* (toolprune.go, response_state.go).                                      *)
THEOREM RequestPathTypeCorrect == RequestPathSpec => []RequestPathTypeOK
<1>1. TypesFit => RequestPathTypeOK
  BY TypeParts DEF TypesFit
<1> QED
  BY <1>1, TypesStayFit, PTL

-----------------------------------------------------------------------------
(* What the retries are for: what is sent differs from what the client     *)
(* asked for in what the stage allows, and a refusal from what was sent.   *)
OwnBody(w) ==
  w.own.hints = FALSE /\ w.own.tools \subseteq w.full /\ (w.at \in Early => w.stage = 1)
SentBody(w) ==
  w.at \notin Early =>
    /\ w.sent.tools = IF w.stage = 3 THEN w.full ELSE Kept(w)
    /\ w.sent.hints => w.hinted /\ w.stage \in {1, 4}
    /\ w.sent.prev = w.own.prev \/ (w.anchored /\ w.stage # 4)
Reasons(w) ==
  w.at = "answered" =>
    /\ w.resp = "hints" => w.sent.hints
    /\ w.resp = "missing" => ~(w.needs \subseteq w.sent.tools) \/ ~(w.needs \subseteq w.own.tools)
    /\ w.resp = "unknown" => w.sent.prev # NoId \/ w.own.prev # NoId
TakenOnce(w) ==
  ~w.again => w.accepted = IF w.at \in {"answered", "store"} /\ w.resp = "ok" THEN 1 ELSE 0
Retries(w) == OwnBody(w) /\ SentBody(w) /\ Reasons(w) /\ TakenOnce(w)
RetriesFit == \A s \in Server : way[s].at # "idle" => Retries(way[s])

LEMMA Phases ==
  /\ \A at \in Early : at \notin Attempt \cup {"answered", "store"}
  /\ \A at \in Attempt : at \notin Early \cup {"answered", "store"}
  /\ {"send", "original"} \subseteq Attempt /\ "answered" \notin Early /\ "store" \notin Early
  /\ "idle" \notin Attempt \cup Early
BY DEF Early, Attempt

LEMMA NewRetries ==
  ASSUME NEW v, Fresh(v)
  PROVE  Retries(v)
<1>1. OwnBody(v)
  BY DEF Fresh, OwnBody
<1>2. SentBody(v) /\ Reasons(v)
  BY Phases DEF Fresh, SentBody, Reasons
<1>3. TakenOnce(v)
  BY Phases DEF Fresh, TakenOnce
<1> QED
  BY <1>1, <1>2, <1>3 DEF Retries

LEMMA LeftRetries ==
  ASSUME NEW w \in Way, Retries(w)
  PROVE  Retries([w EXCEPT !.gone = TRUE])
<1> DEFINE v == [w EXCEPT !.gone = TRUE]
<1>1. /\ v.at = w.at /\ v.resp = w.resp
      /\ v.own = w.own /\ v.sent = w.sent /\ v.full = w.full /\ v.dropped = w.dropped
      /\ v.hinted = w.hinted /\ v.anchored = w.anchored /\ v.stage = w.stage
      /\ v.needs = w.needs /\ v.again = w.again /\ v.accepted = w.accepted
  BY LeftWay
<1> HIDE DEF v
<1>2. OwnBody(v)
  BY <1>1 DEF Retries, OwnBody
<1>3. SentBody(v)
  BY <1>1 DEF Retries, SentBody, Kept
<1>4. Reasons(v)
  BY <1>1, Zenon DEF Retries, Reasons
<1>5. TakenOnce(v)
  BY <1>1, Zenon DEF Retries, TakenOnce
<1> QED
  BY <1>2, <1>3, <1>4, <1>5 DEF Retries, v

LEMMA PreparedRetries ==
  ASSUME NEW w, NEW v, Prepared(w, v), Retries(w)
  PROVE  Retries(v)
<1>1. OwnBody(v)
  BY DEF Retries, OwnBody, Prepared, SameRequest
<1>2. SentBody(v) /\ Reasons(v)
  BY Phases DEF Prepared, SentBody, Reasons
<1>3. TakenOnce(v)
  BY Phases DEF Prepared, Retries, TakenOnce
<1> QED
  BY <1>1, <1>2, <1>3 DEF Retries

(* What is made of a body, once more.                                      *)
LEMMA BodyPrev ==
  ASSUME NEW w \in Way, NEW id \in Id, NEW tools \in SUBSET Tool, NEW hints \in BOOLEAN
  PROVE  LET b == Rewritten(w, Whole(w, tools, hints), id)
         IN  /\ b.tools = tools /\ b.hints = hints
             /\ b.prev = w.own.prev \/ (id # NoId /\ w.last # NoTurn)
<1> DEFINE body == Whole(w, tools, hints)
           b == Rewritten(w, body, id)
<1>1. body \in Sendable /\ body.prev = w.own.prev /\ body.tools = tools /\ body.hints = hints
  BY WholeBody
<1> HIDE DEF body
<1>2. /\ b.tools = body.tools /\ b.hints = body.hints
      /\ IF id = NoId \/ w.last = NoTurn THEN b = body
         ELSE b.prev = id /\ b.items = {w.last}
  BY <1>1, RewrittenBody
<1> HIDE DEF b
<1>3. b.tools = tools /\ b.hints = hints /\ (b.prev = w.own.prev \/ (id # NoId /\ w.last # NoTurn))
  BY <1>1, <1>2
<1> QED
  BY <1>3 DEF b, body

LEMMA FirstRetries ==
  ASSUME AnchorFits, UpstreamFits, NEW w, NEW v, SentFirst(w, v), Retries(w)
  PROVE  Retries(v)
<1> DEFINE id == AnchorOf(w)
<1>1. /\ w \in Way /\ w.at \in Early /\ v.at = "send" /\ v.at \notin Early /\ v.at # "answered"
      /\ v.full = w.full /\ v.dropped = w.dropped /\ v.hinted = w.hinted /\ v.own = w.own
      /\ v.stage = w.stage /\ v.again = w.again /\ v.accepted = w.accepted
      /\ v.anchored = (id # NoId /\ w.last # NoTurn)
      /\ v.sent = Rewritten(w, Whole(w, Kept(w), w.hinted), id)
  BY Phases DEF SentFirst, Made, SameRequest
<1>2. id \in Id /\ Kept(w) \in SUBSET Tool /\ w.hinted \in BOOLEAN
  BY <1>1, AnchorIds, KeptTools DEF Way
<1> HIDE DEF id
<1>3. /\ v.sent.tools = Kept(w) /\ v.sent.hints = w.hinted
      /\ v.sent.prev = w.own.prev \/ v.anchored
  <2> DEFINE b == Rewritten(w, Whole(w, Kept(w), w.hinted), id)
  <2>1. /\ b.tools = Kept(w) /\ b.hints = w.hinted
        /\ b.prev = w.own.prev \/ (id # NoId /\ w.last # NoTurn)
    BY <1>1, <1>2, BodyPrev
  <2>2. v.sent = b
    BY <1>1
  <2> HIDE DEF b
  <2> QED
    BY <1>1, <2>1, <2>2
<1>4. w.stage = 1 /\ Kept(v) = Kept(w)
  BY <1>1 DEF Retries, OwnBody, Kept
<1>5. OwnBody(v)
  BY <1>1 DEF Retries, OwnBody
<1>6. SentBody(v) /\ Reasons(v)
  BY <1>1, <1>3, <1>4 DEF SentBody, Reasons
<1>7. TakenOnce(v)
  BY <1>1, Phases DEF Retries, TakenOnce
<1> QED
  BY <1>5, <1>6, <1>7 DEF Retries

LEMMA MadeRetries ==
  ASSUME NEW w, NEW v, AsMade(w, v), Retries(w), w.at \notin Early, v.at \notin Early
  PROVE  OwnBody(v) /\ SentBody(v) /\ Kept(v) = Kept(w)
<1>1. /\ v.full = w.full /\ v.dropped = w.dropped /\ v.hinted = w.hinted /\ v.own = w.own
      /\ v.stage = w.stage /\ v.sent = w.sent /\ v.anchored = w.anchored
  BY DEF AsMade, Made, SameRequest
<1>2. OwnBody(v)
  BY <1>1 DEF Retries, OwnBody
<1>3. Kept(v) = Kept(w)
  BY <1>1 DEF Kept
<1>4. SentBody(v)
  BY <1>1, <1>3 DEF Retries, SentBody
<1> QED
  BY <1>2, <1>3, <1>4

LEMMA SentRetries ==
  ASSUME NEW s \in Server, NEW v, v # Idle, Sent(s, v), Retries(way[s])
  PROVE  Retries(v)
<1> DEFINE w == way[s]
<1>1. w \in Way /\ w.at \in Attempt /\ w.at \notin Early
  BY Phases DEF Sent
<1>2. ~w.again => w.accepted = 0
  BY <1>1, Phases DEF Retries, TakenOnce
<1>3. CASE Turned(w, v)
  <2>1. /\ AsMade(w, v) /\ v.at = "answered" /\ v.at \notin Early /\ v.resp # "ok"
        /\ v.resp \in {"hints", "missing", "unknown"} => Refuses(w, v.resp)
        /\ v.again = w.again /\ v.accepted = w.accepted
        /\ v.sent = w.sent /\ v.own = w.own /\ v.needs = w.needs
    BY <1>3, Phases DEF Turned, AsMade, Made, SameRequest
  <2>2. OwnBody(v) /\ SentBody(v)
    BY <1>1, <2>1, MadeRetries
  <2>3. Body(w) \in {w.sent, w.own} /\ w.own.hints = FALSE
    BY DEF Body, Retries, OwnBody
  <2>4. v.resp = "hints" => v.sent.hints
    BY <2>1, <2>3 DEF Refuses
  <2>5. v.resp = "missing" => ~(v.needs \subseteq v.sent.tools) \/ ~(v.needs \subseteq v.own.tools)
    BY <2>1, <2>3 DEF Refuses
  <2>6. v.resp = "unknown" => v.sent.prev # NoId \/ v.own.prev # NoId
    BY <2>1, <2>3 DEF Refuses
  <2>7. Reasons(v) /\ TakenOnce(v)
    BY <1>2, <2>1, <2>4, <2>5, <2>6 DEF Reasons, TakenOnce
  <2> QED
    BY <2>2, <2>7 DEF Retries
<1>4. CASE Retried(w, v)
  <2>1. /\ AsMade(w, v) /\ v.at \in Attempt /\ v.at \notin Early
        /\ v.at \notin {"answered", "store"} /\ v.again = w.again /\ v.accepted = w.accepted
    BY <1>4, Phases DEF Retried
  <2>2. OwnBody(v) /\ SentBody(v)
    BY <1>1, <2>1, MadeRetries
  <2>3. Reasons(v) /\ TakenOnce(v)
    BY <1>2, <2>1 DEF Reasons, TakenOnce
  <2> QED
    BY <2>2, <2>3 DEF Retries
<1>5. CASE AnswerTo(w, v)
  <2>1. /\ AsMade(w, v) /\ v.at = "answered" /\ v.at \notin Early /\ v.resp = "ok"
        /\ v.again = w.again /\ v.accepted = w.accepted + 1
    BY <1>5, Phases DEF AnswerTo
  <2>2. OwnBody(v) /\ SentBody(v)
    BY <1>1, <2>1, MadeRetries
  <2>3. Reasons(v) /\ TakenOnce(v)
    BY <1>2, <2>1 DEF Reasons, TakenOnce
  <2> QED
    BY <2>2, <2>3 DEF Retries
<1>6. CASE LostAnswer(w, v)
  <2>1. AsMade(w, v) /\ v.at = "original" /\ v.at \notin Early /\ v.again = TRUE
    BY <1>6, Phases DEF LostAnswer
  <2>2. OwnBody(v) /\ SentBody(v)
    BY <1>1, <2>1, MadeRetries
  <2>3. Reasons(v) /\ TakenOnce(v)
    BY <2>1 DEF Reasons, TakenOnce
  <2> QED
    BY <2>2, <2>3 DEF Retries
<1> QED
  BY <1>3, <1>4, <1>5, <1>6, Zenon DEF Sent

LEMMA ResentRetries ==
  ASSUME NEW w, NEW v, NEW stage \in 2 .. 4, NEW body, Resent(w, v, stage, body),
         Retries(w), w.at = "answered", w.resp # "ok",
         body.tools = IF stage = 3 THEN w.full ELSE Kept(w),
         body.hints => w.hinted /\ stage = 4,
         body.prev = w.own.prev \/ (w.anchored /\ stage # 4)
  PROVE  Retries(v)
<1>1. /\ v.full = w.full /\ v.dropped = w.dropped /\ v.hinted = w.hinted /\ v.own = w.own
      /\ v.stage = stage /\ v.sent = body /\ v.anchored = w.anchored
      /\ v.again = w.again /\ v.accepted = w.accepted
      /\ v.at = "send" /\ v.at \notin Early
  BY Phases DEF Resent, Made, SameRequest
<1>2. OwnBody(v) /\ Kept(v) = Kept(w)
  BY <1>1 DEF Retries, OwnBody, Kept
<1>3. SentBody(v) /\ Reasons(v)
  BY <1>1, <1>2 DEF SentBody, Reasons
<1>4. TakenOnce(v)
  BY <1>1 DEF Retries, TakenOnce
<1> QED
  BY <1>2, <1>3, <1>4 DEF Retries

LEMMA RespondedRetries ==
  ASSUME AnchorFits, UpstreamFits, NEW s \in Server, NEW v, v # Idle, Responded(s, v),
         Retries(way[s])
  PROVE  Retries(v)
<1> DEFINE w == way[s]
<1>1. w \in Way
  BY DEF Responded
<1>2. w.full \in SUBSET Tool /\ Kept(w) \in SUBSET Tool /\ w.hinted \in BOOLEAN
  BY <1>1, WayTypes, KeptTools DEF Way
<1>3. AnchorNow(w) \in Id /\ (AnchorNow(w) # NoId /\ w.last # NoTurn => w.anchored)
  BY <1>1, AnchorIds DEF AnchorNow
<1>4. CASE w.at = "answered" /\ RefusedHints(w) /\ Resent(w, v, 2, WithoutHints(w))
  <2> DEFINE b == WithoutHints(w)
  <2>1. b.tools = Kept(w) /\ b.hints = FALSE /\ (b.prev = w.own.prev \/ w.anchored)
    <3>1. /\ b.tools = Kept(w) /\ b.hints = FALSE
          /\ b.prev = w.own.prev \/ (AnchorNow(w) # NoId /\ w.last # NoTurn)
      <4> HIDE DEF w
      <4>1. /\ w \in Way /\ AnchorNow(w) \in Id
            /\ Kept(w) \in SUBSET Tool /\ FALSE \in BOOLEAN
        BY <1>1, <1>2, <1>3
      <4> QED
        BY <4>1, BodyPrev, Zenon DEF WithoutHints
    <3> HIDE DEF b, w
    <3> QED
      BY <1>3, <3>1
  <2>2. w.resp # "ok" /\ 2 \in 2 .. 4
    BY <1>4 DEF RefusedHints
  <2> HIDE DEF b, w
  <2> QED
    BY <1>4, <2>1, <2>2, ResentRetries DEF b, w
<1>5. CASE w.at = "answered" /\ MissedTools(w) /\ Resent(w, v, 3, WithAllTools(w))
  <2> DEFINE b == WithAllTools(w)
  <2>1. b.tools = w.full /\ b.hints = FALSE /\ (b.prev = w.own.prev \/ w.anchored)
    <3>1. /\ b.tools = w.full /\ b.hints = FALSE
          /\ b.prev = w.own.prev \/ (AnchorNow(w) # NoId /\ w.last # NoTurn)
      <4> HIDE DEF w
      <4>1. /\ w \in Way /\ AnchorNow(w) \in Id
            /\ w.full \in SUBSET Tool /\ FALSE \in BOOLEAN
        BY <1>1, <1>2, <1>3
      <4> QED
        BY <4>1, BodyPrev, Zenon DEF WithAllTools
    <3> HIDE DEF b, w
    <3> QED
      BY <1>3, <3>1
  <2>2. w.resp # "ok" /\ 3 \in 2 .. 4
    BY <1>5 DEF MissedTools
  <2> HIDE DEF b, w
  <2> QED
    BY <1>5, <2>1, <2>2, ResentRetries DEF b, w
<1>6. CASE w.at = "answered" /\ LostAnchor(w) /\ Resent(w, v, 4, WithoutId(w))
  <2> DEFINE b == WithoutId(w)
  <2>1. b.tools = Kept(w) /\ b.hints = w.hinted /\ b.prev = w.own.prev
    <3> HIDE DEF w
    <3> QED
      BY <1>1, <1>2, WholeBody DEF WithoutId
  <2>2. w.resp # "ok" /\ 4 \in 2 .. 4
    BY <1>6 DEF LostAnchor
  <2> HIDE DEF b, w
  <2> QED
    BY <1>6, <2>1, <2>2, ResentRetries DEF b, w
<1>7. CASE w.at = "answered" /\ w.resp = "ok" /\ v = [w EXCEPT !.at = "store"]
  <2> HIDE DEF w
  <2>1. /\ v.at = "store" /\ v.at \notin Early /\ v.resp = w.resp
        /\ v.own = w.own /\ v.sent = w.sent /\ v.full = w.full /\ v.dropped = w.dropped
        /\ v.hinted = w.hinted /\ v.anchored = w.anchored /\ v.stage = w.stage
        /\ v.again = w.again /\ v.accepted = w.accepted
    BY <1>1, <1>7, Phases DEF Way
  <2>2. Retries(w) /\ w.at = "answered" /\ w.at \notin Early
    BY <1>7, Phases DEF w
  <2>3. OwnBody(v) /\ Kept(v) = Kept(w)
    BY <2>1, <2>2 DEF Retries, OwnBody, Kept
  <2>4. SentBody(v)
    BY <2>1, <2>2, <2>3 DEF Retries, SentBody
  <2>5. Reasons(v) /\ TakenOnce(v)
    BY <1>7, <2>1, <2>2 DEF Retries, Reasons, TakenOnce
  <2> QED
    BY <2>3, <2>4, <2>5 DEF Retries
<1> QED
  BY <1>4, <1>5, <1>6, <1>7, Zenon DEF Responded, Again, Told, Stored

LEMMA MoveRetries ==
  ASSUME TypesFit, RetriesFit, NEW s \in Server, NEW v, v # Idle, Move(s, v)
  PROVE  Retries(v)
<1>1. AnchorFits /\ UpstreamFits
  BY DEF TypesFit
<1>2. way[s] \in Way => Retries(way[s])
  BY WayTypes DEF RetriesFit
<1>3. CASE Asked(s, v)
  BY <1>3, NewRetries DEF Asked
<1>4. CASE Left(s, v)
  BY <1>2, <1>4, LeftRetries DEF Left
<1>5. CASE PreparedTo(s, v)
  BY <1>2, <1>5, PreparedRetries DEF PreparedTo, Prepared
<1>6. CASE SentFirst(way[s], v)
  BY <1>1, <1>2, <1>6, FirstRetries DEF SentFirst, Made
<1>7. CASE Sent(s, v)
  BY <1>2, <1>7, SentRetries DEF Sent
<1>8. CASE Responded(s, v)
  BY <1>1, <1>2, <1>8, RespondedRetries DEF Responded
<1> QED
  BY <1>3, <1>4, <1>5, <1>6, <1>7, <1>8, Zenon DEF Move

LEMMA StepRetries ==
  ASSUME TypesFit, RetriesFit, [RequestPathNext]_requestPathVars
  PROVE  RetriesFit'
<1>1. CASE way' = way
  BY <1>1, Zenon DEF RetriesFit
<1>2. ASSUME NEW s \in Server, NEW v, Move(s, v), TypesFit'
      PROVE  RetriesFit'
  <2>1. /\ way' = [way EXCEPT ![s] = v] /\ WaysFit
    BY <1>2, MoveFits DEF TypesFit
  <2>2. way'[s] = v /\ \A o \in Server : o # s => way'[o] = way[o]
    BY <2>1, Moved
  <2>3. v # Idle => Retries(v)
    BY <1>2, MoveRetries
  <2> SUFFICES ASSUME NEW o \in Server, way'[o].at # "idle"
               PROVE  Retries(way'[o])
    BY Zenon DEF RetriesFit
  <2>4. CASE o = s
    BY <2>2, <2>3, <2>4 DEF Idle
  <2>5. CASE o # s
    <3>1. way'[o] = way[o]
      BY <2>2, <2>5
    <3>2. way[o].at # "idle"
      BY <3>1
    <3> QED
      BY <3>1, <3>2, Zenon DEF RetriesFit
  <2> QED
    BY <2>4, <2>5
<1>3. CASE RequestPathNext
  BY <1>1, <1>2, <1>3, StepFacts, Zenon DEF Moves
<1>4. CASE UNCHANGED requestPathVars
  BY <1>1, <1>4 DEF requestPathVars
<1> QED
  BY <1>3, <1>4

LEMMA RetriesStayFit == RequestPathSpec => [](TypesFit /\ RetriesFit)
<1>1. RequestPathInit => RetriesFit
  BY DEF RequestPathInit, RetriesFit, Idle
<1>2. TypesFit /\ RetriesFit /\ [RequestPathNext]_requestPathVars => RetriesFit'
  BY StepRetries
<1> QED
  BY <1>1, <1>2, TypesStayFit, PTL DEF RequestPathSpec

(* A refusal that is due to what the proxy made of a request is answered   *)
(* by a retry and does not reach the client, unless the last retry had     *)
(* hints or pruned tools still in it; and the upstream accepts a request   *)
(* once, unless the answer to the aggressively compressed body is lost     *)
(* (handler.go): for any number of requests, conversations and tools.      *)
THEOREM RefusalsStaySecret == RequestPathSpec => []RetriedInSecret
<1>1. ASSUME TypesFit, RetriesFit, NEW s \in Server, way[s].at # "idle"
      PROVE  LET w == way[s] IN
               /\ w.at = "answered" /\ OwnFault(w) =>
                    \/ RefusedHints(w) \/ MissedTools(w) \/ LostAnchor(w)
                    \/ w.stage = 4 /\ (w.hinted \/ w.dropped # {})
               /\ w.accepted > 1 => w.again
  <2> DEFINE w == way[s]
  <2>1. w \in Way /\ Retries(w)
    BY <1>1, UnderWay DEF TypesFit, RetriesFit
  <2> HIDE DEF w
  <2>2. w.stage \in 1 .. 4 /\ w.again \in BOOLEAN /\ w.hinted \in BOOLEAN
    BY <2>1 DEF Way
  <2>3. w.accepted > 1 => w.again
    BY <2>1, <2>2 DEF Retries, TakenOnce
  <2>4. ASSUME w.at = "answered", w.resp = "hints"
        PROVE  RefusedHints(w) \/ (w.stage = 4 /\ w.hinted)
    BY <2>1, <2>4, Phases DEF Retries, SentBody, Reasons, RefusedHints
  <2>5. ASSUME w.at = "answered", w.resp = "missing", w.needs \subseteq w.own.tools
        PROVE  MissedTools(w) \/ (w.stage = 4 /\ w.dropped # {})
    <3>1. ~(w.needs \subseteq w.sent.tools) /\ w.needs \subseteq w.full
      BY <2>1, <2>5 DEF Retries, Reasons, OwnBody
    <3>2. w.stage # 3 /\ w.dropped # {}
      BY <2>1, <2>5, <3>1, Phases DEF Retries, SentBody, Kept
    <3> QED
      BY <2>2, <2>5, <3>2 DEF MissedTools
  <2>6. ASSUME w.at = "answered", w.resp = "unknown", w.own.prev = NoId
        PROVE  LostAnchor(w)
    BY <2>1, <2>2, <2>6, Phases DEF Retries, SentBody, Reasons, LostAnchor
  <2> QED
    BY <2>3, <2>4, <2>5, <2>6, Zenon DEF OwnFault, w
<1>2. TypesFit /\ RetriesFit => RetriedInSecret
  BY <1>1, Zenon DEF RetriedInSecret
<1> QED
  BY <1>2, RetriesStayFit, PTL

-----------------------------------------------------------------------------
(* A request drops a tool only by judging it, with the definition's use    *)
(* before its eyes.                                                        *)
LEMMA DropsByJudging ==
  ASSUME TypesFit, RequestPathNext, NEW s \in Server, NEW t, Drops(s, t)
  PROVE  JudgeTool(s)
<1>1. way[s].at = "judge" /\ way'[s].at = "judge" /\ t \in way'[s].dropped \ way[s].dropped
  BY DEF Drops
<1>2. WaysFit
  BY DEF TypesFit
<1>3. ASSUME NEW o \in Server, NEW v, Move(o, v)
      PROVE  o = s /\ way'[s] = v
  <2>1. UpstreamFits'
    BY StepFacts DEF TypesFit
  <2>2. way' = [way EXCEPT ![o] = v]
    BY <1>3, <2>1, MoveFits
  <2>3. way'[o] = v /\ (o # s => way'[s] = way[s])
    BY <1>2, <2>2, Moved
  <2>4. o = s
    BY <1>1, <2>3
  <2> QED
    BY <2>3, <2>4
<1>4. ASSUME NEW o \in Server,
             Ask(o) \/ Disconnect(o) \/ Prune(o) \/ Prepare(o) \/ Send(o) \/ Respond(o)
      PROVE  o = s
  BY <1>3, <1>4, AskMoves, DisconnectMoves, PrepareMoves, SendMoves, RespondMoves, Zenon
<1>5. way' # way
  BY <1>1
<1>6. CASE Ask(s)
  BY <1>1, <1>6 DEF Ask
<1>7. CASE Disconnect(s)
  <2>1. way[s] \in Way
    BY <1>1, <1>2, UnderWay
  <2>2. way'[s] = [way[s] EXCEPT !.gone = TRUE]
    BY <1>2, <1>7 DEF Disconnect, WaysFit
  <2>3. way'[s].dropped = way[s].dropped
    BY <2>1, <2>2, LeftWay
  <2> QED
    BY <1>1, <2>3
<1>8. CASE Prune(s)
  <2>1. ~Mention(s) /\ ~Peek(s) /\ ~ForgetDefs(s) /\ ~ObserveTurn(s) /\ ~ConsumeCooldown(s)
        /\ ~RememberDef(s)
    BY <1>1 DEF Mention, Peek, ForgetDefs, ObserveTurn, ConsumeCooldown, RememberDef, Go
  <2>2. ~KeepOne(s)
    <3> SUFFICES ASSUME KeepOne(s) PROVE FALSE
      OBVIOUS
    <3>1. PICK v : PreparedTo(s, v) /\ v.at # "judge"
      BY <1>2, KeepWay
    <3>2. way'[s] = v
      BY <1>2, <3>1, Moved DEF PreparedTo
    <3> QED
      BY <1>1, <3>1, <3>2
  <2> QED
    BY <1>8, <2>1, <2>2, Zenon DEF Prune
<1>9. CASE Prepare(s)
  BY <1>1, <1>9 DEF Prepare, AddHints, UseAnchor, Go
<1>10. CASE Send(s)
  BY <1>1, <1>10 DEF Send, Attempt
<1>11. CASE Respond(s)
  BY <1>1, <1>11 DEF Respond, StoreId, Go
<1>12. ~UpstreamForgets /\ ~RejectionExpires
  BY <1>5 DEF UpstreamForgets, RejectionExpires
<1> QED
  BY <1>4, <1>6, <1>7, <1>8, <1>9, <1>10, <1>11, <1>12, Zenon DEF RequestPathNext

(* A tool that was missed upstream while the tracker remembered its        *)
(* definition stays in the requests of its conversation until it has been  *)
(* idle for IdleThreshold more turns (MarkMiss and Active, toolprune.go),  *)
(* whatever other requests and conversations do meanwhile.                 *)
THEOREM MissedToolsAreKept == RequestPathSpec => MissedToolsStay
<1>1. ASSUME TypesFit, RequestPathNext, NEW s \in Server, NEW m \in misses,
             m[1] = way[s].dialog, Drops(s, m[2])
      PROVE  tracker.use[m[1]].turn > m[3] + IdleThreshold
  <2> DEFINE w == way[s]
             d == m[1]
             t == m[2]
             u == tracker.use[d]
  <2>1. d \in Conversation /\ t \in Tool /\ m[3] \in Nat /\ UsedSince(u, t, m[3])
    BY <1>1 DEF TypesFit, TrackerFits, Warmed
  <2>2. u \in Usage /\ u.turn \in Nat /\ IdleThreshold \in Nat
    BY <1>1, <2>1, TrackerTypes, RequestPathAssumption DEF TypesFit, Usage
  <2>3. JudgeTool(s)
    BY <1>1, DropsByJudging
  <2>4. w \in Way /\ w.at = "judge"
    BY <1>1, <2>3, UnderWay DEF JudgeTool, TypesFit
  <2>5. PICK x \in w.todo :
          way' = [way EXCEPT ![s] =
                    [w EXCEPT !.todo = @ \ {x},
                              !.dropped = IF ActiveTool(w.dialog, x) THEN @ ELSE @ \cup {x}]]
    BY <2>3, Zenon DEF JudgeTool, Go
  <2>6. way'[s].dropped = IF ActiveTool(w.dialog, x) THEN w.dropped ELSE w.dropped \cup {x}
    BY <1>1, <2>4, <2>5 DEF TypesFit, WaysFit, Way
  <2>7. t \in way'[s].dropped /\ t \notin w.dropped
    BY <1>1 DEF Drops
  <2>8. x = t /\ ~ActiveTool(d, t)
    BY <1>1, <2>6, <2>7
  <2> HIDE DEF u, t, d, w
  <2>9. u.turn - u.seen[t] > IdleThreshold
    BY <2>1, <2>2, <2>8 DEF ActiveTool, Warm, UsedSince, u
  <2>10. u.turn > m[3] + IdleThreshold
    BY <2>1, <2>2, <2>9 DEF UsedSince
  <2> QED
    BY <2>10 DEF u, d
<1>2. ASSUME UNCHANGED requestPathVars, NEW s \in Server, NEW t
      PROVE  ~Drops(s, t)
  BY <1>2 DEF requestPathVars, Drops
<1>3. TypesFit /\ [RequestPathNext]_requestPathVars =>
        \A s \in Server : way[s].at = "judge" =>
          \A m \in misses :
            m[1] = way[s].dialog /\ Drops(s, m[2]) =>
              tracker.use[m[1]].turn > m[3] + IdleThreshold
  BY <1>1, <1>2
<1> QED
  BY <1>3, TypesStayFit, PTL DEF RequestPathSpec, MissedToolsStay

-----------------------------------------------------------------------------
(* A conversation of single questions: its client has t, ending with the   *)
(* reply whose number the proxy may use; k and n are the upstream's        *)
(* responses and their number.                                             *)
LastOf(t) == t[Len(t)][2]
Complete(w, b, t) ==
  \/ b.prev = NoId /\ b.items = ToSet(w.history)
  \/ t # << >> /\ b.prev = LastOf(t) /\ b.items = {w.last}
Asking(w, t) ==
  /\ w.last \in Entry /\ w.history = Append(t, w.last) /\ Complete(w, w.own, t)
  /\ w.at \notin Early => Complete(w, w.sent, t)
AnsweredFully(w, k, n) ==
  /\ w.from = ToSet(w.history) /\ w.id \in 1 .. n
  /\ w.id \in DOMAIN k => k[w.id] = ToSet(w.history) \cup {ReplyItem(w.id)}
Question(w, t, k, n) ==
  /\ ~w.stream /\ ~w.gone
  /\ IF w.at = "store" THEN t = Append(w.history, ReplyItem(w.id)) ELSE Asking(w, t)
  /\ w.at = "answered" /\ w.resp = "ok" => AnsweredFully(w, k, n)
EndsKnown(t, k, n) ==
  t # << >> =>
    /\ LastOf(t) \in 1 .. n /\ t[Len(t)] = ReplyItem(LastOf(t))
    /\ LastOf(t) \in DOMAIN k => k[LastOf(t)] = ToSet(t)
Among(s, d) == way[s].at # "idle" /\ way[s].dialog = d
AnchorLast(d) ==
  anchor.id[d] # NoId =>
    /\ "anchor" \in world.levers /\ talk[d] # << >>
    /\ anchor.id[d] = LastOf(talk[d]) \/ \E s \in Server : Among(s, d) /\ way[s].at = "store"
OrderlyIn(d) ==
  /\ \A s, o \in Server : Among(s, d) /\ Among(o, d) => s = o
  /\ \A s \in Server : Among(s, d) => Question(way[s], talk[d], known, ids)
  /\ EndsKnown(talk[d], known, ids)
  /\ AnchorLast(d)
Orderly == \A d \in Conversation \ odd : OrderlyIn(d)

(* Of what it has once stored the upstream changes nothing.                *)
Stays(k, n, l) == \A id \in 1 .. n : id \in DOMAIN l => id \in DOMAIN k /\ l[id] = k[id]

LEMMA Lasting ==
  ASSUME NEW t, NEW k, NEW l, NEW n \in Nat, NEW m \in Nat, n <= m, Stays(k, n, l)
  PROVE  /\ EndsKnown(t, k, n) => EndsKnown(t, l, m)
         /\ \A w : Question(w, t, k, n) => Question(w, t, l, m)
<1>1. \A id \in 1 .. n : id \in 1 .. m /\ (id \in DOMAIN l => id \in DOMAIN k /\ l[id] = k[id])
  BY DEF Stays
<1>2. EndsKnown(t, k, n) => EndsKnown(t, l, m)
  BY <1>1, Zenon DEF EndsKnown
<1>3. \A w : AnsweredFully(w, k, n) => AnsweredFully(w, l, m)
  BY <1>1, Zenon DEF AnsweredFully
<1>4. \A w : Question(w, t, k, n) => Question(w, t, l, m)
  BY <1>3, Zenon DEF Question
<1> QED
  BY <1>2, <1>4

LEMMA Storing ==
  ASSUME UpstreamFits, UpstreamSame \/ (Forgets /\ ids' = ids) \/ \E w : Takes(w)
  PROVE  Stays(known, ids, known') /\ ids \in Nat /\ ids' \in Nat /\ ids <= ids'
<1>1. ids \in Nat /\ DOMAIN known \subseteq 1 .. ids
  BY DEF UpstreamFits
<1>2. CASE UpstreamSame
  BY <1>1, <1>2 DEF UpstreamSame, Stays
<1>3. CASE Forgets /\ ids' = ids
  BY <1>1, <1>3 DEF Forgets, Stays
<1>4. CASE \E w : Takes(w)
  <2>1. /\ ids' = ids + 1 /\ DOMAIN known' = DOMAIN known \cup {ids'}
        /\ \A id \in DOMAIN known : id # ids' => known'[id] = known[id]
    BY <1>4, Zenon DEF Takes
  <2>2. \A id \in 1 .. ids : id # ids'
    BY <1>1, <2>1
  <2>3. Stays(known, ids, known')
    BY <2>1, <2>2 DEF Stays
  <2> QED
    BY <1>1, <2>1, <2>3
<1> QED
  BY <1>2, <1>3, <1>4

(* What one request does leaves the other conversations as they are.       *)
LEMMA Bystanders ==
  ASSUME WaysFit, NEW d \in Conversation, OrderlyIn(d), NEW s \in Server, NEW v,
         way' = [way EXCEPT ![s] = v], ~Among(s, d), v.at = "idle" \/ v.dialog # d,
         talk'[d] = talk[d], anchor'.id[d] \in {anchor.id[d], NoId}, world' = world,
         Stays(known, ids, known'), ids \in Nat, ids' \in Nat, ids <= ids'
  PROVE  OrderlyIn(d)'
<1>1. /\ way'[s] = v /\ \A o \in Server : o # s => way'[o] = way[o]
  BY Moved
<1>2. \A o \in Server : Among(o, d)' => o # s /\ Among(o, d) /\ way'[o] = way[o]
  <2> SUFFICES ASSUME NEW o \in Server, Among(o, d)'
               PROVE  o # s /\ Among(o, d) /\ way'[o] = way[o]
    OBVIOUS
  <2>1. way'[o].at # "idle" /\ way'[o].dialog = d
    BY DEF Among
  <2>2. o # s
    BY <1>1, <2>1
  <2> QED
    BY <1>1, <2>1, <2>2 DEF Among
<1>3. \A o \in Server : Among(o, d) => Among(o, d)' /\ way'[o] = way[o]
  <2> SUFFICES ASSUME NEW o \in Server, Among(o, d)
               PROVE  Among(o, d)' /\ way'[o] = way[o]
    OBVIOUS
  <2>1. o # s
    OBVIOUS
  <2> QED
    BY <1>1, <2>1 DEF Among
<1>4. \A o, p \in Server : Among(o, d)' /\ Among(p, d)' => o = p
  BY <1>2, Zenon DEF OrderlyIn
<1>5. \A o \in Server : Among(o, d)' => Question(way'[o], talk'[d], known', ids')
  <2> SUFFICES ASSUME NEW o \in Server, Among(o, d)'
               PROVE  Question(way'[o], talk'[d], known', ids')
    OBVIOUS
  <2>1. Question(way[o], talk[d], known, ids) /\ way'[o] = way[o]
    BY <1>2, Zenon DEF OrderlyIn
  <2>2. Question(way[o], talk[d], known', ids')
    BY <2>1, Lasting
  <2> QED
    BY <2>1, <2>2, Zenon
<1>6. EndsKnown(talk'[d], known', ids')
  <2>1. EndsKnown(talk[d], known, ids)
    BY Zenon DEF OrderlyIn
  <2>2. EndsKnown(talk[d], known', ids')
    BY <2>1, Lasting
  <2> QED
    BY <2>2, Zenon
<1>7. AnchorLast(d)'
  <2> SUFFICES ASSUME anchor'.id[d] # NoId
               PROVE  /\ "anchor" \in world.levers /\ talk'[d] # << >>
                      /\ \/ anchor'.id[d] = LastOf(talk'[d])
                         \/ \E o \in Server : Among(o, d)' /\ way'[o].at = "store"
    BY Zenon DEF AnchorLast
  <2>1. anchor'.id[d] = anchor.id[d]
    OBVIOUS
  <2>2. /\ "anchor" \in world.levers /\ talk[d] # << >>
        /\ anchor.id[d] = LastOf(talk[d]) \/ \E o \in Server : Among(o, d) /\ way[o].at = "store"
    BY <2>1, Zenon DEF OrderlyIn, AnchorLast
  <2> QED
    BY <1>3, <2>1, <2>2, Zenon
<1> QED
  BY <1>4, <1>5, <1>6, <1>7, Zenon DEF OrderlyIn

(* In its own conversation it is the only request.                         *)
LEMMA Participant ==
  ASSUME WaysFit, NEW d \in Conversation, NEW s \in Server, NEW v,
         way' = [way EXCEPT ![s] = v], \A o \in Server : o # s => ~Among(o, d),
         v.at # "idle" => v.dialog = d /\ Question(v, talk'[d], known', ids'),
         EndsKnown(talk'[d], known', ids'),
         anchor'.id[d] # NoId =>
           /\ "anchor" \in world'.levers /\ talk'[d] # << >>
           /\ anchor'.id[d] = LastOf(talk'[d]) \/ v.at = "store"
  PROVE  OrderlyIn(d)'
<1>1. /\ way'[s] = v /\ \A o \in Server : o # s => way'[o] = way[o]
  BY Moved
<1>2. \A o \in Server : Among(o, d)' => o = s
  BY <1>1 DEF Among
<1>3. Among(s, d)' => Question(way'[s], talk'[d], known', ids')
  BY <1>1 DEF Among
<1>4. v.at = "store" => Among(s, d)' /\ way'[s].at = "store"
  BY <1>1 DEF Among
<1>5. AnchorLast(d)'
  BY <1>4, Zenon DEF AnchorLast
<1>6. \A o, p \in Server : Among(o, d)' /\ Among(p, d)' => o = p
  BY <1>2, Zenon
<1>7. \A o \in Server : Among(o, d)' => Question(way'[o], talk'[d], known', ids')
  BY <1>2, <1>3, Zenon
<1> QED
  BY <1>5, <1>6, <1>7, Zenon DEF OrderlyIn

LEMMA Mine ==
  ASSUME NEW d \in Conversation, OrderlyIn(d), NEW s \in Server, way[s] \in Way,
         way[s].dialog = d
  PROVE  /\ \A o \in Server : o # s => ~Among(o, d)
         /\ Question(way[s], talk[d], known, ids) /\ EndsKnown(talk[d], known, ids)
         /\ way[s].at # "store" =>
              (anchor.id[d] # NoId => /\ "anchor" \in world.levers /\ talk[d] # << >>
                                      /\ anchor.id[d] = LastOf(talk[d]))
<1>1. way[s].at # "idle"
  BY WayTypes
<1>2. Among(s, d)
  BY <1>1 DEF Among
<1>3. \A o \in Server : o # s => ~Among(o, d)
  BY <1>2, Zenon DEF OrderlyIn
<1>4. Question(way[s], talk[d], known, ids) /\ EndsKnown(talk[d], known, ids) /\ AnchorLast(d)
  BY <1>2, Zenon DEF OrderlyIn
<1>5. way[s].at # "store" => ~\E o \in Server : Among(o, d) /\ way[o].at = "store"
  BY <1>3, Zenon
<1> QED
  BY <1>3, <1>4, <1>5, Zenon DEF AnchorLast

LEMMA AskedOrderly ==
  ASSUME TypesFit, NEW d \in Conversation, d \notin odd', OrderlyIn(d), NEW s \in Server, NEW v,
         Asked(s, v), talk' = talk, anchor' = anchor, world' = world,
         Stays(known, ids, known'), ids \in Nat, ids' \in Nat, ids <= ids'
  PROVE  OrderlyIn(d)'
<1>1. way[s].at = "idle" /\ way' = [way EXCEPT ![s] = v] /\ ~Among(s, d) /\ WaysFit
  BY DEF Asked, Among, TypesFit
<1>2. CASE v.dialog # d
  BY <1>1, <1>2, Bystanders
<1>3. CASE v.dialog = d
  <2>1. /\ \A o \in Server : way[o].at # "idle" => way[o].dialog # d
        /\ NextQuestion(v) /\ v.at \in Early
    BY <1>3 DEF Asked, Fresh
  <2>2. \A o \in Server : ~Among(o, d)
    BY <2>1, Zenon DEF Among
  <2>3. EndsKnown(talk[d], known, ids) /\ AnchorLast(d)
    BY Zenon DEF OrderlyIn
  <2>4. Complete(v, v.own, talk[d])
    <3>1. \/ v.own.prev = NoId /\ v.own.items = ToSet(v.history)
          \/ /\ talk[d] # << >> /\ v.own.items = {v.last}
             /\ IsReply(talk[d][Len(talk[d])]) => v.own.prev = LastOf(talk[d])
      BY <1>3, <2>1, Zenon DEF NextQuestion, WholeHistory, SinceReply, LastId, LastOf
    <3>2. talk[d] # << >> => IsReply(talk[d][Len(talk[d])])
      BY <2>3 DEF EndsKnown, ReplyItem, IsReply
    <3> QED
      BY <3>1, <3>2, Zenon DEF Complete
  <2>5. Question(v, talk[d], known, ids)
    BY <1>3, <2>1, <2>4, Phases DEF Question, Asking, NextQuestion
  <2>6. Question(v, talk'[d], known', ids') /\ EndsKnown(talk'[d], known', ids')
    BY <2>3, <2>5, Lasting
  <2>7. anchor'.id[d] # NoId => /\ "anchor" \in world'.levers /\ talk'[d] # << >>
                                /\ anchor'.id[d] = LastOf(talk'[d])
    BY <2>2, <2>3 DEF AnchorLast
  <2> QED
    BY <1>1, <1>3, <2>2, <2>6, <2>7, Participant
<1> QED
  BY <1>2, <1>3

(* What is sent instead says as much.                                      *)
LEMMA SaysAsMuch ==
  ASSUME NEW w \in Way, NEW t, Complete(w, w.own, t), NEW id \in Id,
         id # NoId => t # << >> /\ id = LastOf(t),
         NEW tools \in SUBSET Tool, NEW hints \in BOOLEAN
  PROVE  /\ Complete(w, Rewritten(w, Whole(w, tools, hints), id), t)
         /\ Complete(w, Whole(w, tools, hints), t)
<1> DEFINE body == Whole(w, tools, hints)
           b == Rewritten(w, body, id)
<1>1. body \in Sendable /\ body.prev = w.own.prev /\ body.items = w.own.items
  BY WholeBody
<1> HIDE DEF body
<1>2. IF id = NoId \/ w.last = NoTurn THEN b = body ELSE b.prev = id /\ b.items = {w.last}
  BY <1>1, RewrittenBody
<1> HIDE DEF b
<1>3. Complete(w, body, t)
  BY <1>1, Zenon DEF Complete
<1>4. Complete(w, b, t)
  BY <1>2, <1>3 DEF Complete
<1> QED
  BY <1>3, <1>4 DEF b, body

LEMMA OwnSteps ==
  ASSUME TypesFit, NEW d \in Conversation, OrderlyIn(d), NEW s \in Server, NEW v,
         way[s] \in Way, way[s].dialog = d, way[s].at # "store",
         way' = [way EXCEPT ![s] = v],
         v.at # "idle" => v.dialog = d /\ Question(v, talk[d], known', ids'),
         talk' = talk, anchor'.id[d] \in {anchor.id[d], NoId}, world' = world,
         Stays(known, ids, known'), ids \in Nat, ids' \in Nat, ids <= ids'
  PROVE  OrderlyIn(d)'
<1>1. /\ \A o \in Server : o # s => ~Among(o, d)
      /\ EndsKnown(talk[d], known, ids)
      /\ anchor.id[d] # NoId => /\ "anchor" \in world.levers /\ talk[d] # << >>
                                /\ anchor.id[d] = LastOf(talk[d])
  BY Mine
<1>2. EndsKnown(talk'[d], known', ids')
  BY <1>1, Lasting
<1>3. anchor'.id[d] # NoId => /\ "anchor" \in world'.levers /\ talk'[d] # << >>
                              /\ anchor'.id[d] = LastOf(talk'[d])
  BY <1>1
<1>4. v.at # "idle" => v.dialog = d /\ Question(v, talk'[d], known', ids')
  OBVIOUS
<1>5. WaysFit
  BY DEF TypesFit
<1> QED
  BY <1>1, <1>2, <1>3, <1>4, <1>5, Participant

LEMMA PreparedOrderly ==
  ASSUME TypesFit, NEW d \in Conversation, OrderlyIn(d), NEW s \in Server, NEW v,
         PreparedTo(s, v), talk' = talk, anchor' = anchor, world' = world,
         Stays(known, ids, known'), ids \in Nat, ids' \in Nat, ids <= ids'
  PROVE  OrderlyIn(d)'
<1> DEFINE w == way[s]
<1>1. /\ w \in Way /\ w.at \in Early /\ v.at \in Early /\ way' = [way EXCEPT ![s] = v]
      /\ v.dialog = w.dialog /\ v.history = w.history /\ v.stream = w.stream
      /\ v.last = w.last /\ v.own = w.own /\ v.gone = w.gone
  BY DEF PreparedTo, Prepared, SameRequest
<1>2. CASE w.dialog # d
  <2>1. ~Among(s, d) /\ WaysFit
    BY <1>2 DEF Among, TypesFit
  <2> QED
    BY <1>1, <1>2, <2>1, Bystanders
<1>3. CASE w.dialog = d
  <2>1. Question(w, talk[d], known, ids)
    BY <1>1, <1>3, Mine
  <2>2. Asking(w, talk[d]) /\ ~w.stream /\ ~w.gone
    BY <1>1, <2>1, Phases DEF Question
  <2>3. Complete(v, v.own, talk[d])
    BY <1>1, <2>2, Zenon DEF Asking, Complete
  <2>4. Asking(v, talk[d])
    BY <1>1, <2>2, <2>3 DEF Asking
  <2>5. Question(v, talk[d], known', ids')
    BY <1>1, <2>2, <2>4, Phases DEF Question
  <2>6. w.at # "store"
    BY <1>1, Phases
  <2> QED
    BY <1>1, <1>3, <2>5, <2>6, OwnSteps
<1> QED
  BY <1>2, <1>3

(* A request that is about to be sent, or sent again.                      *)
LEMMA AsksAgain ==
  ASSUME NEW w \in Way, NEW v \in Way, NEW t, NEW k, NEW n, Made(w, v),
         Asking(w, t), ~w.stream, ~w.gone, v.at \in Attempt, Complete(w, v.sent, t)
  PROVE  Question(v, t, k, n)
<1>1. /\ v.history = w.history /\ v.stream = w.stream
      /\ v.last = w.last /\ v.own = w.own /\ v.gone = w.gone
  BY DEF Made, SameRequest
<1>2. Complete(v, v.own, t) /\ Complete(v, v.sent, t)
  BY <1>1, Zenon DEF Asking, Complete
<1>3. Asking(v, t)
  BY <1>1, <1>2 DEF Asking
<1> QED
  BY <1>1, <1>3, Phases DEF Question

LEMMA FirstOrderly ==
  ASSUME TypesFit, NEW d \in Conversation, OrderlyIn(d), NEW s \in Server, NEW v,
         way' = [way EXCEPT ![s] = v], SentFirst(way[s], v),
         talk' = talk, anchor' = anchor, world' = world,
         Stays(known, ids, known'), ids \in Nat, ids' \in Nat, ids <= ids'
  PROVE  OrderlyIn(d)'
<1> DEFINE w == way[s]
           id == AnchorOf(w)
<1>1. /\ w \in Way /\ v \in Way /\ Made(w, v) /\ w.at \in Early /\ v.at = "send"
      /\ v.at \in Attempt /\ v.dialog = w.dialog
      /\ v.sent = Rewritten(w, Whole(w, Kept(w), w.hinted), id)
  BY Phases DEF SentFirst, Made, SameRequest
<1>2. CASE w.dialog # d
  <2>1. ~Among(s, d) /\ WaysFit
    BY <1>2 DEF Among, TypesFit
  <2> QED
    BY <1>1, <1>2, <2>1, Bystanders
<1>3. CASE w.dialog = d
  <2>1. w.at # "store"
    BY <1>1, Phases
  <2>2. /\ Question(w, talk[d], known, ids)
        /\ anchor.id[d] # NoId => talk[d] # << >> /\ anchor.id[d] = LastOf(talk[d])
    BY <1>1, <1>3, <2>1, Mine
  <2>3. Asking(w, talk[d]) /\ ~w.stream /\ ~w.gone
    BY <2>1, <2>2 DEF Question
  <2>4. id \in Id /\ (id # NoId => talk[d] # << >> /\ id = LastOf(talk[d]))
    BY <1>1, <1>3, <2>2, AnchorIds DEF AnchorOf, TypesFit
  <2>5. Kept(w) \in SUBSET Tool /\ w.hinted \in BOOLEAN
    BY <1>1, KeptTools DEF Way
  <2>6. Complete(w, v.sent, talk[d])
    <3>1. Complete(w, w.own, talk[d])
      BY <2>3 DEF Asking
    <3> HIDE DEF w, id
    <3>2. Complete(w, Rewritten(w, Whole(w, Kept(w), w.hinted), id), talk[d])
      BY <1>1, <2>4, <2>5, <3>1, SaysAsMuch
    <3> QED
      BY <1>1, <3>2, Zenon
  <2>7. Question(v, talk[d], known', ids')
    BY <1>1, <2>3, <2>6, AsksAgain
  <2> QED
    BY <1>1, <1>3, <2>1, <2>7, OwnSteps
<1> QED
  BY <1>2, <1>3

(* An answer to a body that says as much is made from the whole history.   *)
LEMMA FromAll ==
  ASSUME NEW w \in Way, NEW t \in Seq(Entry), Asking(w, t), Complete(w, Body(w), t),
         EndsKnown(t, known, ids), ids \in Nat, Takes(w)
  PROVE  FromOf(w) = ToSet(w.history)
<1> DEFINE b == Body(w)
<1>1. ToSet(w.history) = ToSet(t) \cup {w.last}
  BY AppendFacts DEF Asking
<1>2. CASE b.prev = NoId /\ b.items = ToSet(w.history)
  BY <1>2 DEF FromOf
<1>3. CASE t # << >> /\ b.prev = LastOf(t) /\ b.items = {w.last}
  <2>1. LastOf(t) \in 1 .. ids /\ (LastOf(t) \in DOMAIN known => known[LastOf(t)] = ToSet(t))
    BY <1>3 DEF EndsKnown
  <2>2. b.prev # NoId
    BY <1>3, <2>1, RequestPathAssumption
  <2>3. b.prev \in DOMAIN known
    BY <2>2 DEF Takes
  <2> HIDE DEF b
  <2>4. FromOf(w) = {w.last} \cup known[b.prev]
    BY <1>3, <2>2 DEF FromOf, b
  <2>5. known[b.prev] = ToSet(t)
    BY <1>3, <2>1, <2>3
  <2> QED
    BY <1>1, <2>4, <2>5
<1> QED
  BY <1>2, <1>3, Zenon DEF Complete

LEMMA SentOrderly ==
  ASSUME TypesFit, NEW d \in Conversation, OrderlyIn(d), NEW s \in Server, NEW v,
         Sent(s, v), talk' = talk, anchor' = anchor, world' = world,
         Stays(known, ids, known'), ids \in Nat, ids' \in Nat, ids <= ids'
  PROVE  OrderlyIn(d)'
<1> DEFINE w == way[s]
<1>1. w \in Way /\ w.at \in Attempt /\ way' = [way EXCEPT ![s] = v] /\ WaysFit
  BY DEF Sent, TypesFit
<1>2. v.at = "idle" \/ AsMade(w, v)
  BY DEF Sent, Turned, Retried, AnswerTo, LostAnswer, Idle
<1>3. AsMade(w, v) => v \in Way /\ Made(w, v) /\ v.dialog = w.dialog /\ v.sent = w.sent
  BY DEF AsMade, Made, SameRequest
<1>4. CASE w.dialog # d
  <2>1. ~Among(s, d)
    BY <1>4 DEF Among
  <2> QED
    BY <1>1, <1>2, <1>3, <1>4, <2>1, Bystanders
<1>5. CASE w.dialog = d
  <2>1. w.at \notin Early \cup {"answered", "store"}
    BY <1>1, Phases
  <2>2. Question(w, talk[d], known, ids) /\ EndsKnown(talk[d], known, ids)
    BY <1>1, <1>5, Mine
  <2>3. Asking(w, talk[d]) /\ ~w.stream /\ ~w.gone
    BY <2>1, <2>2 DEF Question
  <2>4. Complete(w, w.sent, talk[d]) /\ Complete(w, Body(w), talk[d])
    BY <2>1, <2>3 DEF Asking, Body
  <2>5. talk[d] \in Seq(Entry)
    <3> HIDE DEF Entry
    <3> QED
      BY DEF TypesFit, ClientFits
  <2> HIDE DEF w
  <2>6. ASSUME AsMade(w, v), v.at \in Attempt
        PROVE  Question(v, talk[d], known', ids')
    BY <1>1, <1>3, <2>3, <2>4, <2>6, AsksAgain
  <2>7. ASSUME AsMade(w, v), v.at = "answered",
               v.resp = "ok" => AnsweredFully(v, known', ids')
        PROVE  Question(v, talk[d], known', ids')
    <3>1. /\ v.history = w.history /\ v.stream = w.stream /\ v.sent = w.sent
          /\ v.last = w.last /\ v.own = w.own /\ v.gone = w.gone
      BY <2>7 DEF AsMade, Made, SameRequest
    <3>2. Complete(v, v.own, talk[d]) /\ Complete(v, v.sent, talk[d])
      BY <2>3, <2>4, <3>1, Zenon DEF Asking, Complete
    <3>3. Asking(v, talk[d])
      BY <2>3, <3>1, <3>2 DEF Asking
    <3> QED
      BY <2>3, <2>7, <3>1, <3>3 DEF Question
  <2>8. ASSUME Turned(w, v)
        PROVE  Question(v, talk[d], known', ids')
    BY <2>7, <2>8 DEF Turned
  <2>9. ASSUME Retried(w, v) \/ LostAnswer(w, v)
        PROVE  Question(v, talk[d], known', ids')
    BY <2>6, <2>9, Phases DEF Retried, LostAnswer
  <2>10. ASSUME AnswerTo(w, v), Takes(w)
         PROVE  Question(v, talk[d], known', ids')
    <3>1. /\ AsMade(w, v) /\ v.at = "answered" /\ v.id = ids' /\ v.from = FromOf(w)
          /\ v.history = w.history
      BY <2>10 DEF AnswerTo, AsMade, Made, SameRequest
    <3>2. FromOf(w) = ToSet(w.history)
      BY <1>1, <2>2, <2>3, <2>4, <2>5, <2>10, FromAll
    <3>3. ids' \in 1 .. ids' /\ known'[ids'] = FromOf(w) \cup {ReplyItem(ids')}
      BY <2>10 DEF Takes
    <3>4. AnsweredFully(v, known', ids')
      BY <3>1, <3>2, <3>3, Zenon DEF AnsweredFully
    <3> QED
      BY <2>7, <3>1, <3>4
  <2>11. v.at # "idle" => v.dialog = d /\ Question(v, talk[d], known', ids')
    <3>1. CASE v = Idle
      BY <3>1 DEF Idle
    <3>2. CASE v # Idle
      <4>1. Question(v, talk[d], known', ids')
        BY <2>8, <2>9, <2>10, <3>2, Zenon DEF Sent, w
      <4> QED
        BY <1>2, <1>3, <1>5, <4>1
    <3> QED
      BY <3>1, <3>2
  <2>12. w.at # "store"
    BY <2>1
  <2> QED
    BY <1>1, <1>5, <2>11, <2>12, OwnSteps DEF w
<1> QED
  BY <1>4, <1>5

LEMMA AgainOrderly ==
  ASSUME TypesFit, NEW d \in Conversation, OrderlyIn(d), NEW s \in Server, NEW v,
         way[s] \in Way, way' = [way EXCEPT ![s] = v], way[s].at = "answered",
         Again(s, v), talk' = talk, world' = world, ids' = ids,
         Stays(known, ids, known'), ids \in Nat, ids' \in Nat, ids <= ids'
  PROVE  OrderlyIn(d)'
<1> DEFINE w == way[s]
<1>1. /\ Made(w, v) /\ v.at = "send"
      /\ v.sent \in {WithoutHints(w), WithAllTools(w), WithoutId(w)}
      /\ anchor' = anchor \/ AnchorDrops(w.dialog)
  BY DEF Again, Resent
<1>2. v \in Way /\ v.dialog = w.dialog /\ v.at \in Attempt
  BY <1>1, Phases DEF Made, SameRequest
<1>3. anchor'.id[d] \in {anchor.id[d], NoId}
  <2>1. w.dialog \in Conversation /\ AnchorFits
    BY WayTypes DEF TypesFit
  <2>2. CASE anchor' = anchor
    BY <2>2
  <2>3. CASE AnchorDrops(w.dialog)
    BY <2>1, <2>3, DropsKeeps
  <2> QED
    BY <1>1, <2>2, <2>3
<1>4. CASE w.dialog # d
  <2>1. ~Among(s, d) /\ WaysFit
    BY <1>4 DEF Among, TypesFit
  <2> QED
    BY <1>2, <1>3, <1>4, <2>1, Bystanders
<1>5. CASE w.dialog = d
  <2>1. /\ Question(w, talk[d], known, ids)
        /\ anchor.id[d] # NoId => talk[d] # << >> /\ anchor.id[d] = LastOf(talk[d])
    BY <1>5, Mine
  <2>2. Asking(w, talk[d]) /\ ~w.stream /\ ~w.gone
    BY <2>1 DEF Question
  <2>3. AnchorNow(w) \in Id /\ (AnchorNow(w) # NoId => talk[d] # << >> /\ AnchorNow(w) = LastOf(talk[d]))
    BY <1>5, <2>1, AnchorIds DEF AnchorNow, TypesFit
  <2>4. Kept(w) \in SUBSET Tool /\ w.full \in SUBSET Tool /\ w.hinted \in BOOLEAN
    BY KeptTools, WayTypes DEF Way
  <2>5. Complete(w, w.own, talk[d]) /\ w \in Way /\ FALSE \in BOOLEAN
    BY <2>2 DEF Asking
  <2> HIDE DEF w
  <2>6. Complete(w, WithoutHints(w), talk[d])
    BY <2>3, <2>4, <2>5, SaysAsMuch DEF WithoutHints
  <2>7. Complete(w, WithAllTools(w), talk[d])
    BY <2>3, <2>4, <2>5, SaysAsMuch DEF WithAllTools
  <2>8. Complete(w, WithoutId(w), talk[d])
    BY <2>3, <2>4, <2>5, SaysAsMuch DEF WithoutId
  <2>9. Question(v, talk[d], known', ids')
    BY <1>1, <1>2, <2>2, <2>5, <2>6, <2>7, <2>8, AsksAgain
  <2> QED
    BY <1>2, <1>3, <1>5, <2>9, OwnSteps DEF w
<1> QED
  BY <1>4, <1>5

LEMMA ToldOrderly ==
  ASSUME TypesFit, NEW d \in Conversation, OrderlyIn(d), NEW s \in Server, NEW v,
         way[s] \in Way, way' = [way EXCEPT ![s] = v], way[s].at = "answered",
         Told(s, v), world' = world, UpstreamSame,
         Stays(known, ids, known'), ids \in Nat, ids' \in Nat, ids <= ids'
  PROVE  OrderlyIn(d)'
<1> DEFINE w == way[s]
<1>1. WaysFit /\ talk \in [Conversation -> Seq(Entry)] /\ w.dialog \in Conversation
  BY WayTypes DEF TypesFit, ClientFits
<1> HIDE DEF w
<1>2. anchor' = anchor /\ (v = Idle \/ (w.resp = "ok" /\ v = [w EXCEPT !.at = "store"]))
  BY DEF Told, w
<1>3. v = [w EXCEPT !.at = "store"] =>
        /\ v.at = "store" /\ v.dialog = w.dialog /\ v.history = w.history
        /\ v.stream = w.stream /\ v.gone = w.gone /\ v.id = w.id
  BY DEF Way, w
<1>4. v.at = "idle" \/ v.dialog = w.dialog
  BY <1>2, <1>3 DEF Idle
<1>5. CASE w.dialog # d
  <2>1. ~Among(s, d)
    BY <1>5 DEF Among, w
  <2>2. talk'[d] = talk[d]
    <3>1. talk' = talk \/ Reaches(w)
      BY Zenon DEF Told, w
    <3> HIDE DEF Entry
    <3> QED
      BY <1>1, <1>5, <3>1 DEF Reaches
  <2> QED
    BY <1>1, <1>2, <1>4, <1>5, <2>1, <2>2, Bystanders
<1>6. CASE w.dialog = d
  <2>1. Question(w, talk[d], known, ids) /\ EndsKnown(talk[d], known, ids)
        /\ (anchor.id[d] # NoId => "anchor" \in world.levers)
    BY <1>6, Mine DEF w
  <2>2. ~w.stream /\ ~w.gone /\ (w.resp = "ok" => AnsweredFully(w, known, ids))
    BY <2>1 DEF Question, w
  <2>3. CASE v = Idle
    <3>1. talk' = talk /\ v.at = "idle"
      BY <2>2, <2>3, Zenon DEF Told, w, Idle
    <3>2. anchor'.id[d] \in {anchor.id[d], NoId}
      BY <1>2
    <3>3. w.at # "store"
      BY DEF w
    <3> QED
      BY <1>6, <3>1, <3>2, <3>3, OwnSteps DEF w
  <2>4. CASE v # Idle
    <3> DEFINE r == ReplyItem(w.id)
               t == Append(w.history, r)
    <3>1. v = [w EXCEPT !.at = "store"] /\ w.resp = "ok" /\ Reaches(w)
      BY <1>2, <2>2, <2>4, Zenon DEF Told, w
    <3>2. w.history \in Seq(Entry) /\ w.id \in 1 .. ids /\ w.id \in Nat
      <4>1. w.history \in Seq(Entry)
        BY DEF Way, w
      <4> QED
        BY <2>2, <3>1, <4>1 DEF AnsweredFully
    <3>3. r \in Entry /\ r[2] = w.id
      BY <3>2 DEF ReplyItem, Entry
    <3> HIDE DEF r
    <3>4. /\ t # << >> /\ Len(t) = Len(w.history) + 1 /\ t[Len(w.history) + 1] = r
          /\ ToSet(t) = ToSet(w.history) \cup {r}
      BY <3>2, <3>3, AppendFacts
    <3>5. talk'[d] = t
      BY <1>1, <1>6, <3>1 DEF Reaches, r
    <3> HIDE DEF t
    <3>6. LastOf(t) = w.id /\ t[Len(t)] = r
      BY <3>3, <3>4 DEF LastOf
    <3>7. EndsKnown(t, known, ids)
      BY <2>2, <3>1, <3>2, <3>4, <3>6 DEF EndsKnown, AnsweredFully, r
    <3>8. v.at = "store" /\ v.dialog = d /\ Question(v, t, known, ids)
      BY <1>3, <1>6, <2>2, <3>1 DEF Question, t, r
    <3>9. EndsKnown(talk'[d], known', ids') /\ Question(v, talk'[d], known', ids')
      BY <3>5, <3>7, <3>8, Zenon DEF UpstreamSame
    <3>10. anchor'.id[d] # NoId => /\ "anchor" \in world'.levers /\ talk'[d] # << >>
      BY <1>2, <2>1, <3>4, <3>5
    <3>11. \A o \in Server : o # s => ~Among(o, d)
      BY <1>6, Mine DEF w
    <3> QED
      BY <1>1, <3>8, <3>9, <3>10, <3>11, Participant
  <2> QED
    BY <2>3, <2>4
<1> QED
  BY <1>5, <1>6

LEMMA StoredOrderly ==
  ASSUME TypesFit, NEW d \in Conversation, OrderlyIn(d), NEW s \in Server, NEW v,
         way[s] \in Way, way' = [way EXCEPT ![s] = v], way[s].at = "store",
         Stored(s, v), talk' = talk, world' = world, UpstreamSame,
         Stays(known, ids, known'), ids \in Nat, ids' \in Nat, ids <= ids'
  PROVE  OrderlyIn(d)'
<1> DEFINE w == way[s]
<1>1. /\ v = Idle /\ v.at = "idle" /\ WaysFit /\ AnchorFits
      /\ IF "anchor" \in world.levers THEN AnchorStores(w.dialog, w.id) ELSE anchor' = anchor
  BY DEF Stored, TypesFit, Idle
<1>2. w.id \in 1 .. ids /\ w.dialog \in Conversation /\ ids' = ids
  BY WayTypes DEF TypesFit, Numbered, HasAnswer, UpstreamSame
<1>3. CASE "anchor" \notin world.levers
  <2>1. anchor' = anchor
    BY <1>1, <1>3
  <2>2. anchor.id[d] = NoId
    BY <1>3, Zenon DEF OrderlyIn, AnchorLast
  <2>3. CASE w.dialog # d
    <3>1. ~Among(s, d)
      BY <2>3 DEF Among
    <3> QED
      BY <1>1, <2>1, <2>3, <3>1, Bystanders
  <2>4. CASE w.dialog = d
    <3>1. (\A o \in Server : o # s => ~Among(o, d)) /\ EndsKnown(talk[d], known, ids)
      BY <2>4, Mine
    <3>2. EndsKnown(talk'[d], known', ids')
      BY <3>1, Lasting
    <3> QED
      BY <1>1, <2>1, <2>2, <3>1, <3>2, Participant
  <2> QED
    BY <2>3, <2>4
<1>4. CASE "anchor" \in world.levers
  <2>1. /\ anchor'.id[w.dialog] = w.id
        /\ \A o \in Conversation : o # w.dialog => anchor'.id[o] \in {anchor.id[o], NoId}
    BY <1>1, <1>2, <1>4, StoresKeeps
  <2>2. CASE w.dialog # d
    <3>1. ~Among(s, d)
      BY <2>2 DEF Among
    <3> QED
      BY <1>1, <2>1, <2>2, <3>1, Bystanders
  <2>3. CASE w.dialog = d
    <3>1. /\ \A o \in Server : o # s => ~Among(o, d)
          /\ EndsKnown(talk[d], known, ids) /\ Question(w, talk[d], known, ids)
      BY <2>3, Mine
    <3>2. talk[d] = Append(w.history, ReplyItem(w.id))
      BY <3>1 DEF Question
    <3>3. w.history \in Seq(Entry) /\ ReplyItem(w.id) \in Entry /\ ReplyItem(w.id)[2] = w.id
      <4>1. w.history \in Seq(Entry)
        BY DEF Way
      <4>2. ReplyItem(w.id) \in Entry /\ ReplyItem(w.id)[2] = w.id
        BY <1>2 DEF ReplyItem, Entry
      <4> QED
        BY <4>1, <4>2
    <3> HIDE DEF w
    <3>4. talk[d] # << >> /\ LastOf(talk[d]) = w.id
      <4> DEFINE h == w.history
                 r == ReplyItem(w.id)
      <4> HIDE DEF h, r
      <4>1. LET t == Append(h, r) IN t # << >> /\ t[Len(t)] = r
        BY <3>3, AppendFacts DEF h, r
      <4>2. talk[d] # << >> /\ talk[d][Len(talk[d])] = r
        BY <3>2, <4>1 DEF h, r
      <4> QED
        BY <3>3, <4>2 DEF LastOf, r
    <3>5. EndsKnown(talk'[d], known', ids')
      BY <3>1, Lasting
    <3>6. anchor'.id[d] # NoId => /\ "anchor" \in world'.levers /\ talk'[d] # << >>
                                  /\ anchor'.id[d] = LastOf(talk'[d])
      BY <1>4, <2>1, <2>3, <3>4
    <3> QED
      BY <1>1, <3>1, <3>5, <3>6, Participant
  <2> QED
    BY <2>2, <2>3
<1> QED
  BY <1>3, <1>4

LEMMA MoveOrderly ==
  ASSUME TypesFit, Orderly, TypesFit', NEW s \in Server, NEW v, Move(s, v)
  PROVE  Orderly'
<1>1. UpstreamSame \/ \E w : Takes(w)
  BY Zenon DEF Move, Sent
<1>2. Stays(known, ids, known') /\ ids \in Nat /\ ids' \in Nat /\ ids <= ids'
  BY <1>1, Storing DEF TypesFit
<1>3. odd \subseteq odd'
  BY DEF Move, Asked, Left, SameStores
<1>4. ASSUME NEW d \in Conversation, d \notin odd'
      PROVE  OrderlyIn(d)'
  <2>1. OrderlyIn(d)
    BY <1>3, <1>4 DEF Orderly
  <2>2. CASE Asked(s, v) /\ talk' = talk /\ anchor' = anchor /\ world' = world
    BY <1>2, <1>4, <2>1, <2>2, AskedOrderly
  <2>3. CASE Left(s, v) /\ talk' = talk /\ anchor' = anchor /\ world' = world
    <3>1. way[s] \in Way /\ v = [way[s] EXCEPT !.gone = TRUE] /\ way' = [way EXCEPT ![s] = v]
      BY <2>3 DEF Left
    <3>2. v.dialog = way[s].dialog
      BY <3>1, LeftWay
    <3>3. way[s].dialog # d
      BY <1>4, <2>3 DEF Left
    <3>4. ~Among(s, d) /\ WaysFit
      BY <3>3 DEF Among, TypesFit
    <3> QED
      BY <1>2, <2>1, <2>3, <3>1, <3>2, <3>3, <3>4, Bystanders
  <2>4. CASE PreparedTo(s, v) /\ SameStores
    BY <1>2, <2>1, <2>4, PreparedOrderly DEF SameStores
  <2>5. CASE way' = [way EXCEPT ![s] = v] /\ SentFirst(way[s], v) /\ SameStores
    BY <1>2, <2>1, <2>5, FirstOrderly DEF SameStores
  <2>6. CASE Sent(s, v) /\ SameStores
    BY <1>2, <2>1, <2>6, SentOrderly DEF SameStores
  <2>7. CASE Responded(s, v) /\ UpstreamSame /\ world' = world
    <3>1. way[s] \in Way /\ way' = [way EXCEPT ![s] = v] /\ ids' = ids
      BY <2>7 DEF Responded, UpstreamSame
    <3>2. CASE way[s].at = "answered" /\ Again(s, v) /\ talk' = talk
      BY <1>2, <2>1, <2>7, <3>1, <3>2, AgainOrderly
    <3>3. CASE way[s].at = "answered" /\ Told(s, v)
      BY <1>2, <2>1, <2>7, <3>1, <3>3, ToldOrderly
    <3>4. CASE way[s].at = "store" /\ Stored(s, v) /\ talk' = talk
      BY <1>2, <2>1, <2>7, <3>1, <3>4, StoredOrderly
    <3> QED
      BY <2>7, <3>2, <3>3, <3>4, Zenon DEF Responded
  <2> QED
    BY <2>2, <2>3, <2>4, <2>5, <2>6, <2>7, Zenon DEF Move
<1> QED
  BY <1>4 DEF Orderly

LEMMA ForgetsOrderly ==
  ASSUME TypesFit, Orderly, way' = way, ids' = ids, Forgets, SameStores
  PROVE  Orderly'
<1>1. Stays(known, ids, known') /\ ids \in Nat
  BY Storing DEF TypesFit
<1>2. talk' = talk /\ anchor' = anchor /\ odd' = odd /\ world' = world
  BY DEF SameStores
<1>3. ASSUME NEW d \in Conversation, d \notin odd
      PROVE  OrderlyIn(d)'
  <2>1. OrderlyIn(d)
    BY <1>3 DEF Orderly
  <2>2. EndsKnown(talk[d], known', ids)
    BY <1>1, <2>1, Lasting DEF OrderlyIn
  <2>3. \A o \in Server : Among(o, d) => Question(way[o], talk[d], known', ids)
    BY <1>1, <2>1, Lasting DEF OrderlyIn
  <2>4. AnchorLast(d)' <=> AnchorLast(d)
    BY <1>2, Zenon DEF AnchorLast, Among
  <2> QED
    BY <1>2, <2>1, <2>2, <2>3, <2>4, Zenon DEF OrderlyIn, Among
<1> QED
  BY <1>2, <1>3 DEF Orderly

LEMMA StepOrderly ==
  ASSUME TypesFit, Orderly, [RequestPathNext]_requestPathVars
  PROVE  Orderly'
<1>1. CASE RequestPathNext
  BY <1>1, StepFacts, MoveOrderly, ForgetsOrderly, Zenon DEF Moves
<1>2. CASE UNCHANGED requestPathVars
  <2>1. /\ way' = way /\ anchor' = anchor /\ world' = world /\ talk' = talk
        /\ known' = known /\ ids' = ids /\ odd' = odd
    BY <1>2 DEF requestPathVars, clientVars, upstreamVars
  <2> QED
    BY <2>1, ForgetsOrderly DEF Forgets, SameStores
<1> QED
  BY <1>1, <1>2

(* In a conversation of single questions, every answer is made from the    *)
(* client's whole history and nothing else, although the proxy sends only  *)
(* the end of it with the id of the last answer (server_state.go,          *)
(* response_state.go, handler.go): through lost answers, refusals, retries *)
(* and overflows, and ids that the proxy or the upstream has dropped; for  *)
(* any number of conversations, goroutines and requests.                   *)
THEOREM AnswersStayWhole == RequestPathSpec => []QuestionsAnsweredInFull
<1>1. RequestPathInit => Orderly
  <2> SUFFICES ASSUME RequestPathInit PROVE Orderly
    OBVIOUS
  <2>1. /\ talk = [d \in Conversation |-> << >>] /\ way = [s \in Server |-> Idle]
        /\ anchor = [order |-> << >>, id |-> [d \in Conversation |-> NoId]]
    BY DEF RequestPathInit
  <2>2. \A s \in Server : \A d : ~Among(s, d)
    BY <2>1 DEF Among, Idle
  <2>3. ASSUME NEW d \in Conversation
        PROVE  EndsKnown(talk[d], known, ids) /\ AnchorLast(d)
    BY <2>1 DEF EndsKnown, AnchorLast
  <2> QED
    BY <2>2, <2>3, Zenon DEF Orderly, OrderlyIn
<1>2. TypesFit /\ Orderly /\ [RequestPathNext]_requestPathVars => Orderly'
  BY StepOrderly
<1>3. TypesFit /\ Orderly => QuestionsAnsweredInFull
  <2> SUFFICES ASSUME TypesFit, Orderly, NEW s \in Server,
                      way[s].at # "idle", way[s].dialog \notin odd
               PROVE  InFull(way[s])
    BY DEF QuestionsAnsweredInFull
  <2> DEFINE d == way[s].dialog
  <2>1. d \in Conversation
    BY UnderWay, WayTypes DEF TypesFit
  <2>2. Among(s, d) /\ OrderlyIn(d)
    BY <2>1 DEF Orderly, Among
  <2>3. Question(way[s], talk[d], known, ids)
    BY <2>2, Zenon DEF OrderlyIn
  <2> QED
    BY <2>3, Zenon DEF Question, AnsweredFully, InFull
<1> QED
  BY <1>1, <1>2, <1>3, TypesStayFit, PTL DEF RequestPathSpec
===============================================================================
