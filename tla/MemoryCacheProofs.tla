-------------------------- MODULE MemoryCacheProofs --------------------------
(***************************************************************************)
(* For any keys, generations, values and bounds: the memory cache can      *)
(* evict every entry it holds and never holds more than its bound, and one *)
(* Set of a surviving class has at most one winner.                        *)
(***************************************************************************)
EXTENDS MemoryCache, FiniteSetTheorems, TLAPS

-----------------------------------------------------------------------------
(* The invariants                                                          *)

\* The list is as long as there were Sets, at most, and no longer than its bound.
ListOK ==
  /\ IsInjective(lru) /\ Len(lru) <= writes
  /\ MaxItems > 0 => Len(lru) <= MaxItems

Held(g, k) == segments[g][k] # NoEntry

\* Every entry has an element of its own on the list, which names its key.
OwnElements ==
  /\ \A g \in DOMAIN segments, k \in Keys : Held(g, k) =>
        segments[g][k].element \in ToSet(lru) /\ segments[g][k].element.key = k
  /\ \A g, h \in DOMAIN segments, k \in Keys :
        Held(g, k) /\ Held(h, k) /\ segments[g][k].element = segments[h][k].element => g = h

\* A surviving class has one segment, and what was taken is in it no more.
TakenOnce ==
  uncycled => /\ DOMAIN segments \subseteq {cur}
              /\ \A k \in Keys : /\ taken[k] <= 1
                                 /\ taken[k] = 1 => \A g \in DOMAIN segments : ~Held(g, k)

CacheInv == TypeOK /\ ListOK /\ OwnElements /\ TakenOnce

-----------------------------------------------------------------------------
(* The list                                                                *)

LEMMA Constants ==
  /\ First \in Gens /\ Scopes \subseteq BOOLEAN /\ Uses \subseteq Nat
  /\ MaxItems \in Nat /\ MaxTTL \in Nat /\ MaxTime \in Nat /\ MaxWrites \in Nat
  BY MemoryCacheConstants

\* Every rank belongs to one place.
LEMMA RankFacts ==
  ASSUME NEW m \in Nat, NEW places \in SUBSET (1 .. m)
  PROVE  /\ IsFiniteSet(places) /\ Cardinality(places) \in Nat /\ Cardinality(places) <= m
         /\ places # 1 .. m => Cardinality(places) < m
         /\ \A n \in 1 .. Cardinality(places) : \E i \in places : Rank(places, i) = n
         /\ \A i \in places : Rank(places, i) \in 1 .. Cardinality(places)
         /\ \A i, j \in places : Rank(places, i) = Rank(places, j) => i = j
<1>1. IsFiniteSet(1 .. m) /\ Cardinality(1 .. m) = m
  BY FS_Interval
<1>2. IsFiniteSet(places) /\ Cardinality(places) \in Nat /\ Cardinality(places) <= m
  BY <1>1, FS_Subset, FS_CardinalityType
<1>3. places # 1 .. m => Cardinality(places) < m
  <2>1. Cardinality(1 .. m) = Cardinality(places) => 1 .. m = places
    BY <1>1, FS_Subset
  <2> QED BY <1>1, <1>2, <2>1
<1> DEFINE upto(i) == {j \in places : j <= i}
           f == [i \in places |-> Rank(places, i)]
           c == Cardinality(places)
<1>4. \A i \in places : /\ IsFiniteSet(upto(i)) /\ upto(i) \subseteq places /\ i \in upto(i)
                        /\ Rank(places, i) = Cardinality(upto(i))
  <2>1. \A i \in places : upto(i) \subseteq places /\ i \in upto(i)
    OBVIOUS
  <2> QED BY <1>2, <2>1, FS_Subset DEF Rank
<1>5. \A i \in places : Rank(places, i) \in 1 .. c
  <2> TAKE i \in places
  <2>1. Cardinality(upto(i)) \in Nat /\ Cardinality(upto(i)) <= c
    BY <1>2, <1>4, FS_Subset, FS_CardinalityType
  <2>2. Cardinality(upto(i)) # 0
    BY <1>4, FS_EmptySet
  <2> QED BY <1>2, <1>4, <2>1, <2>2
<1>6. \A i, j \in places : Rank(places, i) = Rank(places, j) => i = j
  <2>1. ASSUME NEW i \in places, NEW j \in places, i < j, Rank(places, i) = Rank(places, j)
        PROVE  FALSE
    <3>1. upto(i) \subseteq upto(j) /\ j \notin upto(i)
      <4>1. \A x \in places : x \in Int
        OBVIOUS
      <4>2. \A x \in places : x <= i => x <= j
        BY <2>1, <4>1
      <4>3. ~(j <= i)
        BY <2>1, <4>1
      <4> QED BY <4>2, <4>3
    <3>2. upto(i) = upto(j)
      BY <1>4, <2>1, <3>1, FS_Subset
    <3> QED BY <1>4, <3>1, <3>2
  <2> QED BY <2>1
<1>7. f \in Injection(places, 1 .. c)
  BY <1>5, <1>6 DEF Injection, IsInjective
<1>8. IsFiniteSet(1 .. c) /\ Cardinality(1 .. c) = c
  BY <1>2, FS_Interval
<1>9. f \in Surjection(places, 1 .. c)
  BY <1>7, <1>8, FS_Injection
<1>10. \A n \in 1 .. c : \E i \in places : f[i] = n
  BY <1>9 DEF Surjection
<1> QED BY <1>2, <1>3, <1>5, <1>6, <1>10

\* What Remove leaves: the others, none twice.
LEMMA WithoutFacts ==
  ASSUME NEW E, NEW s \in Seq(E), NEW gone
  PROVE  /\ Without(s, gone) \in Seq(E) /\ Len(Without(s, gone)) <= Len(s)
         /\ ToSet(Without(s, gone)) = ToSet(s) \ gone
         /\ IsInjective(s) => IsInjective(Without(s, gone))
         /\ ToSet(s) \cap gone # {} => Len(Without(s, gone)) < Len(s)
<1> DEFINE places == Staying(s, gone)
           c == Cardinality(places)
           at(n) == CHOOSE i \in places : Rank(places, i) = n
           w == Without(s, gone)
<1>1. Len(s) \in Nat /\ DOMAIN s = 1 .. Len(s) /\ places \in SUBSET (1 .. Len(s))
  BY DEF Staying
<1>2. /\ c \in Nat /\ c <= Len(s) /\ (places # 1 .. Len(s) => c < Len(s))
      /\ \A n \in 1 .. c : \E i \in places : Rank(places, i) = n
  BY <1>1, RankFacts
<1>3. \A n \in 1 .. c : at(n) \in places /\ Rank(places, at(n)) = n
  BY <1>2
<1>4. w = [n \in 1 .. c |-> s[at(n)]]
  BY DEF Without
<1> HIDE DEF c, at
<1>5. \A n \in 1 .. c : s[at(n)] \in E /\ s[at(n)] \notin gone
  <2>1. \A i \in places : s[i] \in E /\ s[i] \notin gone
    BY <1>1 DEF Staying
  <2> QED BY <1>3, <2>1
<1>6. w \in Seq(E) /\ Len(w) = c /\ DOMAIN w = 1 .. c
  BY <1>2, <1>4, <1>5
<1>7. ToSet(w) = ToSet(s) \ gone
  <2>1. ASSUME NEW n \in 1 .. c PROVE w[n] \in ToSet(s) \ gone
    BY <1>1, <1>3, <1>4, <1>5 DEF ToSet
  <2>2. ASSUME NEW x \in ToSet(s) \ gone PROVE x \in ToSet(w)
    <3>1. PICK i \in places : s[i] = x
      BY DEF ToSet, Staying
    <3>2. PICK n \in 1 .. c : n = Rank(places, i) /\ at(n) = i
      <4>1. Rank(places, i) \in 1 .. c /\ \A j \in places : Rank(places, i) = Rank(places, j) => i = j
        BY <1>1, RankFacts DEF c
      <4> QED BY <1>3, <4>1
    <3> QED BY <1>4, <1>6, <3>1, <3>2 DEF ToSet
  <2> QED BY <1>6, <2>1, <2>2 DEF ToSet
<1>8. IsInjective(s) => IsInjective(w)
  <2>1. ASSUME IsInjective(s), NEW m \in 1 .. c, NEW n \in 1 .. c, w[m] = w[n]
        PROVE  m = n
    <3>1. at(m) = at(n)
      BY <1>1, <1>3, <1>4, <2>1 DEF IsInjective
    <3> QED BY <1>3, <3>1
  <2> QED BY <1>6, <2>1 DEF IsInjective
<1>9. ToSet(s) \cap gone # {} => Len(w) < Len(s)
  <2>1. ToSet(s) \cap gone # {} => places # 1 .. Len(s)
    BY <1>1 DEF ToSet, Staying
  <2> QED BY <1>2, <1>6, <2>1
<1> QED BY <1>2, <1>6, <1>7, <1>8, <1>9

LEMMA PushFacts ==
  ASSUME NEW E, NEW s \in Seq(E), NEW x \in E
  PROVE  /\ PushFront(s, x) \in Seq(E) /\ Len(PushFront(s, x)) <= Len(s) + 1
         /\ x \in ToSet(s) => Len(PushFront(s, x)) <= Len(s)
         /\ ToSet(PushFront(s, x)) = ToSet(s) \cup {x}
         /\ IsInjective(s) => IsInjective(PushFront(s, x))
<1> DEFINE w == Without(s, {x})
           p == PushFront(s, x)
<1>1. /\ w \in Seq(E) /\ Len(w) <= Len(s) /\ Len(w) \in Nat /\ Len(s) \in Nat
      /\ ToSet(w) = ToSet(s) \ {x}
      /\ IsInjective(s) => IsInjective(w)
      /\ x \in ToSet(s) => Len(w) < Len(s)
  BY WithoutFacts
<1>2. p = <<x>> \o w
  BY DEF PushFront
<1> HIDE DEF w, p
<1>3. /\ p \in Seq(E) /\ Len(p) = Len(w) + 1 /\ p[1] = x
      /\ \A i \in 2 .. Len(p) : i - 1 \in 1 .. Len(w) /\ p[i] = w[i - 1]
  BY <1>1, <1>2
<1>4. DOMAIN p = 1 .. Len(p) /\ DOMAIN w = 1 .. Len(w)
  BY <1>1, <1>3
<1>5. ToSet(p) = ToSet(s) \cup {x}
  <2>1. ASSUME NEW i \in 1 .. Len(p) PROVE p[i] = x \/ p[i] \in ToSet(w)
    <3>1. CASE i = 1 BY <1>3, <3>1
    <3>2. CASE i # 1
      <4>1. i \in 2 .. Len(p)
        BY <1>1, <1>3, <3>2
      <4> QED BY <1>3, <1>4, <4>1 DEF ToSet
    <3> QED BY <3>1, <3>2
  <2>2. ASSUME NEW j \in 1 .. Len(w) PROVE w[j] \in ToSet(p)
    <3>1. j + 1 \in 2 .. Len(p) /\ (j + 1) - 1 = j
      BY <1>1, <1>3
    <3>2. p[j + 1] = w[j]
      BY <1>3, <3>1
    <3> QED BY <1>1, <1>3, <1>4, <3>1, <3>2 DEF ToSet
  <2>3. x \in ToSet(p)
    BY <1>1, <1>3, <1>4 DEF ToSet
  <2>4. ToSet(p) \subseteq ToSet(w) \cup {x}
    BY <1>4, <2>1 DEF ToSet
  <2>5. ToSet(w) \subseteq ToSet(p)
    BY <1>4, <2>2 DEF ToSet
  <2> QED BY <1>1, <2>3, <2>4, <2>5
<1>6. IsInjective(s) => IsInjective(p)
  <2>1. ASSUME IsInjective(s), NEW i \in 1 .. Len(p), NEW j \in 1 .. Len(p), p[i] = p[j]
        PROVE  i = j
    <3>1. \A n \in 2 .. Len(p) : p[n] # x
      BY <1>1, <1>3, <1>4 DEF ToSet
    <3>2. CASE i = 1 \/ j = 1
      BY <1>3, <2>1, <3>1, <3>2
    <3>3. CASE i # 1 /\ j # 1
      <4>1. i \in 2 .. Len(p) /\ j \in 2 .. Len(p)
        BY <1>1, <1>3, <3>3
      <4>2. w[i - 1] = w[j - 1] /\ i - 1 \in DOMAIN w /\ j - 1 \in DOMAIN w
        BY <1>3, <1>4, <2>1, <4>1
      <4>3. i - 1 = j - 1
        BY <1>1, <2>1, <4>2 DEF IsInjective
      <4> QED BY <1>1, <1>3, <4>3
    <3> QED BY <3>2, <3>3
  <2> QED BY <1>4, <2>1 DEF IsInjective
<1> QED BY <1>1, <1>3, <1>5, <1>6 DEF p

LEMMA MoveFacts ==
  ASSUME NEW E, NEW s \in Seq(E), NEW x \in E
  PROVE  /\ MoveToFront(s, x) \in Seq(E) /\ Len(MoveToFront(s, x)) <= Len(s)
         /\ ToSet(MoveToFront(s, x)) = ToSet(s)
         /\ IsInjective(s) => IsInjective(MoveToFront(s, x))
<1>1. CASE x \in ToSet(s)
  <2>1. MoveToFront(s, x) = PushFront(s, x)
    BY <1>1 DEF MoveToFront
  <2>2. /\ PushFront(s, x) \in Seq(E) /\ Len(PushFront(s, x)) <= Len(s)
        /\ ToSet(PushFront(s, x)) = ToSet(s) \cup {x}
        /\ IsInjective(s) => IsInjective(PushFront(s, x))
    BY <1>1, PushFacts
  <2> QED BY <1>1, <2>1, <2>2
<1>2. CASE x \notin ToSet(s)
  BY <1>2 DEF MoveToFront
<1> QED BY <1>1, <1>2

LEMMA FrontFacts ==
  ASSUME NEW E, NEW s \in Seq(E), s # <<>>
  PROVE  /\ Front(s) \in Seq(E) /\ Len(Front(s)) = Len(s) - 1
         /\ ToSet(Front(s)) \subseteq ToSet(s)
         /\ \A x \in ToSet(s) : x # s[Len(s)] => x \in ToSet(Front(s))
         /\ IsInjective(s) => IsInjective(Front(s))
<1>1. Len(s) \in Nat /\ Len(s) > 0 /\ DOMAIN s = 1 .. Len(s)
  OBVIOUS
<1>2. /\ Front(s) \in Seq(E) /\ Len(Front(s)) = Len(s) - 1
      /\ \A i \in 1 .. Len(s) - 1 : Front(s)[i] = s[i]
  BY <1>1 DEF Front
<1>3. DOMAIN Front(s) = 1 .. Len(s) - 1
  BY <1>1, <1>2
<1>4. ToSet(Front(s)) \subseteq ToSet(s)
  BY <1>1, <1>2, <1>3 DEF ToSet
<1>5. ASSUME NEW x \in ToSet(s), x # s[Len(s)] PROVE x \in ToSet(Front(s))
  <2>1. PICK i \in 1 .. Len(s) : x = s[i]
    BY <1>1 DEF ToSet
  <2>2. i \in 1 .. Len(s) - 1
    BY <1>1, <1>5, <2>1
  <2> QED BY <1>2, <1>3, <2>1, <2>2 DEF ToSet
<1>6. IsInjective(s) => IsInjective(Front(s))
  BY <1>1, <1>2, <1>3 DEF IsInjective
<1> QED BY <1>2, <1>4, <1>5, <1>6

\* A list has no more elements than places.
LEMMA ElementCount ==
  ASSUME NEW E, NEW s \in Seq(E)
  PROVE  IsFiniteSet(ToSet(s)) /\ Cardinality(ToSet(s)) \in Nat /\ Cardinality(ToSet(s)) <= Len(s)
<1>1. Len(s) \in Nat /\ DOMAIN s = 1 .. Len(s) /\ s \in [1 .. Len(s) -> ToSet(s)]
  BY DEF ToSet
<1>2. s \in Surjection(1 .. Len(s), ToSet(s))
  BY <1>1 DEF Surjection, ToSet
<1>3. IsFiniteSet(1 .. Len(s)) /\ Cardinality(1 .. Len(s)) = Len(s)
  BY <1>1, FS_Interval
<1>4. IsFiniteSet(ToSet(s)) /\ Cardinality(ToSet(s)) <= Cardinality(1 .. Len(s))
  BY <1>2, <1>3, FS_Surjection
<1> QED BY <1>3, <1>4, FS_CardinalityType

\* There is always an element to push.
LEMMA FreshFacts ==
  ASSUME TypeOK, ListOK, NEW k \in Keys, writes < MaxWrites
  PROVE  FreshElement(k) \in Elements /\ FreshElement(k).key = k /\ FreshElement(k) \notin ToSet(lru)
<1>1. lru \in Seq(Elements) /\ Len(lru) \in Nat /\ writes \in Nat /\ Len(lru) <= writes /\ MaxWrites \in Nat
  BY Constants DEF TypeOK, ListOK
<1> DEFINE Ids == 0 .. Len(lru)
           f == [n \in Ids |-> [key |-> k, id |-> n]]
<1>2. \E e \in [key : {k}, id : Ids] : e \notin ToSet(lru)
  <2>1. SUFFICES ASSUME \A e \in [key : {k}, id : Ids] : e \in ToSet(lru) PROVE FALSE
    OBVIOUS
  <2>2. \A n \in Ids : [key |-> k, id |-> n] \in ToSet(lru)
    BY <2>1
  <2>3. f \in Injection(Ids, ToSet(lru))
    BY <2>2 DEF Injection, IsInjective
  <2>4. IsFiniteSet(ToSet(lru)) /\ Cardinality(ToSet(lru)) \in Nat /\ Cardinality(ToSet(lru)) <= Len(lru)
    BY <1>1, ElementCount
  <2>5. Cardinality(Ids) = Len(lru) + 1
    BY <1>1, FS_Interval
  <2>6. Cardinality(Ids) <= Cardinality(ToSet(lru))
    BY <2>3, <2>4, FS_Injection
  <2> QED BY <1>1, <2>4, <2>5, <2>6
<1>3. FreshElement(k) \in [key : {k}, id : Ids] /\ FreshElement(k) \notin ToSet(lru)
  BY <1>2 DEF FreshElement
<1>4. Ids \subseteq 0 .. MaxWrites
  BY <1>1
<1> QED BY <1>3, <1>4 DEF Elements

-----------------------------------------------------------------------------
(* The steps                                                               *)

LEMMA HeldTypes ==
  ASSUME TypeOK, NEW g \in DOMAIN segments, NEW k \in Keys, Held(g, k)
  PROVE  segments[g][k] \in Entries /\ segments[g][k].element \in Elements
<1>1. segments[g][k] \in Entries
  BY DEF TypeOK, Held
<1> QED BY <1>1 DEF Entries

LEMMA SegmentTypes ==
  ASSUME TypeOK, NEW g
  PROVE  /\ Segment(g) \in [Keys -> Entries \cup {NoEntry}]
         /\ \A k \in Keys : Segment(g)[k] # NoEntry => g \in DOMAIN segments /\ Segment(g) = segments[g] /\ Held(g, k)
  BY DEF Segment, Empty, TypeOK, Held

LEMMA HitFacts ==
  ASSUME TypeOK, NEW k \in Keys, NEW g \in Hit(k)
  PROVE  g \in DOMAIN segments /\ Held(g, k)
<1>1. g \in Holder(k)
  BY DEF Hit
<1>2. CASE Segment(cur)[k] # NoEntry BY <1>1, <1>2, SegmentTypes DEF Holder
<1>3. CASE Segment(cur)[k] = NoEntry BY <1>1, <1>3 DEF Holder, Held
<1> QED BY <1>2, <1>3

\* Entries leave, or stay with their element; the elements of those that stay do too.
LEMMA FewerHeld ==
  ASSUME CacheInv,
         \A g \in DOMAIN segments', k \in Keys : segments'[g][k] # NoEntry =>
            /\ g \in DOMAIN segments /\ Held(g, k)
            /\ segments'[g][k].element = segments[g][k].element
            /\ segments[g][k].element \in ToSet(lru')
  PROVE  OwnElements'
<1>1. \A g \in DOMAIN segments', k \in Keys : segments'[g][k] # NoEntry =>
         segments'[g][k].element \in ToSet(lru') /\ segments'[g][k].element.key = k
  BY DEF CacheInv, OwnElements
<1>2. \A g, h \in DOMAIN segments', k \in Keys :
        segments'[g][k] # NoEntry /\ segments'[h][k] # NoEntry
          /\ segments'[g][k].element = segments'[h][k].element => g = h
  BY DEF CacheInv, OwnElements
<1> QED BY <1>1, <1>2 DEF OwnElements, Held

LEMMA FewerTaken ==
  ASSUME CacheInv, UNCHANGED <<uncycled, cur, taken>>, DOMAIN segments' \subseteq DOMAIN segments,
         \A g \in DOMAIN segments', k \in Keys : segments'[g][k] # NoEntry => Held(g, k)
  PROVE  TakenOnce'
  BY DEF CacheInv, TakenOnce, Held

LEMMA ShorterList ==
  ASSUME CacheInv, lru' \in Seq(Elements), Len(lru') <= Len(lru), IsInjective(lru'), UNCHANGED writes
  PROVE  ListOK'
<1>1. Len(lru) \in Nat /\ Len(lru') \in Nat /\ writes \in Nat /\ MaxItems \in Nat
  BY Constants DEF CacheInv, TypeOK
<1> QED BY <1>1 DEF CacheInv, ListOK

LEMMA GetStep ==
  ASSUME CacheInv, NEW k \in Keys, Get(k)
  PROVE  CacheInv'
<1>1. UNCHANGED <<now, uncycled, cur, segments, writes, taken>>
  BY DEF Get
<1>2. PICK g \in Hit(k) : lru' = MoveToFront(lru, segments[g][k].element)
  BY DEF Get
<1>3. segments[g][k].element \in Elements /\ lru \in Seq(Elements) /\ IsInjective(lru)
  BY HitFacts, HeldTypes DEF CacheInv, TypeOK, ListOK
<1>4. /\ lru' \in Seq(Elements) /\ Len(lru') <= Len(lru) /\ ToSet(lru') = ToSet(lru) /\ IsInjective(lru')
  BY <1>2, <1>3, MoveFacts
<1>5. TypeOK'
  BY <1>1, <1>4 DEF CacheInv, TypeOK
<1>6. OwnElements'
  BY <1>1, <1>4, FewerHeld DEF CacheInv, OwnElements, Held
<1>7. TakenOnce'
  BY <1>1, FewerTaken DEF Held
<1> QED BY <1>1, <1>4, <1>5, <1>6, <1>7, ShorterList DEF CacheInv

\* Entries leave, and their elements with them.
LEMMA RemoveStep ==
  ASSUME CacheInv, NEW gone, lru' = Without(lru, gone), UNCHANGED writes,
         DOMAIN segments' = DOMAIN segments,
         \A g \in DOMAIN segments, k \in Keys :
            \/ segments'[g][k] = NoEntry
            \/ segments'[g][k] = segments[g][k] /\ (Held(g, k) => segments[g][k].element \notin gone)
  PROVE  lru' \in Seq(Elements) /\ ListOK' /\ OwnElements'
<1>1. lru \in Seq(Elements) /\ IsInjective(lru)
  BY DEF CacheInv, TypeOK, ListOK
<1>2. /\ lru' \in Seq(Elements) /\ Len(lru') <= Len(lru) /\ ToSet(lru') = ToSet(lru) \ gone /\ IsInjective(lru')
  BY <1>1, WithoutFacts
<1>3. ASSUME NEW g \in DOMAIN segments', NEW k \in Keys, segments'[g][k] # NoEntry
      PROVE  /\ g \in DOMAIN segments /\ Held(g, k)
             /\ segments'[g][k].element = segments[g][k].element
             /\ segments[g][k].element \in ToSet(lru')
  <2>1. g \in DOMAIN segments /\ segments'[g][k] = segments[g][k] /\ Held(g, k)
        /\ segments[g][k].element \notin gone
    BY <1>3 DEF Held
  <2>2. segments[g][k].element \in ToSet(lru)
    BY <2>1 DEF CacheInv, OwnElements
  <2> QED BY <1>2, <2>1, <2>2
<1>4. OwnElements'
  BY <1>3, FewerHeld
<1> QED BY <1>2, <1>4, ShorterList

\* A segment some of whose entries left is a segment.
LEMMA FewerTypes ==
  ASSUME TypeOK, DOMAIN segments' = DOMAIN segments, segments' = [g \in DOMAIN segments' |-> segments'[g]],
         \A g \in DOMAIN segments : segments'[g] \in [Keys -> Entries \cup {NoEntry}],
         lru' \in Seq(Elements), UNCHANGED <<now, uncycled, cur, writes>>, taken' \in [Keys -> Nat]
  PROVE  TypeOK'
  BY DEF TypeOK

LEMMA GetAndDeleteStep ==
  ASSUME CacheInv, NEW k \in Keys, GetAndDelete(k)
  PROVE  CacheInv'
<1>1. UNCHANGED <<now, uncycled, cur, writes>> /\ taken' = [taken EXCEPT ![k] = @ + 1]
  BY DEF GetAndDelete
<1>2. PICK g \in Hit(k) : segments' = Emptied(segments, g, k) /\ lru' = Without(lru, {segments[g][k].element})
  BY DEF GetAndDelete
<1>3. g \in DOMAIN segments /\ Held(g, k)
  BY HitFacts DEF CacheInv
<1>4. segments' = [segments EXCEPT ![g][k] = NoEntry]
  BY <1>2 DEF Emptied
<1>5. \A h \in DOMAIN segments : segments[h] \in [Keys -> Entries \cup {NoEntry}]
  BY DEF CacheInv, TypeOK
<1>6. /\ DOMAIN segments' = DOMAIN segments /\ segments' = [h \in DOMAIN segments' |-> segments'[h]]
      /\ \A h \in DOMAIN segments : segments'[h] \in [Keys -> Entries \cup {NoEntry}]
      /\ segments'[g][k] = NoEntry
      /\ \A h \in DOMAIN segments, j \in Keys : h # g \/ j # k => segments'[h][j] = segments[h][j]
  BY <1>3, <1>4, <1>5
<1>7. ASSUME NEW h \in DOMAIN segments, NEW j \in Keys, h # g \/ j # k, Held(h, j)
      PROVE  segments[h][j].element # segments[g][k].element
  BY <1>3, <1>7 DEF CacheInv, OwnElements
<1>8. lru' \in Seq(Elements) /\ ListOK' /\ OwnElements'
  <2>1. \A h \in DOMAIN segments, j \in Keys :
           \/ segments'[h][j] = NoEntry
           \/ segments'[h][j] = segments[h][j] /\ (Held(h, j) => segments[h][j].element \notin {segments[g][k].element})
    BY <1>6, <1>7
  <2>2. PICK gone : gone = {segments[g][k].element}
    OBVIOUS
  <2> QED BY <1>1, <1>2, <1>6, <2>1, <2>2, RemoveStep
<1>9. taken \in [Keys -> Nat] /\ taken' \in [Keys -> Nat] /\ taken'[k] = taken[k] + 1
  BY <1>1 DEF CacheInv, TypeOK
<1>10. TypeOK'
  BY <1>1, <1>6, <1>8, <1>9, FewerTypes DEF CacheInv
<1>11. TakenOnce'
  <2>1. SUFFICES ASSUME uncycled
                 PROVE  /\ DOMAIN segments' \subseteq {cur}
                        /\ \A j \in Keys : taken'[j] <= 1
                        /\ \A j \in Keys : taken'[j] = 1 => \A h \in DOMAIN segments' : segments'[h][j] = NoEntry
    BY <1>1 DEF TakenOnce, Held
  <2>2. /\ DOMAIN segments \subseteq {cur} /\ g = cur
        /\ \A j \in Keys : taken[j] <= 1 /\ (taken[j] = 1 => \A h \in DOMAIN segments : segments[h][j] = NoEntry)
    BY <1>3, <2>1 DEF CacheInv, TakenOnce, Held
  <2>3. taken[k] = 0
    BY <1>3, <1>9, <2>2 DEF Held
  <2>4. \A j \in Keys : j # k => taken'[j] = taken[j]
    BY <1>1, <1>9
  <2> QED BY <1>6, <1>9, <2>2, <2>3, <2>4
<1> QED BY <1>8, <1>10, <1>11 DEF CacheInv

LEMMA DeleteStep ==
  ASSUME CacheInv, NEW k \in Keys, Delete(k)
  PROVE  CacheInv'
<1> DEFINE mine == {segments[g][k].element : g \in {h \in DOMAIN segments : segments[h][k] # NoEntry}}
<1>1. /\ UNCHANGED <<now, uncycled, cur, writes, taken>> /\ lru' = Without(lru, mine)
      /\ segments' = [g \in DOMAIN segments |-> [segments[g] EXCEPT ![k] = NoEntry]]
  BY DEF Delete, DropKey
<1>2. \A h \in DOMAIN segments : segments[h] \in [Keys -> Entries \cup {NoEntry}]
  BY DEF CacheInv, TypeOK
<1>3. /\ DOMAIN segments' = DOMAIN segments /\ segments' = [h \in DOMAIN segments' |-> segments'[h]]
      /\ \A h \in DOMAIN segments : segments'[h] \in [Keys -> Entries \cup {NoEntry}] /\ segments'[h][k] = NoEntry
      /\ \A h \in DOMAIN segments, j \in Keys : j # k => segments'[h][j] = segments[h][j]
  BY <1>1, <1>2
<1>4. ASSUME NEW h \in DOMAIN segments, NEW j \in Keys, j # k, Held(h, j)
      PROVE  segments[h][j].element \notin mine
  <2>1. segments[h][j].element.key = j
    BY <1>4 DEF CacheInv, OwnElements
  <2>2. \A g \in DOMAIN segments : Held(g, k) => segments[g][k].element.key = k
    BY DEF CacheInv, OwnElements
  <2> QED BY <1>4, <2>1, <2>2 DEF Held
<1> HIDE DEF mine
<1>5. lru' \in Seq(Elements) /\ ListOK' /\ OwnElements'
  BY <1>1, <1>3, <1>4, RemoveStep
<1>6. TypeOK'
  BY <1>1, <1>3, <1>5, FewerTypes DEF CacheInv, TypeOK
<1>7. TakenOnce'
  BY <1>1, <1>3, FewerTaken DEF Held
<1> QED BY <1>5, <1>6, <1>7 DEF CacheInv

LEMMA DecrementStep ==
  ASSUME CacheInv, NEW k \in Keys, DecrementIfPositive(k)
  PROVE  CacheInv'
<1>1. UNCHANGED <<now, uncycled, cur, writes, taken>>
  BY DEF DecrementIfPositive
<1>2. PICK g \in DOMAIN segments :
        /\ Held(g, k) /\ segments[g][k].val > 0
        /\ segments' = [segments EXCEPT ![g][k].val = @ - 1]
        /\ lru' = MoveToFront(lru, segments[g][k].element)
  BY DEF DecrementIfPositive, Held
<1>3. segments[g][k] \in Entries /\ segments[g][k].element \in Elements /\ lru \in Seq(Elements) /\ IsInjective(lru)
  BY <1>2, HeldTypes DEF CacheInv, TypeOK, ListOK
<1>4. /\ lru' \in Seq(Elements) /\ Len(lru') <= Len(lru) /\ ToSet(lru') = ToSet(lru) /\ IsInjective(lru')
  BY <1>2, <1>3, MoveFacts
<1>5. PICK e \in Entries : e = [segments[g][k] EXCEPT !.val = @ - 1] /\ e.element = segments[g][k].element
  <2>1. segments[g][k].val - 1 \in Nat
    BY <1>2, <1>3 DEF Entries
  <2>2. [segments[g][k] EXCEPT !.val = @ - 1] \in Entries
    BY <1>3, <2>1 DEF Entries
  <2> QED BY <1>3, <2>2 DEF Entries
<1>6. \A h \in DOMAIN segments : segments[h] \in [Keys -> Entries \cup {NoEntry}]
  BY DEF CacheInv, TypeOK
<1>7. segments' = [segments EXCEPT ![g][k] = e]
  BY <1>2, <1>5, <1>6
<1>8. /\ DOMAIN segments' = DOMAIN segments /\ segments' = [h \in DOMAIN segments' |-> segments'[h]]
      /\ \A h \in DOMAIN segments : segments'[h] \in [Keys -> Entries \cup {NoEntry}]
      /\ segments'[g][k] = e
      /\ \A h \in DOMAIN segments, j \in Keys : h # g \/ j # k => segments'[h][j] = segments[h][j]
  BY <1>6, <1>7
<1>9. TypeOK'
  BY <1>1, <1>4, <1>8, FewerTypes DEF CacheInv, TypeOK
<1>10. \A h \in DOMAIN segments', j \in Keys : segments'[h][j] # NoEntry =>
            h \in DOMAIN segments /\ Held(h, j) /\ segments'[h][j].element = segments[h][j].element
  BY <1>2, <1>5, <1>8 DEF Held
<1>11. OwnElements'
  BY <1>4, <1>10, FewerHeld DEF CacheInv, OwnElements
<1>12. TakenOnce'
  BY <1>1, <1>8, <1>10, FewerTaken
<1> QED BY <1>1, <1>4, <1>9, <1>11, <1>12, ShorterList DEF CacheInv

LEMMA ReapStep ==
  ASSUME CacheInv, Reap
  PROVE  CacheInv'
<1> DEFINE gone == {x \in (DOMAIN segments) \X Keys :
                    segments[x[1]][x[2]] # NoEntry /\ Expired(segments[x[1]][x[2]])}
           elements == {segments[x[1]][x[2]].element : x \in gone}
<1>1. /\ UNCHANGED <<now, uncycled, cur, writes, taken>> /\ lru' = Without(lru, elements)
      /\ segments' = [g \in DOMAIN segments |->
                        [k \in Keys |-> IF <<g, k>> \in gone THEN NoEntry ELSE segments[g][k]]]
  BY DEF Reap
<1>2. \A h \in DOMAIN segments : segments[h] \in [Keys -> Entries \cup {NoEntry}]
  BY DEF CacheInv, TypeOK
<1>3. ASSUME NEW h \in DOMAIN segments, NEW j \in Keys, <<h, j>> \notin gone, Held(h, j)
      PROVE  segments[h][j].element \notin elements
  <2>1. SUFFICES ASSUME NEW x \in gone, segments[h][j].element = segments[x[1]][x[2]].element PROVE FALSE
    OBVIOUS
  <2>2. x[1] \in DOMAIN segments /\ x[2] \in Keys /\ Held(x[1], x[2]) /\ x = <<x[1], x[2]>>
    BY <2>1 DEF Held
  <2>3. segments[h][j].element.key = j /\ segments[x[1]][x[2]].element.key = x[2]
    BY <1>3, <2>2 DEF CacheInv, OwnElements
  <2>4. j = x[2] /\ h = x[1]
    BY <1>3, <2>1, <2>2, <2>3 DEF CacheInv, OwnElements
  <2> QED BY <1>3, <2>1, <2>2, <2>4
<1> HIDE DEF gone, elements
<1>4. /\ DOMAIN segments' = DOMAIN segments /\ segments' = [h \in DOMAIN segments' |-> segments'[h]]
      /\ \A h \in DOMAIN segments : segments'[h] \in [Keys -> Entries \cup {NoEntry}]
      /\ \A h \in DOMAIN segments, j \in Keys :
            \/ segments'[h][j] = NoEntry
            \/ segments'[h][j] = segments[h][j] /\ <<h, j>> \notin gone
  BY <1>1, <1>2
<1>5. \A h \in DOMAIN segments, j \in Keys :
            \/ segments'[h][j] = NoEntry
            \/ segments'[h][j] = segments[h][j] /\ (Held(h, j) => segments[h][j].element \notin elements)
  BY <1>3, <1>4
<1>6. lru' \in Seq(Elements) /\ ListOK' /\ OwnElements'
  BY <1>1, <1>4, <1>5, RemoveStep
<1>7. TypeOK'
  BY <1>1, <1>4, <1>6, FewerTypes DEF CacheInv, TypeOK
<1>8. TakenOnce'
  BY <1>1, <1>4, FewerTaken DEF Held
<1> QED BY <1>6, <1>7, <1>8 DEF CacheInv

LEMMA CycleStep ==
  ASSUME CacheInv, NEW g \in Gens, NEW force \in BOOLEAN, Cycle(g, force)
  PROVE  CacheInv'
<1> DEFINE D == (DOMAIN segments \cup {g}) \cap Kept(g, force)
<1>1. /\ UNCHANGED <<now, uncycled, lru, writes, taken>> /\ ~uncycled /\ cur' = g
      /\ segments' = [h \in D |-> Segment(h)]
  BY DEF Cycle
<1>2. D \subseteq Gens
  BY DEF CacheInv, TypeOK
<1> HIDE DEF D
<1>3. DOMAIN segments' = D /\ segments' = [h \in DOMAIN segments' |-> segments'[h]]
      /\ \A h \in D : segments'[h] = Segment(h)
  BY <1>1
<1>4. \A h \in D : segments'[h] \in [Keys -> Entries \cup {NoEntry}]
  BY <1>3, SegmentTypes DEF CacheInv
<1>5. TypeOK'
  BY <1>1, <1>2, <1>3, <1>4 DEF CacheInv, TypeOK
<1>6. \A h \in DOMAIN segments', k \in Keys : segments'[h][k] # NoEntry =>
         h \in DOMAIN segments /\ Held(h, k) /\ segments'[h][k] = segments[h][k]
  BY <1>3, SegmentTypes DEF CacheInv
<1>7. OwnElements'
  BY <1>1, <1>6, FewerHeld DEF CacheInv, OwnElements
<1>8. ListOK' /\ TakenOnce'
  BY <1>1 DEF CacheInv, ListOK, TakenOnce
<1> QED BY <1>5, <1>7, <1>8 DEF CacheInv

LEMMA SetStep ==
  ASSUME CacheInv, NEW k \in Keys, NEW v \in Uses, NEW ttl \in 1 .. MaxTTL, Set(k, v, ttl)
  PROVE  CacheInv'
<1> DEFINE mine  == Segment(cur)[k]
           D     == DOMAIN segments \cup {cur}
           segs  == [g \in D |-> Segment(g)]
           evict == mine = NoEntry /\ Full /\ lru # <<>>
           kept  == IF evict THEN DropKey(segs, Victim) ELSE segs
           list  == IF evict THEN Front(lru) ELSE lru
           elem  == IF mine # NoEntry THEN mine.element ELSE FreshElement(k)
           new   == [val |-> v, expiry |-> now + ttl, element |-> elem]
<1>1. /\ writes < MaxWrites /\ writes' = writes + 1 /\ taken' = [taken EXCEPT ![k] = 0]
      /\ UNCHANGED <<now, uncycled, cur>>
      /\ segments' = [kept EXCEPT ![cur][k] = new]
      /\ lru' = IF mine # NoEntry THEN MoveToFront(lru, elem) ELSE PushFront(list, elem)
  BY DEF Set, SetLocked
<1>2. /\ cur \in Gens /\ DOMAIN segments \subseteq Gens /\ now \in Nat /\ now <= MaxTime /\ writes \in Nat
      /\ lru \in Seq(Elements) /\ IsInjective(lru) /\ Len(lru) \in Nat /\ Len(lru) <= writes
      /\ taken \in [Keys -> Nat]
      /\ MaxItems > 0 => Len(lru) <= MaxItems
  BY DEF CacheInv, TypeOK, ListOK
<1>3. \A g \in D : segs[g] = Segment(g) /\ segs[g] \in [Keys -> Entries \cup {NoEntry}]
  BY SegmentTypes DEF CacheInv
<1>4. /\ DOMAIN kept = D /\ kept = [g \in D |-> kept[g]]
      /\ \A g \in D : kept[g] \in [Keys -> Entries \cup {NoEntry}]
      /\ \A g \in D, j \in Keys : kept[g][j] # NoEntry => kept[g][j] = Segment(g)[j] /\ (evict => j # Victim)
  <2>1. CASE evict
    <3>1. kept = [g \in D |-> [segs[g] EXCEPT ![Victim] = NoEntry]]
      BY <2>1 DEF DropKey
    <3> HIDE DEF segs, kept, evict
    <3> QED BY <1>3, <3>1
  <2>2. CASE ~evict
    <3>1. kept = segs
      BY <2>2
    <3> QED BY <1>3, <2>2, <3>1
  <2> QED BY <2>1, <2>2
<1>5. mine # NoEntry => cur \in DOMAIN segments /\ mine = segments[cur][k] /\ Held(cur, k)
  BY SegmentTypes DEF CacheInv
<1>6. /\ mine # NoEntry => mine.element \in Elements /\ mine.element \in ToSet(lru) /\ mine.element.key = k
      /\ mine = NoEntry => FreshElement(k) \in Elements /\ FreshElement(k).key = k /\ FreshElement(k) \notin ToSet(lru)
  <2>1. ASSUME mine # NoEntry
        PROVE  mine.element \in Elements /\ mine.element \in ToSet(lru) /\ mine.element.key = k
    <3>1. cur \in DOMAIN segments /\ mine = segments[cur][k] /\ Held(cur, k)
      BY <1>5, <2>1
    <3>2. segments[cur][k].element \in Elements
      BY <3>1, HeldTypes DEF CacheInv
    <3>3. segments[cur][k].element \in ToSet(lru) /\ segments[cur][k].element.key = k
      BY <3>1 DEF CacheInv, OwnElements
    <3> QED BY <3>1, <3>2, <3>3
  <2> QED BY <1>1, <2>1, FreshFacts DEF CacheInv
<1>7. elem \in Elements /\ elem.key = k /\ (mine = NoEntry => elem \notin ToSet(lru))
      /\ (mine # NoEntry => elem = segments[cur][k].element)
  BY <1>5, <1>6
<1> HIDE DEF elem
<1>8. new \in Entries /\ new.element = elem
  <2>1. now + ttl \in 0 .. MaxTime + MaxTTL /\ v \in Nat
    BY <1>2, Constants
  <2> QED BY <1>7, <2>1 DEF Entries
<1>9. ~evict => list = lru /\ ~(mine = NoEntry /\ Full /\ lru # <<>>)
  OBVIOUS
<1>10. /\ list \in Seq(Elements) /\ IsInjective(list) /\ Len(list) \in Nat /\ ToSet(list) \subseteq ToSet(lru)
       /\ evict => Len(list) = Len(lru) - 1 /\ \A e \in ToSet(lru) : e # lru[Len(lru)] => e \in ToSet(list)
  <2>1. CASE evict
    <3>1. list = Front(lru) /\ lru # <<>>
      BY <2>1
    <3> QED BY <1>2, <3>1, FrontFacts
  <2>2. CASE ~evict BY <1>2, <2>2
  <2> QED BY <2>1, <2>2
<1> HIDE DEF kept, list, new, evict, segs
<1>11. /\ DOMAIN segments' = D /\ segments' = [g \in D |-> segments'[g]]
       /\ \A g \in D : segments'[g] \in [Keys -> Entries \cup {NoEntry}]
       /\ segments'[cur][k] = new
       /\ \A g \in D, j \in Keys : g # cur \/ j # k => segments'[g][j] = kept[g][j]
  BY <1>1, <1>4, <1>8
<1>12. ASSUME NEW g \in D, NEW j \in Keys, g # cur \/ j # k, segments'[g][j] # NoEntry
       PROVE  /\ g \in DOMAIN segments /\ Held(g, j) /\ segments'[g][j] = segments[g][j]
              /\ evict => j # Victim
  <2>1. segments'[g][j] = kept[g][j] /\ kept[g][j] # NoEntry
    BY <1>11, <1>12
  <2>2. kept[g][j] = Segment(g)[j] /\ (evict => j # Victim)
    BY <1>4, <1>12, <2>1
  <2> QED BY <1>12, <2>1, <2>2, SegmentTypes DEF CacheInv
<1>13. /\ lru' \in Seq(Elements) /\ IsInjective(lru') /\ elem \in ToSet(lru')
       /\ Len(lru') <= Len(lru) + 1 /\ (MaxItems > 0 => Len(lru') <= MaxItems)
       /\ \A e \in ToSet(lru) : e \in ToSet(lru') \/ (evict /\ e = lru[Len(lru)])
  <2>1. CASE mine # NoEntry
    <3>1. lru' = MoveToFront(lru, elem)
      BY <1>1, <2>1
    <3>2. /\ lru' \in Seq(Elements) /\ Len(lru') <= Len(lru) /\ ToSet(lru') = ToSet(lru) /\ IsInjective(lru')
      BY <1>2, <1>7, <3>1, MoveFacts
    <3>3. elem \in ToSet(lru)
      BY <1>6, <2>1 DEF elem
    <3>4. Len(lru') \in Nat
      BY <3>2
    <3> QED BY <1>2, <3>2, <3>3, <3>4, Constants
  <2>2. CASE mine = NoEntry
    <3>1. lru' = PushFront(list, elem)
      BY <1>1, <2>2
    <3>2. /\ lru' \in Seq(Elements) /\ Len(lru') <= Len(list) + 1 /\ ToSet(lru') = ToSet(list) \cup {elem}
          /\ IsInjective(lru') /\ Len(lru') \in Nat
      BY <1>7, <1>10, <3>1, PushFacts
    <3>3. CASE evict
      BY <1>2, <1>10, <3>2, <3>3, Constants
    <3>4. CASE ~evict
      <4>1. list = lru /\ (MaxItems > 0 => Len(lru) < MaxItems)
        <5>1. list = lru /\ ~(Full /\ lru # <<>>)
          BY <1>9, <2>2, <3>4
        <5>2. lru = <<>> => Len(lru) = 0
          OBVIOUS
        <5> QED BY <1>2, <5>1, <5>2, Constants DEF Full
      <4> QED BY <1>2, <3>2, <4>1, Constants
    <3> QED BY <3>3, <3>4
  <2> QED BY <2>1, <2>2
<1>14. TypeOK'
  <2>1. writes' \in 0 .. MaxWrites /\ now' \in 0 .. MaxTime
    BY <1>1, <1>2, Constants
  <2>2. taken' \in [Keys -> Nat]
    BY <1>1, <1>2
  <2>3. DOMAIN segments' \subseteq Gens /\ segments' = [g \in DOMAIN segments' |-> segments'[g]]
    BY <1>2, <1>11
  <2>4. \A g \in DOMAIN segments' : segments'[g] \in [Keys -> Entries \cup {NoEntry}]
    BY <1>11
  <2> QED BY <1>1, <1>13, <2>1, <2>2, <2>3, <2>4 DEF CacheInv, TypeOK
<1>15. ListOK'
  <2>1. Len(lru') \in Nat /\ Len(lru') <= writes'
    BY <1>1, <1>2, <1>13
  <2> QED BY <1>13, <2>1 DEF ListOK
<1>16. OwnElements'
  <2>1. ASSUME NEW g \in D, NEW j \in Keys, segments'[g][j] # NoEntry
        PROVE  segments'[g][j].element \in ToSet(lru') /\ segments'[g][j].element.key = j
    <3>1. CASE g = cur /\ j = k
      BY <1>7, <1>8, <1>11, <1>13, <3>1
    <3>2. CASE g # cur \/ j # k
      <4>1. g \in DOMAIN segments /\ Held(g, j) /\ segments'[g][j] = segments[g][j] /\ (evict => j # Victim)
        BY <1>12, <2>1, <3>2
      <4>2. segments[g][j].element \in ToSet(lru) /\ segments[g][j].element.key = j
        BY <4>1 DEF CacheInv, OwnElements
      <4>3. evict => segments[g][j].element # lru[Len(lru)]
        BY <4>1, <4>2 DEF Victim
      <4> QED BY <1>13, <4>1, <4>2, <4>3
    <3> QED BY <3>1, <3>2
  <2>2. ASSUME NEW h \in D, h # cur, segments'[h][k] # NoEntry
        PROVE  segments'[h][k].element # elem
    <3>1. h \in DOMAIN segments /\ Held(h, k) /\ segments'[h][k] = segments[h][k]
      BY <1>12, <2>2
    <3>2. segments[h][k].element \in ToSet(lru)
      BY <3>1 DEF CacheInv, OwnElements
    <3>3. CASE mine = NoEntry BY <1>7, <3>1, <3>2, <3>3
    <3>4. CASE mine # NoEntry
      <4>1. cur \in DOMAIN segments /\ Held(cur, k) /\ elem = segments[cur][k].element
        BY <1>5, <1>7, <3>4
      <4> QED BY <2>2, <3>1, <4>1 DEF CacheInv, OwnElements
    <3> QED BY <3>3, <3>4
  <2>3. ASSUME NEW g \in D, NEW h \in D, NEW j \in Keys,
               segments'[g][j] # NoEntry, segments'[h][j] # NoEntry,
               segments'[g][j].element = segments'[h][j].element
        PROVE  g = h
    <3>1. CASE j = k /\ (g = cur \/ h = cur)
      <4>1. segments'[cur][k].element = elem
        BY <1>8, <1>11
      <4> QED BY <2>2, <2>3, <3>1, <4>1
    <3>2. CASE ~(j = k /\ (g = cur \/ h = cur))
      <4>1. /\ g \in DOMAIN segments /\ Held(g, j) /\ segments'[g][j] = segments[g][j]
            /\ h \in DOMAIN segments /\ Held(h, j) /\ segments'[h][j] = segments[h][j]
        BY <1>12, <2>3, <3>2
      <4> QED BY <2>3, <4>1 DEF CacheInv, OwnElements
    <3> QED BY <3>1, <3>2
  <2> QED BY <1>11, <2>1, <2>3 DEF OwnElements, Held
<1>17. TakenOnce'
  <2>1. SUFFICES ASSUME uncycled
                 PROVE  /\ DOMAIN segments' \subseteq {cur}
                        /\ \A j \in Keys : taken'[j] <= 1
                        /\ \A j \in Keys : taken'[j] = 1 => \A h \in DOMAIN segments' : segments'[h][j] = NoEntry
    BY <1>1 DEF TakenOnce, Held
  <2>2. /\ DOMAIN segments \subseteq {cur}
        /\ \A j \in Keys : taken[j] <= 1 /\ (taken[j] = 1 => \A h \in DOMAIN segments : ~Held(h, j))
    BY <2>1 DEF CacheInv, TakenOnce
  <2>3. taken'[k] = 0 /\ \A j \in Keys : j # k => taken'[j] = taken[j]
    BY <1>1, <1>2
  <2>4. ASSUME NEW j \in Keys, taken'[j] = 1, NEW h \in D PROVE segments'[h][j] = NoEntry
    <3>1. j # k /\ taken[j] = 1
      BY <2>3, <2>4
    <3> QED BY <1>12, <2>2, <3>1
  <2> QED BY <1>11, <2>2, <2>3, <2>4
<1> QED BY <1>14, <1>15, <1>16, <1>17 DEF CacheInv

-----------------------------------------------------------------------------
(* The theorems                                                            *)

LEMMA InitHolds ==
  ASSUME Init
  PROVE  CacheInv
<1>1. DOMAIN segments = {} /\ segments = <<>> /\ lru = <<>> /\ Len(lru) = 0 /\ DOMAIN lru = {}
      /\ taken = [k \in Keys |-> 0] /\ writes = 0 /\ now = 0 /\ cur = First /\ uncycled \in Scopes
  BY DEF Init
<1>2. TypeOK
  BY <1>1, Constants DEF TypeOK
<1>3. ListOK
  BY <1>1, Constants DEF ListOK, IsInjective
<1>4. OwnElements /\ TakenOnce
  BY <1>1 DEF OwnElements, TakenOnce
<1> QED BY <1>2, <1>3, <1>4 DEF CacheInv

LEMMA NextHolds ==
  ASSUME CacheInv, [Next]_vars
  PROVE  CacheInv'
<1>1. CASE UNCHANGED <<uncycled, cur, segments, lru, writes, taken>> /\ now' \in 0 .. MaxTime
  BY <1>1 DEF CacheInv, TypeOK, ListOK, OwnElements, TakenOnce, Held
<1>2. CASE UNCHANGED vars
  BY <1>1, <1>2 DEF vars, CacheInv, TypeOK
<1>3. CASE Tick
  <2>1. now' \in 0 .. MaxTime
    BY <1>3, Constants DEF Tick, CacheInv, TypeOK
  <2> QED BY <1>1, <1>3, <2>1 DEF Tick
<1>4. CASE Next
  BY <1>3, <1>4, SetStep, GetStep, GetAndDeleteStep, DeleteStep, DecrementStep, ReapStep, CycleStep DEF Next
<1> QED BY <1>2, <1>4

\* Whatever mix of calls, cycles, reaps and expiry came before, the list and the
\* segments fit together.
THEOREM CacheInvariant == Spec => []CacheInv
<1>1. Init => CacheInv
  BY InitHolds
<1>2. CacheInv /\ [Next]_vars => CacheInv'
  BY NextHolds
<1> QED BY <1>1, <1>2, PTL DEF Spec

\* The state keeps the shape of the code's: segments of entries, a list of
\* elements, the generation one of the host's.
THEOREM TypeCorrect == Spec => []TypeOK
<1>1. CacheInv => TypeOK
  BY DEF CacheInv
<1> QED BY <1>1, CacheInvariant, PTL

\* setLocked: every entry is on the list through an element of its own, so that
\* the eviction can reach it, and the class never holds more than its bound.
THEOREM EveryEntryIsEvictable == Spec => []Evictable
<1>1. CacheInv => Evictable
  <2> SUFFICES ASSUME CacheInv PROVE Evictable
    OBVIOUS
  <2>1. \A x \in EntriesHeld : x[1] \in DOMAIN segments /\ x[2] \in Keys /\ Held(x[1], x[2]) /\ x = <<x[1], x[2]>>
    BY DEF EntriesHeld, Held
  <2>2. \A x \in EntriesHeld : segments[x[1]][x[2]].element \in ToSet(lru)
                                /\ segments[x[1]][x[2]].element.key = x[2]
    BY <2>1 DEF CacheInv, OwnElements
  <2>3. ASSUME NEW x \in EntriesHeld, NEW y \in EntriesHeld,
               segments[x[1]][x[2]].element = segments[y[1]][y[2]].element
        PROVE  x = y
    <3>1. x[2] = y[2]
      BY <2>2, <2>3
    <3>2. x[1] = y[1]
      BY <2>1, <2>3, <3>1 DEF CacheInv, OwnElements
    <3> QED BY <2>1, <3>1, <3>2
  <2>4. lru \in Seq(Elements) /\ Len(lru) \in Nat
    BY DEF CacheInv, TypeOK
  <2>5. IsFiniteSet(ToSet(lru)) /\ Cardinality(ToSet(lru)) \in Nat /\ Cardinality(ToSet(lru)) <= Len(lru)
    BY <2>4, ElementCount
  <2> DEFINE f == [x \in EntriesHeld |-> segments[x[1]][x[2]].element]
  <2>6. f \in Injection(EntriesHeld, ToSet(lru))
    BY <2>2, <2>3 DEF Injection, IsInjective
  <2>7. IsFiniteSet(EntriesHeld) /\ Cardinality(EntriesHeld) <= Cardinality(ToSet(lru))
    BY <2>5, <2>6, FS_Injection
  <2>8. Cardinality(EntriesHeld) \in Nat
    BY <2>7, FS_CardinalityType
  <2>9. MaxItems > 0 => Cardinality(EntriesHeld) <= MaxItems
    BY <2>4, <2>5, <2>7, <2>8, Constants DEF CacheInv, ListOK
  <2> QED BY <2>2, <2>9 DEF Evictable, CacheInv, ListOK
<1> QED BY <1>1, CacheInvariant, PTL

\* Cache.GetAndDelete has "exactly one winner": one Set of a surviving class is
\* consumed at most once.
THEOREM OneWinner == Spec => []SingleWinner
<1>1. CacheInv => SingleWinner
  BY DEF CacheInv, TakenOnce, SingleWinner
<1> QED BY <1>1, CacheInvariant, PTL
=============================================================================
