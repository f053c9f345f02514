----------------------------- MODULE MemoryCache -----------------------------
(***************************************************************************)
(* One class of the in-memory cache (internal/cache/memory.go).  Every     *)
(* operation runs under the class's mutex, so each is one action.  The     *)
(* state is a segment per host generation, of which Cycle keeps two, and   *)
(* one LRU list whose elements name keys, not entries: a key cached under  *)
(* two generations has two elements.  Expired entries stay until the       *)
(* reaper meets them.                                                      *)
(***************************************************************************)
EXTENDS Integers, Sequences, FiniteSets, SequencesExt

CONSTANTS Keys,       \* cache keys
          Gens,       \* generations (host checksums)
          First,      \* the generation the class is created at
          Scopes,     \* the scopes the class may be in: TRUE survives a Cycle
          MaxItems,   \* CacheOptions.MaxItems; 0 is unbounded
          Uses,       \* the integer values callers store
          MaxTTL,     \* bound on the ttl of a Set
          MaxTime,    \* bound on the clock
          NoEntry,    \* no entry under a key
          MaxWrites   \* bound on the number of Sets

ASSUME MemoryCacheConstants ==
    /\ First \in Gens
    /\ Scopes \subseteq BOOLEAN
    /\ {MaxItems, MaxTTL, MaxTime, MaxWrites} \subseteq Nat
    /\ Uses \subseteq Nat

VARIABLES now,       \* the wall clock
          uncycled,  \* whether the class is in the surviving scope; never changes
          cur,       \* currentChecksum
          segments,  \* per generation that has a segment, its entries
          lru,       \* the LRU list, front first: elements [key, id]
          writes,    \* number of Sets so far
          taken      \* per key: GetAndDelete hits since the last Set

vars == <<now, uncycled, cur, segments, lru, writes, taken>>

Empty == [k \in Keys |-> NoEntry]
Elements == [key : Keys, id : 0 .. MaxWrites]
Entries == [val : Nat, expiry : 0 .. MaxTime + MaxTTL, element : Elements]

Init ==
    /\ now = 0
    /\ uncycled \in Scopes
    /\ cur = First
    /\ segments = <<>>
    /\ lru = <<>>
    /\ writes = 0
    /\ taken = [k \in Keys |-> 0]
----------------------------------------------------------------------------
Segment(g) == IF g \in DOMAIN segments THEN segments[g] ELSE Empty
Expired(e) == now > e.expiry

\* list.List: Remove (of several elements, the others keep their order),
\* PushFront and MoveToFront, without effect on an element that has left the
\* list.
Staying(s, gone) == {i \in DOMAIN s : s[i] \notin gone}
Rank(places, i) == Cardinality({j \in places : j <= i})
Without(s, gone) ==
    LET places == Staying(s, gone)
    IN  [n \in 1 .. Cardinality(places) |-> s[CHOOSE i \in places : Rank(places, i) = n]]
PushFront(s, x) == <<x>> \o Without(s, {x})
MoveToFront(s, x) == IF x \in ToSet(s) THEN PushFront(s, x) ELSE s

\* lookupLocked: the current generation, then the other one.  A hit that has
\* expired ends the walk as a miss.
Holder(k) ==
    IF Segment(cur)[k] # NoEntry THEN {cur}
    ELSE {g \in DOMAIN segments : segments[g][k] # NoEntry}
Hit(k) == {g \in Holder(k) : ~Expired(segments[g][k])}

\* An element no entry and no list slot uses.
FreshElement(k) == CHOOSE e \in [key : {k}, id : 0 .. Len(lru)] : e \notin ToSet(lru)

\* The victim of a full list: its last element's key leaves every generation.
Full == MaxItems > 0 /\ Len(lru) >= MaxItems
Victim == lru[Len(lru)].key
DropKeyHere(segs, k) == [segs EXCEPT ![cur][k] = NoEntry]
DropKey(segs, k) == [g \in DOMAIN segs |-> [segs[g] EXCEPT ![k] = NoEntry]]

\* setLocked: refresh the entry of the current generation, or push a new one,
\* evicting first when the list is full.
SetLocked(k, v, ttl) ==
    LET mine  == Segment(cur)[k]
        segs  == [g \in DOMAIN segments \cup {cur} |-> Segment(g)]
        evict == mine = NoEntry /\ Full /\ lru # <<>>
        kept  == IF evict THEN DropKey(segs, Victim) ELSE segs
        list  == IF evict THEN Front(lru) ELSE lru
        elem  == IF mine # NoEntry THEN mine.element ELSE FreshElement(k)
    IN /\ segments' = [kept EXCEPT ![cur][k] = [val |-> v, expiry |-> now + ttl,
                                                element |-> elem]]
       /\ lru' = IF mine # NoEntry THEN MoveToFront(lru, elem) ELSE PushFront(list, elem)

Set(k, v, ttl) ==
    /\ writes < MaxWrites
    /\ writes' = writes + 1
    /\ SetLocked(k, v, ttl)
    /\ taken' = [taken EXCEPT ![k] = 0]
    /\ UNCHANGED <<now, uncycled, cur>>

\* Get: a hit moves its element to the front.
Get(k) ==
    /\ \E g \in Hit(k) :
        /\ lru' = MoveToFront(lru, segments[g][k].element)
    /\ UNCHANGED <<now, uncycled, cur, segments, writes, taken>>

\* GetAndDelete: a hit leaves its segment and the list under the same lock.
Emptied(segs, g, k) == [segs EXCEPT ![g][k] = NoEntry]
GetAndKeep(k) ==   \* mutant: a Get under the read lock, the Delete left to the caller
    /\ Hit(k) # {}
    /\ taken' = [taken EXCEPT ![k] = @ + 1]
    /\ UNCHANGED <<now, uncycled, cur, segments, lru, writes>>
GetAndDelete(k) ==
    /\ \E g \in Hit(k) :
        /\ segments' = Emptied(segments, g, k)
        /\ lru' = Without(lru, {segments[g][k].element})
    /\ taken' = [taken EXCEPT ![k] = @ + 1]
    /\ UNCHANGED <<now, uncycled, cur, writes>>

\* Delete: the key leaves every generation, and its elements the list.
Delete(k) ==
    LET mine == {segments[g][k].element : g \in {h \in DOMAIN segments : segments[h][k] # NoEntry}}
    IN /\ mine # {}
       /\ segments' = DropKey(segments, k)
       /\ lru' = Without(lru, mine)
       /\ UNCHANGED <<now, uncycled, cur, writes, taken>>

\* DecrementIfPositive: in place, keeping expiry and element; a value that is
\* not positive is left alone.  Unlike lookupLocked an expired entry of the
\* current generation does not hide the previous one.
DecrementIfPositive(k) ==
    LET live == {g \in DOMAIN segments : segments[g][k] # NoEntry /\ ~Expired(segments[g][k])}
        at   == IF cur \in live THEN {cur} ELSE live
    IN /\ \E g \in at :
            /\ segments[g][k].val > 0
            /\ segments' = [segments EXCEPT ![g][k].val = @ - 1]
            /\ lru' = MoveToFront(lru, segments[g][k].element)
       /\ UNCHANGED <<now, uncycled, cur, writes, taken>>

\* reap: every expired entry leaves, with its element.
Reap ==
    LET gone == {x \in (DOMAIN segments) \X Keys :
                    segments[x[1]][x[2]] # NoEntry /\ Expired(segments[x[1]][x[2]])}
        elements == {segments[x[1]][x[2]].element : x \in gone}
    IN /\ gone # {}
       /\ segments' = [g \in DOMAIN segments |->
                          [k \in Keys |-> IF <<g, k>> \in gone THEN NoEntry ELSE segments[g][k]]]
       /\ lru' = Without(lru, elements)
       /\ UNCHANGED <<now, uncycled, cur, writes, taken>>

\* Cycle: a cycled class moves to a new generation and keeps the one it was
\* at; forced, it keeps the new one only.  The list is not touched.
Kept(g, force) == IF force THEN {g} ELSE {g, cur}
Cycle(g, force) ==
    /\ ~uncycled
    /\ force \/ g # cur
    /\ cur' = g
    /\ segments' = [h \in (DOMAIN segments \cup {g}) \cap Kept(g, force) |-> Segment(h)]
    /\ UNCHANGED <<now, uncycled, lru, writes, taken>>

Tick == now < MaxTime /\ now' = now + 1
        /\ UNCHANGED <<uncycled, cur, segments, lru, writes, taken>>

Next ==
    \/ \E k \in Keys, v \in Uses, ttl \in 1..MaxTTL : Set(k, v, ttl)
    \/ \E k \in Keys : Get(k) \/ GetAndDelete(k) \/ Delete(k) \/ DecrementIfPositive(k)
    \/ Reap
    \/ \E g \in Gens, force \in BOOLEAN : Cycle(g, force)
    \/ Tick

Spec == Init /\ [][Next]_vars
----------------------------------------------------------------------------
(* Properties.                                                             *)

EntriesHeld == {x \in (DOMAIN segments) \X Keys : segments[x[1]][x[2]] # NoEntry}

\* The state has the shape of the code's: segments of entries, a list of
\* elements, the generation one of the host's.
TypeOK ==
    /\ now \in 0 .. MaxTime /\ writes \in 0 .. MaxWrites
    /\ uncycled \in BOOLEAN /\ cur \in Gens
    /\ DOMAIN segments \subseteq Gens
    /\ segments = [g \in DOMAIN segments |-> segments[g]]
    /\ \A g \in DOMAIN segments : segments[g] \in [Keys -> Entries \cup {NoEntry}]
    /\ lru \in Seq(Elements)
    /\ taken \in [Keys -> Nat]

\* Every entry is on the list exactly once through its own element, so the
\* eviction can reach it and no entry is cached for ever; and the class never
\* holds more entries than its bound, in all generations together, whatever mix
\* of cycles, deletes and reaps came before.
Evictable ==
    /\ \A x \in EntriesHeld : segments[x[1]][x[2]].element \in ToSet(lru)
    /\ IsInjective(lru)
    /\ MaxItems > 0 => Cardinality(EntriesHeld) <= MaxItems

\* "exactly one winner" (Cache.GetAndDelete): one Set of a surviving class is
\* consumed at most once.
SingleWinner == uncycled => \A k \in Keys : taken[k] <= 1
=============================================================================
