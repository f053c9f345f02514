----------------------------- MODULE ValkeyCache -----------------------------
(***************************************************************************)
(* One class of the Valkey cache (internal/cache/valkey.go): the server's  *)
(* keyspace, the cache objects of every replica, and callers whose calls   *)
(* are sequences of server round trips.  A key is stored under the         *)
(* generation its prefix names.  A call captures the prefixes of its cache *)
(* object once; a Cycle may move the object while the call is under way.   *)
(*                                                                         *)
(* A cache object is named after the caller that created it: two callers   *)
(* that miss the class at the same time create one each, and the manager   *)
(* keeps the second.  Lifetimes are left open: any entry may expire.       *)
(***************************************************************************)
EXTENDS Integers, FiniteSets

CONSTANTS Clients,    \* the callers
          Replicas,   \* the processes
          Keys,       \* keys of the class
          Values,     \* the values stored, natural numbers
          Checksums,  \* host checksums: the generations
          Initial,    \* initialGeneration = SurvivingGeneration
          Attempts,   \* updateAttempts
          Menus,      \* the instances: the class's scope, and where each caller lives, and its calls
          Absent,     \* no entry
          Keep,       \* UpdateFunc: write = false
          NoAsk, NoCache, NoGen

Cells == Values \cup {Absent}

\* UpdateFunc: what to write for the cell found, or Keep.
Funs == [Cells -> Values \cup {Keep}]

Asks == [op : {"get", "take", "delete", "decrement"}, key : Keys, arg : {NoAsk}]
        \cup [op : {"set"}, key : Keys, arg : Values]
        \cup [op : {"update"}, key : Keys, arg : Funs]

ASSUME ValkeyAssumption ==
    /\ Values \subseteq Nat /\ \A v \in Values : v > 0 => v - 1 \in Values
    /\ Initial \in Checksums /\ NoGen \notin Checksums
    /\ Attempts \in Nat \ {0}
    /\ Absent \notin Values /\ Keep \notin Cells
    /\ NoCache \notin Clients
    /\ Menus \subseteq [uncycled : BOOLEAN, home : [Clients -> Replicas], asks : [Clients -> SUBSET Asks]]

VARIABLES
  menu,      \* the instance: its scope, and the calls made
  store,     \* the server: generation -> key -> cell
  checksum,  \* each manager's currentChecksum
  class,     \* each manager's cache object of the class, or NoCache
  cache,     \* the cache objects: prefix (cur) and prevPrefix (prev)
  held,      \* the cache object each caller uses, or NoCache
  pc,        \* where each caller is
  ask,       \* its call
  at,        \* the prefixes the call captured
  seen,      \* Update: the cell fn was run on
  clean,     \* Update: nobody touched the key since the WATCH
  tries,     \* Update: attempts that lost a race
  reply      \* the call's answer

vars == <<menu, store, checksum, class, cache, held, pc, ask, at, seen, clean, tries, reply>>

Says(tag, val) == [tag |-> tag, val |-> val]
NoReply == Says("none", Absent)

\* Mutant: every cache starts at the host's generation.
GenerationCurrent(uncycled, current) == current

\* generationFor: the generation a cache object starts at.
GenerationFor(uncycled, current) == IF uncycled THEN Initial ELSE current

\* The value at full key (g, ask.key), and a command that writes it: every
\* transaction that watches the key will abort.
Cell(c, g) == store[g][ask[c].key]

Write(g, k, cell) ==
    /\ store' = [store EXCEPT ![g] = [@ EXCEPT ![k] = cell]]
    /\ clean' = [d \in Clients |-> clean[d] /\ ~(at[d].cur = g /\ ask[d].key = k)]

\* The last round trip's answer reaches the caller, or is lost on the way.
Done(c, says) ==
    /\ pc' = [pc EXCEPT ![c] = "done"]
    /\ \E r \in {says, Says("error", Absent)} : reply' = [reply EXCEPT ![c] = r]

Nowhere == [cur |-> NoGen, prev |-> NoGen]

\* The calls of the callers in S are over, and their local variables with them.
Dismiss(S) ==
    /\ pc' = [c \in Clients |-> IF c \in S THEN "idle" ELSE pc[c]]
    /\ ask' = [c \in Clients |-> IF c \in S THEN NoAsk ELSE ask[c]]
    /\ at' = [c \in Clients |-> IF c \in S THEN Nowhere ELSE at[c]]
    /\ seen' = [c \in Clients |-> IF c \in S THEN Absent ELSE seen[c]]
    /\ clean' = [c \in Clients |-> IF c \in S THEN FALSE ELSE clean[c]]
    /\ tries' = [c \in Clients |-> IF c \in S THEN 0 ELSE tries[c]]
    /\ reply' = [c \in Clients |-> IF c \in S THEN NoReply ELSE reply[c]]

Managers == <<menu, checksum, class, cache, held>>

-----------------------------------------------------------------------------
\* The manager.

\* GetCache: the class is found, or the read lock is released and the class
\* created under the write lock, without a second look.
GetCache(c) ==
    /\ pc[c] = "idle"
    /\ IF class[menu.home[c]] # NoCache
          THEN held' = [held EXCEPT ![c] = class[menu.home[c]]] /\ UNCHANGED pc
          ELSE pc' = [pc EXCEPT ![c] = "create"] /\ UNCHANGED held
    /\ UNCHANGED <<menu, store, checksum, class, cache, ask, at, seen, clean, tries, reply>>

CreateCache(c) ==
    /\ pc[c] = "create"
    /\ pc' = [pc EXCEPT ![c] = "idle"]
    /\ cache' = [cache EXCEPT ![c] =
                   [cur |-> GenerationFor(menu.uncycled, checksum[menu.home[c]]), prev |-> NoGen]]
    /\ class' = [class EXCEPT ![menu.home[c]] = c]
    /\ held' = [held EXCEPT ![c] = c]
    /\ UNCHANGED <<menu, store, checksum, ask, at, seen, clean, tries, reply>>

\* Cycle: the object the manager knows moves, unless it is in the surviving
\* scope or already there; a forced move leaves no previous generation.
Cycle(r, g, force) ==
    LET o == class[r]
    IN  /\ checksum' = [checksum EXCEPT ![r] = g]
        /\ cache' = IF o = NoCache \/ menu.uncycled \/ (~force /\ cache[o].cur = g) THEN cache
                    ELSE [cache EXCEPT ![o] = [cur |-> g, prev |-> IF force THEN NoGen ELSE cache[o].cur]]
        /\ UNCHANGED <<menu, store, class, held, pc, ask, at, seen, clean, tries, reply>>

-----------------------------------------------------------------------------
\* Calls.  The prefixes are captured under the object's read lock.

Call(c, a) ==
    /\ pc[c] = "idle" /\ held[c] # NoCache
    /\ pc' = [pc EXCEPT ![c] = IF a.op = "update" THEN "watch" ELSE "first"]
    /\ ask' = [ask EXCEPT ![c] = a]
    /\ at' = [at EXCEPT ![c] = cache[held[c]]]
    /\ UNCHANGED <<Managers, store, seen, clean, tries, reply>>

\* Get: the current generation answers if it can, else the previous one.
Get(c) ==
    LET cell == Cell(c, at[c].cur)
    IN  /\ pc[c] = "first" /\ ask[c].op = "get"
        /\ \/ cell # Absent /\ Done(c, Says("found", cell))
           \/ cell = Absent /\ at[c].prev = NoGen /\ Done(c, Says("missing", Absent))
           \/ /\ cell = Absent /\ at[c].prev # NoGen
              /\ pc' = [pc EXCEPT ![c] = "second"] /\ UNCHANGED reply
        /\ UNCHANGED <<Managers, store, ask, at, seen, clean, tries>>

\* GetAndDelete: GETDEL, on the current generation and then the previous one.
GetAndDelete(c) ==
    LET cell == Cell(c, at[c].cur)
    IN  /\ pc[c] = "first" /\ ask[c].op = "take"
        /\ \/ cell # Absent /\ Done(c, Says("found", cell)) /\ Write(at[c].cur, ask[c].key, Absent)
           \/ cell = Absent /\ at[c].prev = NoGen /\ Done(c, Says("missing", Absent))
              /\ UNCHANGED <<store, clean>>
           \/ /\ cell = Absent /\ at[c].prev # NoGen
              /\ pc' = [pc EXCEPT ![c] = "second"] /\ UNCHANGED <<store, clean, reply>>
        /\ UNCHANGED <<Managers, ask, at, seen, tries>>

\* Delete: DEL in the current generation, then in the previous one.
Delete(c) ==
    /\ pc[c] = "first" /\ ask[c].op = "delete"
    /\ Write(at[c].cur, ask[c].key, Absent)
    /\ IF at[c].prev = NoGen THEN Done(c, Says("ok", Absent))
                             ELSE pc' = [pc EXCEPT ![c] = "second"] /\ UNCHANGED reply
    /\ UNCHANGED <<Managers, ask, at, seen, tries>>

\* The second round trip of the three calls above, to the previous generation.
Previous(c) ==
    LET cell == Cell(c, at[c].prev)
    IN  /\ pc[c] = "second"
        /\ Done(c, IF ask[c].op = "delete" THEN Says("ok", Absent)
                   ELSE IF cell # Absent THEN Says("old", cell) ELSE Says("missing", Absent))
        /\ IF ask[c].op = "get" THEN UNCHANGED <<store, clean>>
                                ELSE Write(at[c].prev, ask[c].key, Absent)
        /\ UNCHANGED <<Managers, ask, at, seen, tries>>

Set(c) ==
    /\ pc[c] = "first" /\ ask[c].op = "set"
    /\ Write(at[c].cur, ask[c].key, ask[c].arg)
    /\ Done(c, Says("ok", Absent))
    /\ UNCHANGED <<Managers, ask, at, seen, tries>>

\* decrIfPositiveScript runs on the server in one step, in the current
\* generation only.
DecrementIfPositive(c) ==
    LET cell == Cell(c, at[c].cur)
    IN  /\ pc[c] = "first" /\ ask[c].op = "decrement"
        /\ \/ /\ cell # Absent /\ cell > 0
              /\ Write(at[c].cur, ask[c].key, cell - 1)
              /\ Done(c, Says("found", cell - 1))
           \/ /\ ~(cell # Absent /\ cell > 0)
              /\ Done(c, Says("missing", Absent)) /\ UNCHANGED <<store, clean>>
        /\ UNCHANGED <<Managers, ask, at, seen, tries>>

\* Update, one attempt: WATCH, ...
Watch(c) ==
    /\ pc[c] = "watch"
    /\ pc' = [pc EXCEPT ![c] = "read"]
    /\ clean' = [clean EXCEPT ![c] = TRUE]
    /\ UNCHANGED <<Managers, store, ask, at, seen, tries, reply>>

\* ... GET, and fn on what it found, which may leave the entry alone, ...
Read(c) ==
    LET cell == Cell(c, at[c].cur)
    IN  /\ pc[c] = "read"
        /\ seen' = [seen EXCEPT ![c] = cell]
        /\ \/ ask[c].arg[cell] = Keep /\ Done(c, Says("kept", Absent))
           \/ ask[c].arg[cell] # Keep /\ pc' = [pc EXCEPT ![c] = "exec"] /\ UNCHANGED reply
        /\ UNCHANGED <<Managers, store, ask, at, clean, tries>>

\* Mutant: the retries are not counted.
ExecUnbounded(c) ==
    /\ pc[c] = "exec"
    /\ \/ /\ clean[c]
          /\ Write(at[c].cur, ask[c].key, ask[c].arg[seen[c]])
          /\ Done(c, Says("wrote", Absent))
       \/ /\ ~clean[c]
          /\ pc' = [pc EXCEPT ![c] = "watch"] /\ UNCHANGED <<store, clean, reply>>
    /\ UNCHANGED <<Managers, ask, at, seen, tries>>

\* Mutant: the next attempt writes what fn returned for the old value.
ExecStale(c) ==
    /\ pc[c] = "exec"
    /\ \/ /\ clean[c]
          /\ Write(at[c].cur, ask[c].key, ask[c].arg[seen[c]])
          /\ Done(c, Says("wrote", Absent))
          /\ UNCHANGED tries
       \/ /\ ~clean[c]
          /\ tries' = [tries EXCEPT ![c] = @ + 1]
          /\ IF tries[c] + 1 < Attempts
                THEN clean' = [clean EXCEPT ![c] = TRUE] /\ UNCHANGED <<pc, reply>>
                ELSE Done(c, Says("contended", Absent)) /\ UNCHANGED clean
          /\ UNCHANGED store
    /\ UNCHANGED <<Managers, ask, at, seen>>

\* ... MULTI, SET, EXEC.  An aborted transaction starts the next attempt; the
\* last one reports contention.
Exec(c) ==
    /\ pc[c] = "exec"
    /\ \/ /\ clean[c]
          /\ Write(at[c].cur, ask[c].key, ask[c].arg[seen[c]])
          /\ Done(c, Says("wrote", Absent))
          /\ UNCHANGED tries
       \/ /\ ~clean[c]
          /\ tries' = [tries EXCEPT ![c] = @ + 1]
          /\ IF tries[c] + 1 < Attempts
                THEN pc' = [pc EXCEPT ![c] = "watch"] /\ UNCHANGED reply
                ELSE Done(c, Says("contended", Absent))
          /\ UNCHANGED <<store, clean>>
    /\ UNCHANGED <<Managers, ask, at, seen>>

\* A round trip fails before the server saw the command: no effect.
CommandLost(c) ==
    /\ pc[c] \in {"first", "second", "watch", "read", "exec"}
    /\ Done(c, Says("error", Absent))
    /\ UNCHANGED <<Managers, store, ask, at, seen, clean, tries>>

Return(c) ==
    /\ pc[c] = "done"
    /\ Dismiss({c})
    /\ UNCHANGED <<Managers, store>>

\* The process stops, in whatever call it was, and starts again with no cache
\* object and the initial checksum.
Restart(r) ==
    LET gone == {c \in Clients : menu.home[c] = r}
    IN  /\ Dismiss(gone)
        /\ checksum' = [checksum EXCEPT ![r] = Initial]
        /\ class' = [class EXCEPT ![r] = NoCache]
        /\ held' = [c \in Clients |-> IF c \in gone THEN NoCache ELSE held[c]]
        /\ cache' = [c \in Clients |-> IF c \in gone THEN Nowhere ELSE cache[c]]
        /\ UNCHANGED <<menu, store>>

\* The server drops an entry whose lifetime is over.
Expire(g, k) ==
    /\ store[g][k] # Absent
    /\ Write(g, k, Absent)
    /\ UNCHANGED <<Managers, pc, ask, at, seen, tries, reply>>

-----------------------------------------------------------------------------
Init ==
    /\ menu \in Menus
    /\ store = [g \in Checksums |-> [k \in Keys |-> Absent]]
    /\ checksum = [r \in Replicas |-> Initial]
    /\ class = [r \in Replicas |-> NoCache]
    /\ cache = [c \in Clients |-> Nowhere]
    /\ held = [c \in Clients |-> NoCache]
    /\ pc = [c \in Clients |-> "idle"]
    /\ ask = [c \in Clients |-> NoAsk]
    /\ at = [c \in Clients |-> Nowhere]
    /\ seen = [c \in Clients |-> Absent]
    /\ clean = [c \in Clients |-> FALSE]
    /\ tries = [c \in Clients |-> 0]
    /\ reply = [c \in Clients |-> NoReply]

Step(c) == \/ CreateCache(c)
           \/ Get(c) \/ GetAndDelete(c) \/ Delete(c) \/ Previous(c)
           \/ Set(c) \/ DecrementIfPositive(c)
           \/ Watch(c) \/ Read(c) \/ Exec(c)
           \/ CommandLost(c) \/ Return(c)

Running == {menu.home[c] : c \in Clients}

Next == \/ \E c \in Clients : GetCache(c) \/ Step(c) \/ \E a \in menu.asks[c] : Call(c, a)
        \/ \E r \in Running : Restart(r) \/ \E g \in Checksums, force \in BOOLEAN : Cycle(r, g, force)
        \/ \E g \in Checksums, k \in Keys : Expire(g, k)

\* A caller's goroutine keeps running; the server and the network answer.
Fairness == \A c \in Clients : WF_vars(Step(c))

Spec == Init /\ [][Next]_vars /\ Fairness

-----------------------------------------------------------------------------
\* Properties.

\* The surviving scope as its callers see it: the one generation, and calls
\* open until their effect.  (An instance of the other scope maps to rest.)
PhaseOf(p) == IF p \in {"idle", "create"} THEN "idle" ELSE IF p = "done" THEN "done" ELSE "open"

OneMap  == IF menu.uncycled THEN store[Initial] ELSE [k \in Keys |-> Absent]
Asked   == IF menu.uncycled THEN ask ELSE [c \in Clients |-> NoAsk]
Phases  == [c \in Clients |-> IF menu.uncycled THEN PhaseOf(pc[c]) ELSE "idle"]
Answers == IF menu.uncycled THEN reply ELSE [c \in Clients |-> NoReply]

Atomic == INSTANCE AtomicCache WITH
    store <- OneMap, ask <- Asked, phase <- Phases, reply <- Answers

\* Every call on a surviving class takes effect at one instant between its
\* start and its answer, on one map shared by all replicas, whatever cycles,
\* restarts, aborted transactions, expiries and lost replies come between; an
\* Update that reports contention wrote nothing (Cache, cache.go).
ImplementsAtomic == Atomic!Spec

\* An Update whose transaction will commit ran fn on what the key still holds:
\* no concurrent write is overwritten unseen.
NoLostUpdate ==
    \A c \in Clients : pc[c] = "exec" /\ clean[c] => seen[c] = Cell(c, at[c].cur)

\* A class's previous generation is never its current one: a reconcile that
\* changes nothing does not spend the grace window of the generation before
\* (ValkeyCacheManager.Cycle).
GraceKept == \A c \in Clients : cache[c].prev = NoGen \/ cache[c].prev # cache[c].cur

\* Every call is answered: an Update that keeps losing races gives up.
CallsReturn == \A c \in Clients : pc[c] \notin {"idle", "create"} ~> pc[c] = "idle"
=============================================================================
