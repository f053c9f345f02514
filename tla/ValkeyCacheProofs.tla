------------------------- MODULE ValkeyCacheProofs -------------------------
(***************************************************************************)
(* The surviving scope of the Valkey cache is one atomic map, whatever the *)
(* number of callers, replicas, keys, values, generations and attempts.    *)
(***************************************************************************)
EXTENDS ValkeyCache, TLAPS

Places == [cur : Checksums \cup {NoGen}, prev : Checksums \cup {NoGen}]
Tags == {"none", "found", "old", "missing", "ok", "kept", "wrote", "contended", "error"}
InCall == {"first", "second", "watch", "read", "exec"}

TypeOK ==
    /\ menu \in [uncycled : BOOLEAN, home : [Clients -> Replicas], asks : [Clients -> SUBSET Asks]]
    /\ store \in [Checksums -> [Keys -> Cells]]
    /\ checksum \in [Replicas -> Checksums]
    /\ class \in [Replicas -> Clients \cup {NoCache}]
    /\ cache \in [Clients -> Places]
    /\ held \in [Clients -> Clients \cup {NoCache}]
    /\ pc \in [Clients -> {"idle", "create", "done"} \cup InCall]
    /\ ask \in [Clients -> Asks \cup {NoAsk}]
    /\ at \in [Clients -> Places]
    /\ seen \in [Clients -> Cells]
    /\ clean \in [Clients -> BOOLEAN]
    /\ tries \in [Clients -> Nat]
    /\ reply \in [Clients -> [tag : Tags, val : Cells]]

\* The locals of a call fit the round trip it is about to make.
CallOK(c) ==
    /\ pc[c] \in InCall => ask[c] \in Asks /\ at[c].cur \in Checksums
    /\ pc[c] = "first" => ask[c].op # "update"
    /\ pc[c] = "second" => ask[c].op \in {"get", "take", "delete"} /\ at[c].prev \in Checksums
    /\ pc[c] \in {"watch", "read", "exec"} => ask[c].op = "update"
    /\ pc[c] = "exec" => ask[c].arg[seen[c]] # Keep
CallsOK == \A c \in Clients : CallOK(c)

\* A cache object in use exists, and belongs to the replica that uses it.
ObjectsOK ==
    /\ \A c \in Clients : held[c] # NoCache =>
          cache[held[c]].cur \in Checksums /\ menu.home[held[c]] = menu.home[c]
    /\ \A r \in Replicas : class[r] # NoCache =>
          cache[class[r]].cur \in Checksums /\ menu.home[class[r]] = r

\* In the surviving scope every object, and every call, is at the one
\* generation and has no previous one.
OneGeneration ==
    menu.uncycled => \A c \in Clients :
       /\ cache[c].cur \in {Initial, NoGen} /\ cache[c].prev = NoGen
       /\ at[c].cur \in {Initial, NoGen} /\ at[c].prev = NoGen

IndInv == TypeOK /\ CallsOK /\ ObjectsOK /\ OneGeneration /\ NoLostUpdate

-----------------------------------------------------------------------------
(* What the actions are built from.                                        *)

\* The kinds of call, and what each carries.
LEMMA AskShapes ==
    ASSUME NEW a \in Asks
    PROVE  /\ a.key \in Keys
           /\ a.op \in {"get", "take", "delete", "decrement", "set", "update"}
           /\ a.op = "set" => a.arg \in Values
           /\ a.op = "update" => a.arg \in Funs
  BY DEF Asks

\* What fn returns for a cell is a value to write, or Keep.
LEMMA FunShapes ==
    ASSUME NEW f \in Funs, NEW x \in Cells
    PROVE  f[x] \in Values \cup {Keep}
  BY DEF Funs

\* What a write leaves behind.
Wrote(g, k, x) ==
    /\ store' \in [Checksums -> [Keys -> Cells]]
    /\ clean' \in [Clients -> BOOLEAN]
    /\ \A h \in Checksums, j \in Keys :
          store'[h][j] = IF h = g /\ j = k THEN x ELSE store[h][j]
    /\ store'[g] = [store[g] EXCEPT ![k] = x]
    /\ \A h \in Checksums : h # g => store'[h] = store[h]
    /\ \A c \in Clients : clean'[c] => clean[c] /\ ~(at[c].cur = g /\ ask[c].key = k)

\* A command that writes changes one cell, and leaves a transaction clean only
\* if it watches another one.
LEMMA WriteFacts ==
    ASSUME TypeOK, NEW g \in Checksums, NEW k \in Keys, NEW x \in Cells, Write(g, k, x)
    PROVE  Wrote(g, k, x)
<1>1. store \in [Checksums -> [Keys -> Cells]] /\ clean \in [Clients -> BOOLEAN]
  BY DEF TypeOK
<1>2. store' = [store EXCEPT ![g] = [store[g] EXCEPT ![k] = x]]
  BY DEF Write
<1>3. [store[g] EXCEPT ![k] = x] \in [Keys -> Cells]
  BY <1>1
<1>4. /\ store' \in [Checksums -> [Keys -> Cells]]
      /\ store'[g] = [store[g] EXCEPT ![k] = x]
      /\ \A h \in Checksums : h # g => store'[h] = store[h]
  BY <1>1, <1>2, <1>3
<1>5. \A h \in Checksums, j \in Keys : store'[h][j] = IF h = g /\ j = k THEN x ELSE store[h][j]
  BY <1>1, <1>4
<1>6. /\ clean' \in [Clients -> BOOLEAN]
      /\ \A c \in Clients : clean'[c] => clean[c] /\ ~(at[c].cur = g /\ ask[c].key = k)
  BY <1>1 DEF Write
<1> QED BY <1>4, <1>5, <1>6 DEF Wrote

\* An answer is the one given, or a failure.
LEMMA DoneFacts ==
    ASSUME TypeOK, NEW c \in Clients, NEW tag \in Tags, NEW x \in Cells, Done(c, Says(tag, x))
    PROVE  /\ pc' \in [Clients -> {"idle", "create", "done"} \cup InCall]
           /\ reply' \in [Clients -> [tag : Tags, val : Cells]]
           /\ pc' = [pc EXCEPT ![c] = "done"]
           /\ \/ reply' = [reply EXCEPT ![c] = Says(tag, x)]
              \/ reply' = [reply EXCEPT ![c] = Says("error", Absent)]
<1>1. Says(tag, x) \in [tag : Tags, val : Cells] /\ Says("error", Absent) \in [tag : Tags, val : Cells]
  BY DEF Says, Tags, Cells
<1>2. pc' = [pc EXCEPT ![c] = "done"]
  BY DEF Done
<1>3. \/ reply' = [reply EXCEPT ![c] = Says(tag, x)]
      \/ reply' = [reply EXCEPT ![c] = Says("error", Absent)]
  BY DEF Done
<1>4. pc' \in [Clients -> {"idle", "create", "done"} \cup InCall]
  BY <1>2 DEF TypeOK
<1>5. reply' \in [Clients -> [tag : Tags, val : Cells]]
  BY <1>1, <1>3 DEF TypeOK
<1> QED BY <1>2, <1>3, <1>4, <1>5

-----------------------------------------------------------------------------
(* The inductive invariant.                                                *)

LEMMA Initially ==
    ASSUME Init
    PROVE  IndInv /\ GraceKept
<1> USE ValkeyAssumption
<1>1. menu \in [uncycled : BOOLEAN, home : [Clients -> Replicas], asks : [Clients -> SUBSET Asks]]
  BY DEF Init
<1>2. Nowhere \in Places
  BY DEF Nowhere, Places
<1>3. NoReply \in [tag : Tags, val : Cells]
  BY DEF NoReply, Says, Tags, Cells
<1>4. TypeOK
  BY <1>1, <1>2, <1>3 DEF Init, TypeOK, Cells, InCall
<1>5. CallsOK /\ ObjectsOK /\ NoLostUpdate
  BY DEF Init, CallsOK, CallOK, ObjectsOK, NoLostUpdate, InCall
<1>6. OneGeneration /\ GraceKept
  BY DEF Init, OneGeneration, GraceKept, Nowhere
<1> QED BY <1>4, <1>5, <1>6 DEF IndInv

\* A round trip moves no cache object and no captured prefix.
LEMMA RoundTripKeeps ==
    ASSUME IndInv, UNCHANGED <<Managers, at>>
    PROVE  ObjectsOK' /\ OneGeneration'
  BY DEF IndInv, ObjectsOK, OneGeneration, Managers

\* The last round trip of a call disturbs no other call.
LEMMA LastRoundTrip ==
    ASSUME IndInv, NEW c \in Clients, pc' = [pc EXCEPT ![c] = "done"],
           UNCHANGED <<Managers, ask, at>>,
           \A d \in Clients : d # c => seen'[d] = seen[d],
           \A d \in Clients : clean'[d] =>
              clean[d] /\ (pc[d] = "exec" /\ d # c =>
                              store'[at[d].cur][ask[d].key] = store[at[d].cur][ask[d].key])
    PROVE  CallsOK' /\ ObjectsOK' /\ OneGeneration' /\ NoLostUpdate'
<1>1. \A d \in Clients : pc'[d] = IF d = c THEN "done" ELSE pc[d]
  BY DEF IndInv, TypeOK
<1>2. CallsOK'
  BY <1>1 DEF IndInv, CallsOK, CallOK, InCall
<1>3. NoLostUpdate'
  BY <1>1 DEF IndInv, NoLostUpdate, Cell
<1> QED BY <1>2, <1>3, RoundTripKeeps

\* A call that writes and is done.
LEMMA WriteAndDone ==
    ASSUME IndInv, NEW c \in Clients, NEW g \in Checksums, NEW x \in Cells,
           NEW tag \in Tags, NEW y \in Cells,
           ask[c] \in Asks, Write(g, ask[c].key, x), Done(c, Says(tag, y)),
           UNCHANGED <<Managers, ask, at, seen, tries>>
    PROVE  IndInv'
<1>1. PICK k \in Keys : k = ask[c].key
  BY AskShapes
<1>2. TypeOK /\ Write(g, k, x)
  BY <1>1 DEF IndInv
<1>3. Wrote(g, k, x)
  BY <1>2, WriteFacts
<1>4. /\ pc' \in [Clients -> {"idle", "create", "done"} \cup InCall]
      /\ reply' \in [Clients -> [tag : Tags, val : Cells]]
      /\ pc' = [pc EXCEPT ![c] = "done"]
  BY <1>2, DoneFacts
<1>5. TypeOK'
  BY <1>2, <1>3, <1>4 DEF TypeOK, Managers, Wrote
<1>6. \A d \in Clients : pc[d] = "exec" => at[d].cur \in Checksums /\ ask[d].key \in Keys
  BY AskShapes DEF IndInv, CallsOK, CallOK, InCall
<1>7. \A d \in Clients : clean'[d] =>
         clean[d] /\ (pc[d] = "exec" /\ d # c =>
                         store'[at[d].cur][ask[d].key] = store[at[d].cur][ask[d].key])
  BY <1>1, <1>3, <1>6 DEF Wrote
<1> QED BY <1>4, <1>5, <1>7, LastRoundTrip DEF IndInv

\* A call that is done without writing.
LEMMA OnlyDone ==
    ASSUME IndInv, NEW c \in Clients, NEW tag \in Tags, NEW y \in Cells, Done(c, Says(tag, y)),
           UNCHANGED <<Managers, store, ask, at, clean>>,
           seen' \in [Clients -> Cells], tries' \in [Clients -> Nat],
           \A d \in Clients : d # c => seen'[d] = seen[d]
    PROVE  IndInv'
<1>1. /\ pc' \in [Clients -> {"idle", "create", "done"} \cup InCall]
      /\ reply' \in [Clients -> [tag : Tags, val : Cells]]
      /\ pc' = [pc EXCEPT ![c] = "done"]
  BY DoneFacts DEF IndInv
<1>2. TypeOK'
  BY <1>1 DEF IndInv, TypeOK, Managers
<1> QED BY <1>1, <1>2, LastRoundTrip DEF IndInv

\* A call that goes on to another round trip.
LEMMA GoesOn ==
    ASSUME IndInv, NEW c \in Clients, NEW p \in InCall, pc' = [pc EXCEPT ![c] = p],
           UNCHANGED <<Managers, store, ask, at, reply>>,
           seen' \in [Clients -> Cells], tries' \in [Clients -> Nat], clean' \in [Clients -> BOOLEAN],
           \A d \in Clients : d # c => seen'[d] = seen[d] /\ clean'[d] = clean[d],
           p # "first",
           p = "second" => ask[c].op \in {"get", "take", "delete"} /\ at[c].prev # NoGen,
           p \in {"watch", "read", "exec"} => ask[c].op = "update",
           p = "exec" => ask[c].arg[seen'[c]] # Keep /\ seen'[c] = Cell(c, at[c].cur),
           pc[c] \in InCall
    PROVE  IndInv'
<1>1. \A d \in Clients : pc'[d] = IF d = c THEN p ELSE pc[d]
  BY DEF IndInv, TypeOK
<1>2. TypeOK'
  BY DEF IndInv, TypeOK, Managers, InCall
<1>3. at[c].prev \in Checksums \cup {NoGen}
  BY DEF IndInv, TypeOK, Places
<1>4. CallsOK'
  BY <1>1, <1>3 DEF IndInv, CallsOK, CallOK, InCall
<1>5. NoLostUpdate'
  BY <1>1 DEF IndInv, NoLostUpdate, Cell
<1> QED BY <1>2, <1>4, <1>5, RoundTripKeeps DEF IndInv

\* A call under way has its key, and its cell is a cell.
LEMMA CallFacts ==
    ASSUME IndInv, NEW c \in Clients, pc[c] \in InCall
    PROVE  /\ ask[c] \in Asks /\ ask[c].key \in Keys /\ at[c].cur \in Checksums
           /\ Cell(c, at[c].cur) \in Cells
           /\ ask[c].op = "update" => ask[c].arg \in Funs
           /\ at[c].prev # NoGen => at[c].prev \in Checksums
<1>1. ask[c] \in Asks /\ at[c].cur \in Checksums
  BY DEF IndInv, CallsOK, CallOK
<1>2. ask[c].key \in Keys /\ (ask[c].op = "update" => ask[c].arg \in Funs)
  BY <1>1, AskShapes
<1>3. store[at[c].cur] \in [Keys -> Cells]
  BY <1>1 DEF IndInv, TypeOK
<1>4. at[c] \in Places
  BY DEF IndInv, TypeOK
<1> QED BY <1>1, <1>2, <1>3, <1>4 DEF Cell, Places

LEMMA GetKeeps ==
    ASSUME IndInv, NEW c \in Clients, Get(c)
    PROVE  IndInv'
<1>1. pc[c] \in InCall /\ ask[c].op = "get"
  BY DEF Get, InCall
<1>2. PICK x \in Cells : x = Cell(c, at[c].cur)
  BY <1>1, CallFacts
<1>3. UNCHANGED <<Managers, store, ask, at, seen, clean, tries>>
  BY DEF Get
<1>4. /\ seen' \in [Clients -> Cells] /\ tries' \in [Clients -> Nat] /\ clean' \in [Clients -> BOOLEAN]
      /\ \A d \in Clients : seen'[d] = seen[d] /\ clean'[d] = clean[d]
  BY <1>3 DEF IndInv, TypeOK
<1>5. Absent \in Cells /\ {"found", "missing"} \subseteq Tags
  BY DEF Cells, Tags
<1>6. CASE Done(c, Says("found", x))
  BY <1>3, <1>4, <1>5, <1>6, OnlyDone
<1>7. CASE Done(c, Says("missing", Absent))
  BY <1>3, <1>4, <1>5, <1>7, OnlyDone
<1>8. CASE at[c].prev # NoGen /\ pc' = [pc EXCEPT ![c] = "second"] /\ UNCHANGED reply
  BY <1>1, <1>3, <1>4, <1>8, GoesOn DEF InCall
<1> QED BY <1>2, <1>6, <1>7, <1>8 DEF Get

LEMMA GetAndDeleteKeeps ==
    ASSUME IndInv, NEW c \in Clients, GetAndDelete(c)
    PROVE  IndInv'
<1>1. pc[c] \in InCall /\ ask[c].op = "take" /\ ask[c] \in Asks
  BY CallFacts DEF GetAndDelete, InCall
<1>2. PICK x \in Cells, g \in Checksums : g = at[c].cur /\ x = Cell(c, at[c].cur)
  BY <1>1, CallFacts
<1>3. UNCHANGED <<Managers, ask, at, seen, tries>>
  BY DEF GetAndDelete
<1>4. /\ seen' \in [Clients -> Cells] /\ tries' \in [Clients -> Nat]
      /\ \A d \in Clients : seen'[d] = seen[d]
  BY <1>3 DEF IndInv, TypeOK
<1>5. Absent \in Cells /\ {"found", "missing"} \subseteq Tags
  BY DEF Cells, Tags
<1>6. CASE Done(c, Says("found", x)) /\ Write(g, ask[c].key, Absent)
  BY <1>1, <1>3, <1>5, <1>6, WriteAndDone
<1>7. CASE Done(c, Says("missing", Absent)) /\ UNCHANGED <<store, clean>>
  BY <1>3, <1>4, <1>5, <1>7, OnlyDone
<1>8. CASE at[c].prev # NoGen /\ pc' = [pc EXCEPT ![c] = "second"] /\ UNCHANGED <<store, clean, reply>>
  <2>1. clean' \in [Clients -> BOOLEAN] /\ \A d \in Clients : clean'[d] = clean[d]
    BY <1>8 DEF IndInv, TypeOK
  <2> QED BY <1>1, <1>3, <1>4, <1>8, <2>1, GoesOn DEF InCall
<1> QED BY <1>2, <1>6, <1>7, <1>8 DEF GetAndDelete

LEMMA SetKeeps ==
    ASSUME IndInv, NEW c \in Clients, Set(c)
    PROVE  IndInv'
<1>1. pc[c] \in InCall /\ ask[c].op = "set"
  BY DEF Set, InCall
<1>2. ask[c] \in Asks /\ ask[c].arg \in Cells /\ at[c].cur \in Checksums
  BY <1>1, CallFacts, AskShapes DEF Cells
<1>3. PICK x \in Cells, g \in Checksums : g = at[c].cur /\ x = ask[c].arg
  BY <1>2
<1>4. Write(g, ask[c].key, x) /\ Done(c, Says("ok", Absent)) /\ UNCHANGED <<Managers, ask, at, seen, tries>>
  BY <1>3 DEF Set
<1> QED BY <1>2, <1>4, WriteAndDone DEF Cells, Tags

LEMMA DecrementKeeps ==
    ASSUME IndInv, NEW c \in Clients, DecrementIfPositive(c)
    PROVE  IndInv'
<1>1. pc[c] \in InCall /\ ask[c] \in Asks
  BY CallFacts DEF DecrementIfPositive, InCall
<1>2. PICK x \in Cells, g \in Checksums : g = at[c].cur /\ x = Cell(c, at[c].cur)
  BY <1>1, CallFacts
<1>3. UNCHANGED <<Managers, ask, at, seen, tries>>
  BY DEF DecrementIfPositive
<1>4. /\ seen' \in [Clients -> Cells] /\ tries' \in [Clients -> Nat]
      /\ \A d \in Clients : seen'[d] = seen[d]
  BY <1>3 DEF IndInv, TypeOK
<1>5. Absent \in Cells /\ {"found", "missing"} \subseteq Tags
  BY DEF Cells, Tags
<1>6. CASE x # Absent /\ x > 0 /\ Write(g, ask[c].key, x - 1) /\ Done(c, Says("found", x - 1))
  <2>1. x - 1 \in Cells
    BY <1>6, ValkeyAssumption DEF Cells
  <2> QED BY <1>1, <1>3, <1>5, <1>6, <2>1, WriteAndDone
<1>7. CASE Done(c, Says("missing", Absent)) /\ UNCHANGED <<store, clean>>
  BY <1>3, <1>4, <1>5, <1>7, OnlyDone
<1> QED BY <1>2, <1>6, <1>7 DEF DecrementIfPositive

\* A write after which no call is done.
LEMMA WriteKeeps ==
    ASSUME IndInv, NEW g \in Checksums, NEW k \in Keys, NEW x \in Cells, Write(g, k, x),
           UNCHANGED <<Managers, ask, at, seen, tries, reply>>,
           pc' \in [Clients -> {"idle", "create", "done"} \cup InCall],
           \A d \in Clients : \/ pc'[d] = pc[d]
                              \/ /\ pc'[d] = "second" /\ pc[d] \in InCall
                                 /\ ask[d].op = "delete" /\ at[d].prev # NoGen
    PROVE  IndInv'
<1>1. Wrote(g, k, x)
  BY WriteFacts DEF IndInv
<1>2. TypeOK'
  BY <1>1 DEF IndInv, TypeOK, Managers, Wrote
<1>3. \A d \in Clients : at[d].prev # NoGen => at[d].prev \in Checksums
  BY DEF IndInv, TypeOK, Places
<1>4. CallsOK'
  BY <1>3 DEF IndInv, CallsOK, CallOK, InCall
<1>5. \A d \in Clients : pc'[d] = "exec" => pc[d] = "exec" /\ at[d].cur \in Checksums /\ ask[d].key \in Keys
  BY AskShapes DEF IndInv, CallsOK, CallOK, InCall
<1>6. NoLostUpdate'
  BY <1>1, <1>5 DEF IndInv, NoLostUpdate, Cell, Wrote
<1> QED BY <1>2, <1>4, <1>6, RoundTripKeeps DEF IndInv

LEMMA DeleteKeeps ==
    ASSUME IndInv, NEW c \in Clients, Delete(c)
    PROVE  IndInv'
<1>1. pc[c] \in InCall /\ ask[c].op = "delete" /\ ask[c] \in Asks
  BY CallFacts DEF Delete, InCall
<1>2. PICK g \in Checksums, k \in Keys : g = at[c].cur /\ k = ask[c].key
  BY <1>1, CallFacts
<1>3. UNCHANGED <<Managers, ask, at, seen, tries>> /\ Write(g, k, Absent)
  BY <1>2 DEF Delete
<1>4. Absent \in Cells /\ "ok" \in Tags
  BY DEF Cells, Tags
<1>5. CASE Done(c, Says("ok", Absent))
  BY <1>1, <1>2, <1>3, <1>4, <1>5, WriteAndDone
<1>6. CASE at[c].prev # NoGen /\ pc' = [pc EXCEPT ![c] = "second"] /\ UNCHANGED reply
  <2>1. /\ pc' \in [Clients -> {"idle", "create", "done"} \cup InCall]
        /\ \A d \in Clients : pc'[d] = IF d = c THEN "second" ELSE pc[d]
    BY <1>6 DEF IndInv, TypeOK, InCall
  <2> QED BY <1>1, <1>3, <1>4, <1>6, <2>1, WriteKeeps
<1> QED BY <1>5, <1>6 DEF Delete

LEMMA PreviousKeeps ==
    ASSUME IndInv, NEW c \in Clients, Previous(c)
    PROVE  IndInv'
<1>1. pc[c] \in InCall /\ ask[c] \in Asks /\ ask[c].key \in Keys /\ at[c].prev \in Checksums
  BY CallFacts DEF Previous, InCall, IndInv, CallsOK, CallOK
<1>2. Cell(c, at[c].prev) \in Cells
  <2>1. store[at[c].prev] \in [Keys -> Cells]
    BY <1>1 DEF IndInv, TypeOK
  <2> QED BY <1>1, <2>1 DEF Cell
<1>3. PICK x \in Cells, g \in Checksums : g = at[c].prev /\ x = Cell(c, at[c].prev)
  BY <1>1, <1>2
<1>4. UNCHANGED <<Managers, ask, at, seen, tries>>
  BY DEF Previous
<1>5. /\ seen' \in [Clients -> Cells] /\ tries' \in [Clients -> Nat]
      /\ \A d \in Clients : seen'[d] = seen[d]
  BY <1>4 DEF IndInv, TypeOK
<1>6. Absent \in Cells /\ {"ok", "old", "missing"} \subseteq Tags
  BY DEF Cells, Tags
<1>7. PICK tag \in Tags, y \in Cells : Done(c, Says(tag, y))
  <2>1. Done(c, Says("ok", Absent)) \/ Done(c, Says("old", x)) \/ Done(c, Says("missing", Absent))
    BY <1>3 DEF Previous
  <2> QED BY <1>6, <2>1
<1>8. CASE UNCHANGED <<store, clean>>
  BY <1>4, <1>5, <1>7, <1>8, OnlyDone
<1>9. CASE Write(g, ask[c].key, Absent)
  BY <1>1, <1>4, <1>6, <1>7, <1>9, WriteAndDone
<1> QED BY <1>3, <1>8, <1>9 DEF Previous

LEMMA WatchKeeps ==
    ASSUME IndInv, NEW c \in Clients, Watch(c)
    PROVE  IndInv'
<1>1. pc[c] \in InCall /\ ask[c].op = "update"
  BY DEF Watch, InCall, IndInv, CallsOK, CallOK
<1>2. /\ seen' \in [Clients -> Cells] /\ tries' \in [Clients -> Nat] /\ clean' \in [Clients -> BOOLEAN]
      /\ \A d \in Clients : d # c => seen'[d] = seen[d] /\ clean'[d] = clean[d]
  BY DEF Watch, IndInv, TypeOK
<1> QED BY <1>1, <1>2, GoesOn DEF Watch, InCall

LEMMA ReadKeeps ==
    ASSUME IndInv, NEW c \in Clients, Read(c)
    PROVE  IndInv'
<1>1. pc[c] \in InCall /\ ask[c].op = "update" /\ Cell(c, at[c].cur) \in Cells
  BY CallFacts DEF Read, InCall, IndInv, CallsOK, CallOK
<1>2. /\ seen' \in [Clients -> Cells] /\ tries' \in [Clients -> Nat] /\ clean' \in [Clients -> BOOLEAN]
      /\ \A d \in Clients : d # c => seen'[d] = seen[d] /\ clean'[d] = clean[d]
      /\ seen'[c] = Cell(c, at[c].cur)
  BY <1>1 DEF Read, IndInv, TypeOK
<1>3. UNCHANGED <<Managers, store, ask, at, clean, tries>>
  BY DEF Read
<1>4. CASE Done(c, Says("kept", Absent))
  BY <1>2, <1>3, <1>4, OnlyDone DEF Tags, Cells
<1>5. CASE /\ ask[c].arg[Cell(c, at[c].cur)] # Keep
           /\ pc' = [pc EXCEPT ![c] = "exec"] /\ UNCHANGED reply
  <2>1. ask[c].arg[seen'[c]] # Keep
    BY <1>2, <1>5
  <2> QED BY <1>1, <1>2, <1>3, <1>5, <2>1, GoesOn DEF InCall
<1> QED BY <1>4, <1>5 DEF Read

LEMMA ExecKeeps ==
    ASSUME IndInv, NEW c \in Clients, Exec(c)
    PROVE  IndInv'
<1>1. /\ pc[c] \in InCall /\ ask[c].op = "update" /\ ask[c] \in Asks /\ ask[c].arg \in Funs
      /\ at[c].cur \in Checksums /\ seen[c] \in Cells /\ ask[c].arg[seen[c]] # Keep
  BY CallFacts DEF Exec, InCall, IndInv, CallsOK, CallOK, TypeOK
<1>2. ask[c].arg[seen[c]] \in Cells
  BY <1>1, FunShapes DEF Cells
<1>3. PICK x \in Cells, g \in Checksums : g = at[c].cur /\ x = ask[c].arg[seen[c]]
  BY <1>1, <1>2
<1>4. UNCHANGED <<Managers, ask, at, seen>>
  BY DEF Exec
<1>5. Absent \in Cells /\ {"wrote", "contended"} \subseteq Tags
  BY DEF Cells, Tags
<1>6. CASE Write(g, ask[c].key, x) /\ Done(c, Says("wrote", Absent)) /\ UNCHANGED tries
  BY <1>1, <1>4, <1>5, <1>6, WriteAndDone
<1>7. CASE tries' = [tries EXCEPT ![c] = @ + 1] /\ UNCHANGED <<store, clean>>
           /\ Done(c, Says("contended", Absent))
  <2>1. /\ seen' \in [Clients -> Cells] /\ tries' \in [Clients -> Nat]
        /\ \A d \in Clients : seen'[d] = seen[d]
    BY <1>4, <1>7 DEF IndInv, TypeOK
  <2> QED BY <1>4, <1>5, <1>7, <2>1, OnlyDone
<1>8. CASE tries' = [tries EXCEPT ![c] = @ + 1] /\ UNCHANGED <<store, clean>>
           /\ pc' = [pc EXCEPT ![c] = "watch"] /\ UNCHANGED reply
  <2>1. /\ seen' \in [Clients -> Cells] /\ tries' \in [Clients -> Nat] /\ clean' \in [Clients -> BOOLEAN]
        /\ \A d \in Clients : seen'[d] = seen[d] /\ clean'[d] = clean[d]
    BY <1>4, <1>8 DEF IndInv, TypeOK
  <2> QED BY <1>1, <1>4, <1>8, <2>1, GoesOn DEF InCall
<1> QED BY <1>3, <1>6, <1>7, <1>8 DEF Exec

LEMMA CommandLostKeeps ==
    ASSUME IndInv, NEW c \in Clients, CommandLost(c)
    PROVE  IndInv'
<1>1. UNCHANGED <<Managers, store, ask, at, seen, clean, tries>> /\ Done(c, Says("error", Absent))
  BY DEF CommandLost
<1>2. /\ seen' \in [Clients -> Cells] /\ tries' \in [Clients -> Nat]
      /\ \A d \in Clients : seen'[d] = seen[d]
  BY <1>1 DEF IndInv, TypeOK
<1> QED BY <1>1, <1>2, OnlyDone DEF Tags, Cells

LEMMA GetCacheKeeps ==
    ASSUME IndInv, NEW c \in Clients, GetCache(c)
    PROVE  IndInv'
<1>1. pc[c] = "idle" /\ menu.home[c] \in Replicas
  BY DEF GetCache, IndInv, TypeOK
<1>2. UNCHANGED <<menu, store, checksum, class, cache, ask, at, seen, clean, tries, reply>>
  BY DEF GetCache
<1>3. CASE class[menu.home[c]] # NoCache /\ held' = [held EXCEPT ![c] = class[menu.home[c]]] /\ UNCHANGED pc
  <2>1. TypeOK'
    BY <1>1, <1>2, <1>3 DEF IndInv, TypeOK
  <2>2. ObjectsOK'
    BY <1>1, <1>2, <1>3 DEF IndInv, TypeOK, ObjectsOK
  <2>3. CallsOK' /\ OneGeneration' /\ NoLostUpdate'
    BY <1>2, <1>3 DEF IndInv, CallsOK, CallOK, OneGeneration, NoLostUpdate, Cell
  <2> QED BY <2>1, <2>2, <2>3 DEF IndInv
<1>4. CASE pc' = [pc EXCEPT ![c] = "create"] /\ UNCHANGED held
  <2>1. \A d \in Clients : pc'[d] = IF d = c THEN "create" ELSE pc[d]
    BY <1>4 DEF IndInv, TypeOK
  <2>2. TypeOK'
    BY <1>2, <1>4 DEF IndInv, TypeOK
  <2>3. CallsOK' /\ NoLostUpdate'
    BY <1>2, <2>1 DEF IndInv, CallsOK, CallOK, NoLostUpdate, Cell, InCall
  <2>4. ObjectsOK' /\ OneGeneration'
    BY <1>2, <1>4 DEF IndInv, ObjectsOK, OneGeneration
  <2> QED BY <2>2, <2>3, <2>4 DEF IndInv
<1> QED BY <1>3, <1>4 DEF GetCache

LEMMA CreateCacheKeeps ==
    ASSUME IndInv, NEW c \in Clients, CreateCache(c)
    PROVE  IndInv'
<1>1. PICK r \in Replicas : r = menu.home[c]
  BY DEF IndInv, TypeOK
<1>2. checksum[r] \in Checksums /\ menu.uncycled \in BOOLEAN
  BY DEF IndInv, TypeOK
<1>3. PICK g \in Checksums : g = GenerationFor(menu.uncycled, checksum[r]) /\ (menu.uncycled => g = Initial)
  BY <1>2, ValkeyAssumption DEF GenerationFor
<1> DEFINE o == [cur |-> g, prev |-> NoGen]
<1>0. o \in Places /\ o.cur = g /\ o.prev = NoGen
  BY DEF Places
<1>4. /\ pc' = [pc EXCEPT ![c] = "idle"] /\ cache' = [cache EXCEPT ![c] = o]
      /\ class' = [class EXCEPT ![r] = c] /\ held' = [held EXCEPT ![c] = c]
      /\ UNCHANGED <<menu, store, checksum, ask, at, seen, clean, tries, reply>>
  BY <1>1, <1>3 DEF CreateCache
<1> HIDE DEF o
<1>5. TypeOK'
  BY <1>0, <1>4 DEF IndInv, TypeOK
<1>6. \A d \in Clients : pc'[d] = IF d = c THEN "idle" ELSE pc[d]
  BY <1>4 DEF IndInv, TypeOK
<1>7. CallsOK' /\ NoLostUpdate'
  BY <1>4, <1>6 DEF IndInv, CallsOK, CallOK, NoLostUpdate, Cell, InCall
<1>8. \A d \in Clients : cache'[d] = IF d = c THEN o ELSE cache[d]
  BY <1>4 DEF IndInv, TypeOK
<1>9. OneGeneration'
  BY <1>0, <1>3, <1>4, <1>8 DEF IndInv, OneGeneration
<1>10. ObjectsOK'
  <2>1. /\ \A d \in Clients : held'[d] = IF d = c THEN c ELSE held[d]
        /\ \A q \in Replicas : class'[q] = IF q = r THEN c ELSE class[q]
        /\ \A d \in Clients : held[d] # NoCache => held[d] \in Clients
        /\ \A q \in Replicas : class[q] # NoCache => class[q] \in Clients
    BY <1>4 DEF IndInv, TypeOK
  <2> QED BY <1>0, <1>1, <1>4, <1>8, <2>1 DEF IndInv, ObjectsOK
<1> QED BY <1>5, <1>7, <1>9, <1>10 DEF IndInv

LEMMA CycleKeeps ==
    ASSUME IndInv, NEW r \in Replicas, NEW g \in Checksums, NEW force \in BOOLEAN, Cycle(r, g, force)
    PROVE  IndInv'
<1>1. UNCHANGED <<menu, store, class, held, pc, ask, at, seen, clean, tries, reply>>
  BY DEF Cycle
<1>2. checksum' \in [Replicas -> Checksums]
  BY DEF Cycle, IndInv, TypeOK
<1>3. CASE cache' = cache
  <2>1. TypeOK' /\ CallsOK'
    BY <1>1, <1>2, <1>3 DEF IndInv, TypeOK, CallsOK, CallOK
  <2>2. ObjectsOK' /\ OneGeneration' /\ NoLostUpdate'
    BY <1>1, <1>3 DEF IndInv, ObjectsOK, OneGeneration, NoLostUpdate, Cell
  <2> QED BY <2>1, <2>2 DEF IndInv
<1>4. CASE cache' # cache
  <2>1. PICK o \in Clients : o = class[r]
    BY <1>4 DEF Cycle, IndInv, TypeOK
  <2>2. cache[o].cur \in Checksums /\ ~menu.uncycled
    BY <1>4, <2>1, ValkeyAssumption DEF Cycle, IndInv, ObjectsOK
  <2>3. PICK old \in Checksums \cup {NoGen} : old = IF force THEN NoGen ELSE cache[o].cur
    BY <2>2
  <2> DEFINE n == [cur |-> g, prev |-> old]
  <2>0. n \in Places /\ n.cur = g
    BY DEF Places
  <2>4. cache' = [cache EXCEPT ![o] = n]
    BY <1>4, <2>1, <2>3 DEF Cycle
  <2> HIDE DEF n
  <2>5. cache' \in [Clients -> Places] /\ \A d \in Clients : cache'[d] = IF d = o THEN n ELSE cache[d]
    BY <2>0, <2>4 DEF IndInv, TypeOK
  <2>6. TypeOK' /\ CallsOK'
    BY <1>1, <1>2, <2>5 DEF IndInv, TypeOK, CallsOK, CallOK
  <2>7. ObjectsOK'
    <3>1. /\ \A d \in Clients : held[d] # NoCache => held[d] \in Clients
          /\ \A q \in Replicas : class[q] # NoCache => class[q] \in Clients
      BY DEF IndInv, TypeOK
    <3> QED BY <1>1, <2>0, <2>5, <3>1 DEF IndInv, ObjectsOK
  <2>8. OneGeneration' /\ NoLostUpdate'
    BY <1>1, <2>2 DEF IndInv, OneGeneration, NoLostUpdate, Cell
  <2> QED BY <2>6, <2>7, <2>8 DEF IndInv
<1> QED BY <1>3, <1>4

LEMMA CallKeeps ==
    ASSUME IndInv, NEW c \in Clients, NEW a \in menu.asks[c], Call(c, a)
    PROVE  IndInv'
<1>1. a \in Asks
  BY DEF IndInv, TypeOK
<1>2. held[c] \in Clients /\ cache[held[c]].cur \in Checksums /\ pc[c] = "idle"
  BY DEF Call, IndInv, TypeOK, ObjectsOK
<1>3. PICK o \in Places : o = cache[held[c]] /\ o.cur \in Checksums
                         /\ (menu.uncycled => o.cur \in {Initial, NoGen} /\ o.prev = NoGen)
  BY <1>2 DEF IndInv, TypeOK, OneGeneration
<1>4. PICK p \in {"watch", "first"} :
         /\ pc' = [pc EXCEPT ![c] = p]
         /\ (p = "first") => a.op # "update"
         /\ (p = "watch") => a.op = "update"
  BY DEF Call
<1>5. /\ ask' = [ask EXCEPT ![c] = a] /\ at' = [at EXCEPT ![c] = o]
      /\ UNCHANGED <<Managers, store, seen, clean, tries, reply>>
  BY <1>3 DEF Call
<1>a. /\ pc' \in [Clients -> {"idle", "create", "done"} \cup InCall]
      /\ \A d \in Clients : pc'[d] = IF d = c THEN p ELSE pc[d]
  <2>1. pc \in [Clients -> {"idle", "create", "done"} \cup InCall]
    BY DEF IndInv, TypeOK
  <2>2. p \in InCall
    BY <1>4 DEF InCall
  <2> HIDE DEF InCall
  <2> QED BY <1>4, <2>1, <2>2
<1>b. /\ ask' \in [Clients -> Asks \cup {NoAsk}]
      /\ \A d \in Clients : ask'[d] = IF d = c THEN a ELSE ask[d]
  <2>1. ask \in [Clients -> Asks \cup {NoAsk}]
    BY DEF IndInv, TypeOK
  <2> QED BY <1>1, <1>5, <2>1
<1>c. at' \in [Clients -> Places] /\ \A d \in Clients : at'[d] = IF d = c THEN o ELSE at[d]
  <2>1. at \in [Clients -> Places]
    BY DEF IndInv, TypeOK
  <2> QED BY <1>5, <2>1
<1>6. TypeOK'
  BY <1>a, <1>b, <1>c, <1>5 DEF IndInv, TypeOK, Managers
<1>7. \A d \in Clients : /\ pc'[d] = IF d = c THEN p ELSE pc[d]
                         /\ ask'[d] = IF d = c THEN a ELSE ask[d]
                         /\ at'[d] = IF d = c THEN o ELSE at[d]
  BY <1>a, <1>b, <1>c
<1>8. CallsOK'
  <2> SUFFICES ASSUME NEW d \in Clients PROVE CallOK(d)'
    BY DEF CallsOK
  <2>1. CASE d = c
    <3>1. pc'[d] = p /\ ask'[d] = a /\ at'[d] = o
      BY <1>7, <2>1
    <3>2. p = "first" \/ p = "watch"
      BY <1>4
    <3> QED BY <1>1, <1>3, <1>4, <3>1, <3>2 DEF CallOK
  <2>2. CASE d # c
    BY <1>5, <1>7, <2>2 DEF IndInv, CallsOK, CallOK, InCall
  <2> QED BY <2>1, <2>2
<1>9. NoLostUpdate'
  BY <1>4, <1>5, <1>7 DEF IndInv, NoLostUpdate, Cell
<1>10. OneGeneration' /\ ObjectsOK'
  BY <1>3, <1>5, <1>7 DEF IndInv, OneGeneration, ObjectsOK, Managers
<1> QED BY <1>6, <1>8, <1>9, <1>10 DEF IndInv

\* The calls of S end, and the cache objects of S with them if they go too.
LEMMA DismissKeeps ==
    ASSUME IndInv, NEW S \in SUBSET Clients, Dismiss(S), UNCHANGED <<menu, store>>
    PROVE  /\ CallsOK' /\ NoLostUpdate'
           /\ pc' \in [Clients -> {"idle", "create", "done"} \cup InCall]
           /\ ask' \in [Clients -> Asks \cup {NoAsk}]
           /\ at' \in [Clients -> Places] /\ seen' \in [Clients -> Cells]
           /\ clean' \in [Clients -> BOOLEAN] /\ tries' \in [Clients -> Nat]
           /\ reply' \in [Clients -> [tag : Tags, val : Cells]]
           /\ menu.uncycled => \A c \in Clients : at'[c].cur \in {Initial, NoGen} /\ at'[c].prev = NoGen
<1>1. Nowhere \in Places /\ NoReply \in [tag : Tags, val : Cells] /\ Absent \in Cells
  BY DEF Nowhere, Places, NoReply, Says, Tags, Cells
<1>2. /\ pc' \in [Clients -> {"idle", "create", "done"} \cup InCall]
      /\ ask' \in [Clients -> Asks \cup {NoAsk}]
      /\ at' \in [Clients -> Places] /\ seen' \in [Clients -> Cells]
      /\ clean' \in [Clients -> BOOLEAN] /\ tries' \in [Clients -> Nat]
  BY <1>1 DEF IndInv, TypeOK, Dismiss
<1>3. reply' \in [Clients -> [tag : Tags, val : Cells]]
  BY <1>1 DEF IndInv, TypeOK, Dismiss
<1>4. CallsOK'
  BY DEF IndInv, TypeOK, CallsOK, CallOK, Dismiss, InCall
<1>5. NoLostUpdate'
  BY DEF IndInv, TypeOK, NoLostUpdate, Cell, Dismiss
<1>6. menu.uncycled => \A c \in Clients : at'[c].cur \in {Initial, NoGen} /\ at'[c].prev = NoGen
  BY DEF IndInv, OneGeneration, Dismiss, Nowhere
<1> QED BY <1>2, <1>3, <1>4, <1>5, <1>6

LEMMA ReturnKeeps ==
    ASSUME IndInv, NEW c \in Clients, Return(c)
    PROVE  IndInv'
<1>1. Dismiss({c}) /\ UNCHANGED <<Managers, store>> /\ UNCHANGED <<menu, store>>
  BY DEF Return, Managers
<1>2. {c} \in SUBSET Clients
  OBVIOUS
<1>3. TypeOK'
  BY <1>1, <1>2, DismissKeeps DEF IndInv, TypeOK, Managers
<1>4. ObjectsOK'
  BY <1>1 DEF IndInv, ObjectsOK, Managers
<1>5. OneGeneration'
  BY <1>1, <1>2, DismissKeeps DEF IndInv, OneGeneration, Managers
<1> QED BY <1>1, <1>2, <1>3, <1>4, <1>5, DismissKeeps DEF IndInv

LEMMA RestartKeeps ==
    ASSUME IndInv, NEW r \in Replicas, Restart(r)
    PROVE  IndInv'
<1> DEFINE gone == {c \in Clients : menu.home[c] = r}
<1>1. PICK S \in SUBSET Clients : S = gone
  OBVIOUS
<1>2. /\ Dismiss(S) /\ UNCHANGED <<menu, store>>
      /\ checksum' = [checksum EXCEPT ![r] = Initial]
      /\ class' = [class EXCEPT ![r] = NoCache]
      /\ held' = [c \in Clients |-> IF c \in S THEN NoCache ELSE held[c]]
      /\ cache' = [c \in Clients |-> IF c \in S THEN Nowhere ELSE cache[c]]
  BY <1>1 DEF Restart
<1>3. Nowhere \in Places
  BY DEF Nowhere, Places
<1>4. TypeOK'
  BY <1>2, <1>3, DismissKeeps, ValkeyAssumption DEF IndInv, TypeOK
<1>5. OneGeneration'
  BY <1>2, DismissKeeps DEF IndInv, OneGeneration, Nowhere
<1>6. ObjectsOK'
  <2>1. /\ \A d \in Clients : held[d] # NoCache => held[d] \in Clients
        /\ \A q \in Replicas : class[q] # NoCache => class[q] \in Clients
        /\ \A q \in Replicas : class'[q] = IF q = r THEN NoCache ELSE class[q]
    BY <1>2 DEF IndInv, TypeOK
  <2> QED BY <1>1, <1>2, <2>1 DEF IndInv, ObjectsOK
<1> QED BY <1>2, <1>4, <1>5, <1>6, DismissKeeps DEF IndInv

LEMMA ExpireKeeps ==
    ASSUME IndInv, NEW g \in Checksums, NEW k \in Keys, Expire(g, k)
    PROVE  IndInv'
<1>1. /\ pc' \in [Clients -> {"idle", "create", "done"} \cup InCall]
      /\ \A d \in Clients : pc'[d] = pc[d]
  BY DEF Expire, IndInv, TypeOK
<1> QED BY <1>1, WriteKeeps DEF Expire, Cells

LEMMA NextKeeps ==
    ASSUME IndInv, [Next]_vars
    PROVE  IndInv'
<1>1. CASE UNCHANGED vars
  <2>1. TypeOK' /\ CallsOK'
    BY <1>1 DEF IndInv, TypeOK, CallsOK, CallOK, vars
  <2>2. ObjectsOK' /\ OneGeneration' /\ NoLostUpdate'
    BY <1>1 DEF IndInv, ObjectsOK, OneGeneration, NoLostUpdate, Cell, vars
  <2> QED BY <2>1, <2>2 DEF IndInv
<1>2. ASSUME NEW c \in Clients, Step(c) PROVE IndInv'
  BY <1>2, CreateCacheKeeps, GetKeeps, GetAndDeleteKeeps, DeleteKeeps, PreviousKeeps, SetKeeps,
     DecrementKeeps, WatchKeeps, ReadKeeps, ExecKeeps, CommandLostKeeps, ReturnKeeps DEF Step
<1>3. Running \subseteq Replicas
  BY DEF Running, IndInv, TypeOK
<1> QED BY <1>1, <1>2, <1>3, GetCacheKeeps, CallKeeps, RestartKeeps, CycleKeeps, ExpireKeeps DEF Next

-----------------------------------------------------------------------------
(* The previous generation.                                                *)

\* Only CreateCache, Cycle and Restart move a cache object, and none to a
\* generation it is already at.
LEMMA GraceStep ==
    ASSUME IndInv, GraceKept, [Next]_vars
    PROVE  GraceKept'
<1>1. CASE UNCHANGED cache
  BY <1>1 DEF GraceKept
<1>2. ASSUME NEW c \in Clients, CreateCache(c) PROVE GraceKept'
  <2>1. \A d \in Clients : d # c => cache'[d] = cache[d]
    BY <1>2 DEF CreateCache, IndInv, TypeOK
  <2>2. cache'[c].prev = NoGen
    BY <1>2 DEF CreateCache, IndInv, TypeOK
  <2> QED BY <2>1, <2>2 DEF GraceKept
<1>3. ASSUME NEW r \in Replicas, NEW g \in Checksums, NEW force \in BOOLEAN, Cycle(r, g, force)
      PROVE  GraceKept'
  <2>1. CASE cache' # cache
    <3>1. PICK o \in Clients : o = class[r]
      BY <1>3, <2>1 DEF Cycle, IndInv, TypeOK
    <3>2. /\ cache' = [cache EXCEPT ![o] = [cur |-> g, prev |-> IF force THEN NoGen ELSE cache[o].cur]]
          /\ force \/ cache[o].cur # g
      BY <1>3, <2>1, <3>1, ValkeyAssumption DEF Cycle
    <3>3. \A d \in Clients : d # o => cache'[d] = cache[d]
      BY <3>2 DEF IndInv, TypeOK
    <3>4. cache'[o] = [cur |-> g, prev |-> IF force THEN NoGen ELSE cache[o].cur]
      BY <3>2 DEF IndInv, TypeOK
    <3>5. cache'[o].prev = NoGen \/ cache'[o].prev # cache'[o].cur
      BY <3>2, <3>4
    <3> QED BY <3>3, <3>5 DEF GraceKept
  <2> QED BY <1>1, <2>1
<1>4. ASSUME NEW r \in Replicas, Restart(r) PROVE GraceKept'
  BY <1>4 DEF Restart, GraceKept, Nowhere
<1>5. ASSUME NEW c \in Clients, Step(c), ~CreateCache(c) PROVE UNCHANGED cache
  BY <1>5 DEF Step, Get, GetAndDelete, Delete, Previous, Set, DecrementIfPositive,
     Watch, Read, Exec, CommandLost, Return, Managers
<1>6. Running \subseteq Replicas
  BY DEF Running, IndInv, TypeOK
<1> QED BY <1>1, <1>2, <1>3, <1>4, <1>5, <1>6 DEF Next, vars, GetCache, Call, Expire, Managers

-----------------------------------------------------------------------------
(* The refinement.  In the surviving scope the map is the initial          *)
(* generation, and a call under way is at it.                              *)

\* The mapped state, before and after a step.
LEMMA Mapped ==
    ASSUME menu.uncycled, UNCHANGED menu
    PROVE  /\ OneMap = store[Initial] /\ OneMap' = store'[Initial]
           /\ Asked = ask /\ Asked' = ask'
           /\ Answers = reply /\ Answers' = reply'
           /\ Phases = [c \in Clients |-> PhaseOf(pc[c])]
           /\ Phases' = [c \in Clients |-> PhaseOf(pc'[c])]
  BY DEF OneMap, Asked, Answers, Phases

\* One caller moves on.
LEMMA PhaseStep ==
    ASSUME IndInv, menu.uncycled, UNCHANGED menu, NEW c \in Clients, NEW p, pc' = [pc EXCEPT ![c] = p]
    PROVE  Phases' = [Phases EXCEPT ![c] = PhaseOf(p)]
<1>1. \A d \in Clients : pc'[d] = IF d = c THEN p ELSE pc[d]
  BY DEF IndInv, TypeOK
<1>2. \A d \in Clients : PhaseOf(pc'[d]) = IF d = c THEN PhaseOf(p) ELSE PhaseOf(pc[d])
  BY <1>1
<1> QED BY <1>2, Mapped

\* A call under way in the surviving scope.
LEMMA AtInitial ==
    ASSUME IndInv, menu.uncycled, NEW c \in Clients, pc[c] \in InCall
    PROVE  /\ at[c].cur = Initial /\ at[c].prev = NoGen /\ pc[c] # "second"
           /\ Cell(c, at[c].cur) = store[Initial][ask[c].key]
           /\ ask[c] \in Asks /\ ask[c].key \in Keys
           /\ PhaseOf(pc[c]) = "open"
<1>1. at[c].cur \in Checksums /\ ask[c] \in Asks /\ ask[c].key \in Keys
  BY CallFacts
<1>2. at[c].cur = Initial /\ at[c].prev = NoGen
  BY <1>1, ValkeyAssumption DEF IndInv, OneGeneration
<1>3. pc[c] # "second"
  BY <1>2, ValkeyAssumption DEF IndInv, CallsOK, CallOK
<1> QED BY <1>1, <1>2, <1>3 DEF Cell, PhaseOf, InCall

\* The last round trip of a call, answered with r.
LEMMA FinishMaps ==
    ASSUME IndInv, menu.uncycled, UNCHANGED <<menu, ask>>, NEW c \in Clients, pc[c] \in InCall,
           pc' = [pc EXCEPT ![c] = "done"], NEW r, reply' = [reply EXCEPT ![c] = r]
    PROVE  Atomic!Finish(c, r)
<1>1. Phases' = [Phases EXCEPT ![c] = "done"]
  <2>1. PhaseOf("done") = "done"
    BY DEF PhaseOf
  <2> QED BY <2>1, PhaseStep
<1>2. Phases[c] = "open"
  BY AtInitial, Mapped
<1> QED BY <1>1, <1>2, Mapped DEF Atomic!Finish

\* A call takes effect: the cell found, what is left of it, and the answer.
LEMMA EffectMaps ==
    ASSUME IndInv, menu.uncycled, UNCHANGED <<menu, ask>>, NEW c \in Clients, pc[c] \in InCall,
           NEW x, NEW r, x = store[Initial][ask[c].key],
           pc' = [pc EXCEPT ![c] = "done"],
           \/ r = Atomic!Answer(ask[c], x)
           \/ r = Says("error", Absent),
           reply' = [reply EXCEPT ![c] = r],
           store'[Initial] = [store[Initial] EXCEPT ![ask[c].key] = Atomic!After(ask[c], x)]
    PROVE  Atomic!Effect(c) \/ Atomic!Fail(c)
<1>1. Atomic!Finish(c, r)
  BY FinishMaps
<1>2. Atomic!Apply(c)
  BY Mapped DEF Atomic!Apply
<1>3. Says("error", Absent) = Atomic!Says("error", Absent)
  BY DEF Says, Atomic!Says
<1> QED BY <1>1, <1>2, <1>3, Mapped DEF Atomic!Effect, Atomic!Fail

\* A round trip fails before it had an effect.
LEMMA FailMaps ==
    ASSUME IndInv, menu.uncycled, UNCHANGED <<menu, ask, store>>, NEW c \in Clients, pc[c] \in InCall,
           pc' = [pc EXCEPT ![c] = "done"], reply' = [reply EXCEPT ![c] = Says("error", Absent)]
    PROVE  Atomic!Fail(c)
<1>1. Atomic!Finish(c, Says("error", Absent))
  BY FinishMaps
<1>2. Says("error", Absent) = Atomic!Says("error", Absent)
  BY DEF Says, Atomic!Says
<1> QED BY <1>1, <1>2, Mapped DEF Atomic!Fail

\* Nothing a caller of the surviving scope can see has changed.
LEMMA NothingSeen ==
    ASSUME menu.uncycled, UNCHANGED <<menu, ask, reply>>, store'[Initial] = store[Initial],
           \A d \in Clients : PhaseOf(pc'[d]) = PhaseOf(pc[d])
    PROVE  UNCHANGED Atomic!vars
  BY Mapped DEF Atomic!vars

\* A call that is done with its answer, or with a failure, after it left y of
\* the cell it found.
LEMMA DoneMaps ==
    ASSUME IndInv, menu.uncycled, UNCHANGED <<menu, ask>>, NEW c \in Clients, pc[c] \in InCall,
           NEW x \in Cells, x = store[Initial][ask[c].key],
           NEW y \in Cells, y = Atomic!After(ask[c], x),
           \/ UNCHANGED store /\ y = x
           \/ Write(Initial, ask[c].key, y),
           NEW tag \in Tags, NEW z \in Cells, Done(c, Says(tag, z)),
           Says(tag, z) = Atomic!Answer(ask[c], x)
    PROVE  Atomic!Effect(c) \/ Atomic!Fail(c)
<1>1. PICK k \in Keys : k = ask[c].key
  BY AtInitial
<1>2. Initial \in Checksums /\ store[Initial] \in [Keys -> Cells] /\ TypeOK
  BY ValkeyAssumption DEF IndInv, TypeOK
<1>3. store'[Initial] = [store[Initial] EXCEPT ![k] = y]
  <2>1. CASE UNCHANGED store /\ y = x
    BY <1>1, <1>2, <2>1
  <2>2. CASE Write(Initial, ask[c].key, y)
    <3>1. Wrote(Initial, k, y)
      BY <1>1, <1>2, <2>2, WriteFacts
    <3> QED BY <3>1 DEF Wrote
  <2> QED BY <2>1, <2>2
<1>4. /\ pc' = [pc EXCEPT ![c] = "done"]
      /\ \/ reply' = [reply EXCEPT ![c] = Says(tag, z)]
         \/ reply' = [reply EXCEPT ![c] = Says("error", Absent)]
  BY <1>2, DoneFacts
<1>5. store'[Initial] = [store[Initial] EXCEPT ![ask[c].key] = Atomic!After(ask[c], x)]
  BY <1>1, <1>3
<1>6. PICK r : /\ r = Atomic!Answer(ask[c], x) \/ r = Says("error", Absent)
               /\ reply' = [reply EXCEPT ![c] = r]
  BY <1>4
<1> QED BY <1>4, <1>5, <1>6, EffectMaps

\* The cell a call of the surviving scope finds.
LEMMA Found ==
    ASSUME IndInv, menu.uncycled, NEW c \in Clients, pc[c] \in InCall
    PROVE  \E x \in Cells : x = store[Initial][ask[c].key] /\ x = Cell(c, at[c].cur)
  BY AtInitial, CallFacts

LEMMA GetMaps ==
    ASSUME IndInv, menu.uncycled, NEW c \in Clients, Get(c)
    PROVE  Atomic!Effect(c) \/ Atomic!Fail(c)
<1>1. pc[c] \in InCall /\ ask[c].op = "get" /\ UNCHANGED <<menu, ask, store>>
  BY DEF Get, InCall, Managers
<1>2. PICK x \in Cells : x = store[Initial][ask[c].key] /\ x = Cell(c, at[c].cur)
  BY <1>1, Found
<1>3. x = Atomic!After(ask[c], x)
  BY <1>1 DEF Atomic!After
<1>4. Absent \in Cells /\ {"found", "missing"} \subseteq Tags
  BY DEF Cells, Tags
<1>5. CASE x # Absent /\ Done(c, Says("found", x))
  <2>1. Says("found", x) = Atomic!Answer(ask[c], x)
    BY <1>1, <1>5 DEF Says, Atomic!Says, Atomic!Answer
  <2> QED BY <1>1, <1>2, <1>3, <1>4, <1>5, <2>1, DoneMaps
<1>6. CASE x = Absent /\ Done(c, Says("missing", Absent))
  <2>1. Says("missing", Absent) = Atomic!Answer(ask[c], x)
    BY <1>1, <1>6 DEF Says, Atomic!Says, Atomic!Answer
  <2> QED BY <1>1, <1>2, <1>3, <1>4, <1>6, <2>1, DoneMaps
<1> QED BY <1>1, <1>2, <1>5, <1>6, AtInitial DEF Get

LEMMA GetAndDeleteMaps ==
    ASSUME IndInv, menu.uncycled, NEW c \in Clients, GetAndDelete(c)
    PROVE  Atomic!Effect(c) \/ Atomic!Fail(c)
<1>1. pc[c] \in InCall /\ ask[c].op = "take" /\ UNCHANGED <<menu, ask>>
  BY DEF GetAndDelete, InCall, Managers
<1>2. PICK x \in Cells : x = store[Initial][ask[c].key] /\ x = Cell(c, at[c].cur)
  BY <1>1, Found
<1>3. Absent = Atomic!After(ask[c], x)
  BY <1>1 DEF Atomic!After
<1>4. Absent \in Cells /\ {"found", "missing"} \subseteq Tags
  BY DEF Cells, Tags
<1>5. CASE x # Absent /\ Done(c, Says("found", x)) /\ Write(Initial, ask[c].key, Absent)
  <2>1. Says("found", x) = Atomic!Answer(ask[c], x)
    BY <1>1, <1>5 DEF Says, Atomic!Says, Atomic!Answer
  <2> QED BY <1>1, <1>2, <1>3, <1>4, <1>5, <2>1, DoneMaps
<1>6. CASE x = Absent /\ Done(c, Says("missing", Absent)) /\ UNCHANGED store
  <2>1. Says("missing", Absent) = Atomic!Answer(ask[c], x)
    BY <1>1, <1>6 DEF Says, Atomic!Says, Atomic!Answer
  <2> QED BY <1>1, <1>2, <1>3, <1>4, <1>6, <2>1, DoneMaps
<1> QED BY <1>1, <1>2, <1>5, <1>6, AtInitial DEF GetAndDelete

LEMMA DeleteMaps ==
    ASSUME IndInv, menu.uncycled, NEW c \in Clients, Delete(c)
    PROVE  Atomic!Effect(c) \/ Atomic!Fail(c)
<1>1. pc[c] \in InCall /\ ask[c].op = "delete" /\ UNCHANGED <<menu, ask>>
  BY DEF Delete, InCall, Managers
<1>2. PICK x \in Cells : x = store[Initial][ask[c].key]
  BY <1>1, Found
<1>3. Absent = Atomic!After(ask[c], x) /\ Says("ok", Absent) = Atomic!Answer(ask[c], x)
  BY <1>1 DEF Says, Atomic!Says, Atomic!After, Atomic!Answer
<1>4. Absent \in Cells /\ "ok" \in Tags
  BY DEF Cells, Tags
<1>5. Done(c, Says("ok", Absent)) /\ Write(Initial, ask[c].key, Absent)
  BY <1>1, AtInitial DEF Delete
<1> QED BY <1>1, <1>2, <1>3, <1>4, <1>5, DoneMaps

LEMMA SetMaps ==
    ASSUME IndInv, menu.uncycled, NEW c \in Clients, Set(c)
    PROVE  Atomic!Effect(c) \/ Atomic!Fail(c)
<1>1. pc[c] \in InCall /\ ask[c].op = "set" /\ UNCHANGED <<menu, ask>>
  BY DEF Set, InCall, Managers
<1>2. PICK x \in Cells : x = store[Initial][ask[c].key]
  BY <1>1, Found
<1>3. PICK y \in Cells : y = ask[c].arg
  BY <1>1, AtInitial, AskShapes DEF Cells
<1>4. y = Atomic!After(ask[c], x) /\ Says("ok", Absent) = Atomic!Answer(ask[c], x)
  BY <1>1, <1>3 DEF Says, Atomic!Says, Atomic!After, Atomic!Answer
<1>5. Absent \in Cells /\ "ok" \in Tags
  BY DEF Cells, Tags
<1>6. Done(c, Says("ok", Absent)) /\ Write(Initial, ask[c].key, y)
  BY <1>1, <1>3, AtInitial DEF Set
<1> QED BY <1>1, <1>2, <1>4, <1>5, <1>6, DoneMaps

LEMMA DecrementMaps ==
    ASSUME IndInv, menu.uncycled, NEW c \in Clients, DecrementIfPositive(c)
    PROVE  Atomic!Effect(c) \/ Atomic!Fail(c)
<1>1. pc[c] \in InCall /\ ask[c].op = "decrement" /\ UNCHANGED <<menu, ask>>
  BY DEF DecrementIfPositive, InCall, Managers
<1>2. PICK x \in Cells : x = store[Initial][ask[c].key] /\ x = Cell(c, at[c].cur)
  BY <1>1, Found
<1>3. Absent \in Cells /\ {"found", "missing"} \subseteq Tags
  BY DEF Cells, Tags
<1>4. CASE /\ x # Absent /\ x > 0
           /\ Write(Initial, ask[c].key, x - 1) /\ Done(c, Says("found", x - 1))
  <2>1. PICK y \in Cells : y = x - 1
    BY <1>4, ValkeyAssumption DEF Cells
  <2>2. y = Atomic!After(ask[c], x) /\ Says("found", y) = Atomic!Answer(ask[c], x)
    BY <1>1, <1>4, <2>1 DEF Says, Atomic!Says, Atomic!After, Atomic!Answer
  <2>3. Write(Initial, ask[c].key, y) /\ Done(c, Says("found", y))
    BY <1>4, <2>1
  <2> QED BY <1>1, <1>2, <1>3, <2>2, <2>3, DoneMaps
<1>5. CASE ~(x # Absent /\ x > 0) /\ Done(c, Says("missing", Absent)) /\ UNCHANGED store
  <2>1. x = Atomic!After(ask[c], x) /\ Says("missing", Absent) = Atomic!Answer(ask[c], x)
    BY <1>1, <1>5 DEF Says, Atomic!Says, Atomic!After, Atomic!Answer
  <2> QED BY <1>1, <1>2, <1>3, <1>5, <2>1, DoneMaps
<1>6. at[c].cur = Initial
  BY <1>1, AtInitial
<1> QED BY <1>2, <1>4, <1>5, <1>6 DEF DecrementIfPositive

LEMMA ReadMaps ==
    ASSUME IndInv, menu.uncycled, NEW c \in Clients, Read(c)
    PROVE  Atomic!Effect(c) \/ Atomic!Fail(c) \/ UNCHANGED Atomic!vars
<1>1. pc[c] = "read" /\ pc[c] \in InCall /\ ask[c].op = "update" /\ UNCHANGED <<menu, ask, store>>
  BY DEF Read, InCall, Managers, IndInv, CallsOK, CallOK
<1>2. PICK x \in Cells : x = store[Initial][ask[c].key] /\ x = Cell(c, at[c].cur)
  BY <1>1, Found
<1>3. CASE ask[c].arg[x] = Keep /\ Done(c, Says("kept", Absent))
  <2>1. x = Atomic!After(ask[c], x) /\ Says("kept", Absent) = Atomic!Answer(ask[c], x)
    BY <1>1, <1>3 DEF Says, Atomic!Says, Atomic!After, Atomic!Answer
  <2>2. Absent \in Cells /\ "kept" \in Tags
    BY DEF Cells, Tags
  <2> QED BY <1>1, <1>2, <1>3, <2>1, <2>2, DoneMaps
<1>4. CASE pc' = [pc EXCEPT ![c] = "exec"] /\ UNCHANGED reply
  <2>1. \A d \in Clients : pc'[d] = IF d = c THEN "exec" ELSE pc[d]
    BY <1>4 DEF IndInv, TypeOK
  <2>2. \A d \in Clients : PhaseOf(pc'[d]) = PhaseOf(pc[d])
    BY <1>1, <2>1 DEF PhaseOf
  <2> QED BY <1>1, <1>4, <2>2, NothingSeen
<1> QED BY <1>2, <1>3, <1>4 DEF Read

LEMMA ExecMaps ==
    ASSUME IndInv, menu.uncycled, NEW c \in Clients, Exec(c)
    PROVE  Atomic!Effect(c) \/ Atomic!Contend(c) \/ Atomic!Fail(c) \/ UNCHANGED Atomic!vars
<1>1. pc[c] = "exec" /\ pc[c] \in InCall /\ ask[c].op = "update" /\ UNCHANGED <<menu, ask>>
  BY DEF Exec, InCall, Managers, IndInv, CallsOK, CallOK
<1>2. PICK x \in Cells : x = store[Initial][ask[c].key] /\ x = Cell(c, at[c].cur)
  BY <1>1, Found
<1>3. CASE /\ clean[c] /\ Write(at[c].cur, ask[c].key, ask[c].arg[seen[c]])
           /\ Done(c, Says("wrote", Absent))
  <2>1. seen[c] = x /\ ask[c].arg[x] # Keep
    BY <1>1, <1>2, <1>3 DEF IndInv, NoLostUpdate, CallsOK, CallOK
  <2>2. PICK y \in Cells : y = ask[c].arg[x]
    BY <1>1, <2>1, CallFacts, FunShapes DEF Cells
  <2>3. y = Atomic!After(ask[c], x) /\ Says("wrote", Absent) = Atomic!Answer(ask[c], x)
    BY <1>1, <2>1, <2>2 DEF Says, Atomic!Says, Atomic!After, Atomic!Answer
  <2>4. Write(Initial, ask[c].key, y)
    BY <1>1, <1>3, <2>1, <2>2, AtInitial
  <2>5. Absent \in Cells /\ "wrote" \in Tags
    BY DEF Cells, Tags
  <2> QED BY <1>1, <1>2, <1>3, <2>3, <2>4, <2>5, DoneMaps
<1>4. CASE UNCHANGED store /\ pc' = [pc EXCEPT ![c] = "watch"] /\ UNCHANGED reply
  <2>1. \A d \in Clients : pc'[d] = IF d = c THEN "watch" ELSE pc[d]
    BY <1>4 DEF IndInv, TypeOK
  <2>2. \A d \in Clients : PhaseOf(pc'[d]) = PhaseOf(pc[d])
    BY <1>1, <2>1 DEF PhaseOf
  <2> QED BY <1>1, <1>4, <2>2, NothingSeen
<1>5. CASE UNCHANGED store /\ Done(c, Says("contended", Absent))
  <2>1. /\ pc' = [pc EXCEPT ![c] = "done"]
        /\ \/ reply' = [reply EXCEPT ![c] = Says("contended", Absent)]
           \/ reply' = [reply EXCEPT ![c] = Says("error", Absent)]
    BY <1>5 DEF Done
  <2>2. CASE reply' = [reply EXCEPT ![c] = Says("contended", Absent)]
    <3>1. Atomic!Finish(c, Says("contended", Absent))
      BY <1>1, <2>1, <2>2, FinishMaps
    <3>2. Says("contended", Absent) = Atomic!Says("contended", Absent)
      BY DEF Says, Atomic!Says
    <3> QED BY <1>1, <1>5, <3>1, <3>2, Mapped DEF Atomic!Contend
  <2>3. CASE reply' = [reply EXCEPT ![c] = Says("error", Absent)]
    BY <1>1, <1>5, <2>1, <2>3, FailMaps
  <2> QED BY <2>1, <2>2, <2>3
<1> QED BY <1>3, <1>4, <1>5 DEF Exec

\* A step of one caller, in the surviving scope.
LEMMA CallerMaps ==
    ASSUME IndInv, menu.uncycled, NEW c \in Clients, GetCache(c) \/ Step(c)
    PROVE  [Atomic!Next]_(Atomic!vars)
<1>1. ASSUME CommandLost(c) PROVE Atomic!Fail(c)
  <2>1. pc[c] \in InCall /\ UNCHANGED <<menu, ask, store>> /\ Done(c, Says("error", Absent))
    BY <1>1 DEF CommandLost, InCall, Managers
  <2> QED BY <2>1, FailMaps DEF Done
<1>2. ASSUME NEW p, p \in {"idle", "create", "read"}, pc' = [pc EXCEPT ![c] = p],
             PhaseOf(pc[c]) = PhaseOf(p), UNCHANGED <<menu, store, ask, reply>>
      PROVE  UNCHANGED Atomic!vars
  <2>1. \A d \in Clients : pc'[d] = IF d = c THEN p ELSE pc[d]
    BY <1>2 DEF IndInv, TypeOK
  <2> QED BY <1>2, <2>1, NothingSeen
<1>3. ASSUME GetCache(c) \/ CreateCache(c) \/ Watch(c) PROVE UNCHANGED Atomic!vars
  <2>1. CASE UNCHANGED <<menu, pc, store, ask, reply>>
    BY <2>1, NothingSeen
  <2>2. CASE GetCache(c) /\ pc' = [pc EXCEPT ![c] = "create"]
    BY <1>2, <2>2 DEF GetCache, PhaseOf
  <2>3. CASE CreateCache(c)
    BY <1>2, <2>3 DEF CreateCache, PhaseOf
  <2>4. CASE Watch(c)
    BY <1>2, <2>4 DEF Watch, PhaseOf, Managers
  <2> QED BY <1>3, <2>1, <2>2, <2>3, <2>4 DEF GetCache
<1>4. ASSUME Return(c) PROVE Atomic!Leave({c})
  <2>1. Dismiss({c}) /\ UNCHANGED <<menu, store>>
    BY <1>4 DEF Return, Managers
  <2> QED BY <2>1, Mapped DEF Dismiss, Atomic!Leave, PhaseOf, NoReply, Says, Atomic!Says
<1>5. ~Previous(c)
  BY AtInitial DEF Previous, InCall
<1>6. {c} \in SUBSET Clients
  OBVIOUS
<1>7. Step(c) => \/ Atomic!Effect(c) \/ Atomic!Contend(c) \/ Atomic!Fail(c) \/ Atomic!Leave({c})
                \/ UNCHANGED Atomic!vars
  BY <1>1, <1>3, <1>4, <1>5, GetMaps, GetAndDeleteMaps, DeleteMaps, SetMaps, DecrementMaps,
     ReadMaps, ExecMaps DEF Step
<1> QED BY <1>3, <1>6, <1>7 DEF Atomic!Next

\* A call of the surviving scope begins.
LEMMA CallMaps ==
    ASSUME IndInv, menu.uncycled, NEW c \in Clients, NEW a \in menu.asks[c], Call(c, a)
    PROVE  Atomic!Begin(c)
<1>1. a \in Asks /\ pc[c] = "idle" /\ UNCHANGED <<menu, store, reply>>
  BY DEF Call, IndInv, TypeOK, Managers
<1>2. PICK p : p \in {"watch", "first"} /\ pc' = [pc EXCEPT ![c] = p]
  BY DEF Call
<1>3. PhaseOf(p) = "open" /\ PhaseOf(pc[c]) = "idle"
  BY <1>1, <1>2 DEF PhaseOf
<1>4. Phases' = [Phases EXCEPT ![c] = "open"] /\ Phases[c] = "idle"
  <2>1. Phases' = [Phases EXCEPT ![c] = PhaseOf(p)]
    BY <1>1, <1>2, PhaseStep
  <2>2. Phases[c] = PhaseOf(pc[c])
    BY <1>1, Mapped
  <2> QED BY <1>3, <2>1, <2>2
<1>5. ask' = [ask EXCEPT ![c] = a]
  BY DEF Call
<1> QED BY <1>1, <1>4, <1>5, Mapped DEF Atomic!Begin

\* Every step of the cache is one of the atomic map, or one its callers do not
\* see.
LEMMA StepRefines ==
    ASSUME IndInv, [Next]_vars
    PROVE  [Atomic!Next]_(Atomic!vars)
<1>1. UNCHANGED menu
  BY DEF Next, vars, GetCache, Call, Expire, Restart, Cycle, Step, CreateCache, Get, GetAndDelete,
     Delete, Previous, Set, DecrementIfPositive, Watch, Read, Exec, CommandLost, Return, Managers
<1>2. CASE ~menu.uncycled
  BY <1>1, <1>2 DEF Atomic!vars, OneMap, Asked, Phases, Answers
<1>3. CASE menu.uncycled
  <2>1. CASE UNCHANGED vars
    BY <1>3, <2>1, NothingSeen DEF vars
  <2>2. ASSUME NEW c \in Clients, NEW a \in menu.asks[c], Call(c, a) PROVE Atomic!Next
    BY <1>3, <2>2, CallMaps DEF Atomic!Next
  <2>3. ASSUME NEW r \in Replicas, Restart(r) PROVE Atomic!Next
    <3>1. PICK S \in SUBSET Clients : Dismiss(S) /\ UNCHANGED <<menu, store>>
      BY <2>3 DEF Restart
    <3>2. Atomic!Leave(S)
      BY <1>3, <3>1, Mapped DEF Dismiss, Atomic!Leave, PhaseOf, NoReply, Says, Atomic!Says
    <3> QED BY <3>2 DEF Atomic!Next
  <2>4. ASSUME NEW r, NEW g, NEW force, Cycle(r, g, force) PROVE UNCHANGED Atomic!vars
    BY <1>3, <2>4, NothingSeen DEF Cycle
  <2>5. ASSUME NEW g \in Checksums, NEW k \in Keys, Expire(g, k) PROVE [Atomic!Next]_(Atomic!vars)
    <3>1. Wrote(g, k, Absent)
      BY <2>5, WriteFacts DEF Expire, Cells, IndInv
    <3>2. UNCHANGED <<menu, pc, ask, reply>> /\ Initial \in Checksums
      BY <2>5, ValkeyAssumption DEF Expire, Managers
    <3>3. CASE g # Initial
      BY <1>3, <3>1, <3>2, <3>3, NothingSeen DEF Wrote
    <3>4. CASE g = Initial
      <4>1. Atomic!Expire(k)
        BY <1>3, <3>1, <3>2, <3>4, Mapped DEF Atomic!Expire, Wrote
      <4> QED BY <4>1 DEF Atomic!Next
    <3> QED BY <3>3, <3>4
  <2>6. Running \subseteq Replicas
    BY DEF Running, IndInv, TypeOK
  <2> QED BY <1>3, <2>1, <2>2, <2>3, <2>4, <2>5, <2>6, CallerMaps DEF Next
<1> QED BY <1>2, <1>3

\* The empty cache is the empty map.
LEMMA InitRefines ==
    ASSUME Init
    PROVE  Atomic!Init
<1>1. Initial \in Checksums
  BY ValkeyAssumption
<1>2. Phases = [c \in Clients |-> "idle"]
  BY DEF Init, Phases, PhaseOf
<1> QED BY <1>1, <1>2 DEF Init, Atomic!Init, OneMap, Asked, Answers, NoReply, Says, Atomic!Says

-----------------------------------------------------------------------------
(* Results.                                                                *)

\* The strengthening that the other results rest on.
THEOREM Inductive == Spec => []IndInv
<1>1. Init => IndInv
  BY Initially
<1>2. IndInv /\ [Next]_vars => IndInv'
  BY NextKeeps
<1> QED BY <1>1, <1>2, PTL DEF Spec

\* Whatever writes, expiries and aborted attempts come between WATCH and EXEC,
\* a transaction that commits has run fn on the value it replaces
\* (ValkeyCache.Update): for any number of callers, replicas and attempts.
THEOREM UpdatesAreNotLost == Spec => []NoLostUpdate
<1>1. IndInv => NoLostUpdate
  BY DEF IndInv
<1> QED BY <1>1, Inductive, PTL

\* However replicas cycle, restart and create cache objects, none has its
\* current generation as its previous one (ValkeyCacheManager.Cycle).
THEOREM GraceIsKept == Spec => []GraceKept
<1>1. Init => GraceKept
  BY Initially
<1>2. IndInv /\ GraceKept /\ [Next]_vars => GraceKept'
  BY GraceStep
<1> QED BY <1>1, <1>2, Inductive, PTL DEF Spec

\* The surviving scope is one atomic map (Cache, cache.go): every call takes
\* effect at one instant, and a contended Update has none.
THEOREM SurvivingScopeIsAtomic == Spec => ImplementsAtomic
<1>1. Init => Atomic!Init
  BY InitRefines
<1>2. IndInv /\ [Next]_vars => [Atomic!Next]_(Atomic!vars)
  BY StepRefines
<1> QED BY <1>1, <1>2, Inductive, PTL DEF Spec, ImplementsAtomic, Atomic!Spec

=============================================================================
