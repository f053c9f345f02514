----------------------------- MODULE AtomicCache -----------------------------
(***************************************************************************)
(* What the surviving scope of a shared cache promises its callers         *)
(* (Cache, internal/cache/cache.go), without server, prefixes, watches or  *)
(* retries: one map from keys to cells, on which every call takes effect   *)
(* at one instant between its start and its answer.  A call answered with  *)
(* contention took no effect; one answered with a failure took effect once *)
(* or not at all.  ValkeyCache implements this specification.              *)
(***************************************************************************)
EXTENDS Integers

CONSTANTS Clients, Keys, Asks, Absent, Keep, NoAsk

VARIABLES store,   \* what each key holds, or Absent
          ask,     \* the call each client is making: [op, key, arg]
          phase,   \* "idle", "open" before the effect, "done" after it
          reply    \* the answer of a call that is done: [tag, val]

vars == <<store, ask, phase, reply>>

Says(tag, val) == [tag |-> tag, val |-> val]

\* The cell after a call found it holding cell, and the call's answer.
After(a, cell) ==
    CASE a.op = "get"                        -> cell
      [] a.op \in {"take", "delete"}         -> Absent
      [] a.op = "set"                        -> a.arg
      [] a.op = "decrement"                  -> IF cell # Absent /\ cell > 0 THEN cell - 1 ELSE cell
      [] a.op = "update"                     -> IF a.arg[cell] = Keep THEN cell ELSE a.arg[cell]

Answer(a, cell) ==
    CASE a.op \in {"get", "take"}   -> IF cell = Absent THEN Says("missing", Absent) ELSE Says("found", cell)
      [] a.op \in {"delete", "set"} -> Says("ok", Absent)
      [] a.op = "decrement"         -> IF cell # Absent /\ cell > 0 THEN Says("found", cell - 1)
                                                                    ELSE Says("missing", Absent)
      [] a.op = "update"            -> IF a.arg[cell] = Keep THEN Says("kept", Absent)
                                                             ELSE Says("wrote", Absent)

Init ==
    /\ store = [k \in Keys |-> Absent]
    /\ ask = [c \in Clients |-> NoAsk]
    /\ phase = [c \in Clients |-> "idle"]
    /\ reply = [c \in Clients |-> Says("none", Absent)]

Begin(c) ==
    /\ phase[c] = "idle"
    /\ phase' = [phase EXCEPT ![c] = "open"]
    /\ \E a \in Asks : ask' = [ask EXCEPT ![c] = a]
    /\ UNCHANGED <<store, reply>>

Finish(c, says) ==
    /\ phase[c] = "open"
    /\ phase' = [phase EXCEPT ![c] = "done"]
    /\ reply' = [reply EXCEPT ![c] = says]
    /\ UNCHANGED ask

Apply(c) == LET k == ask[c].key
            IN  store' = [store EXCEPT ![k] = After(ask[c], store[k])]

\* The call takes effect and is answered with what it met.
Effect(c) == Finish(c, Answer(ask[c], store[ask[c].key])) /\ Apply(c)

\* Contention: nothing was written.
Contend(c) == Finish(c, Says("contended", Absent)) /\ ask[c].op = "update" /\ UNCHANGED store

\* A failure: the answer does not tell whether the call took effect.
Fail(c) == Finish(c, Says("error", Absent)) /\ (Apply(c) \/ UNCHANGED store)

\* The calls of S are over: answered, or abandoned by a process that stops.
Leave(S) ==
    /\ phase' = [c \in Clients |-> IF c \in S THEN "idle" ELSE phase[c]]
    /\ ask' = [c \in Clients |-> IF c \in S THEN NoAsk ELSE ask[c]]
    /\ reply' = [c \in Clients |-> IF c \in S THEN Says("none", Absent) ELSE reply[c]]
    /\ UNCHANGED store

Expire(k) ==
    /\ store' = [store EXCEPT ![k] = Absent]
    /\ UNCHANGED <<ask, phase, reply>>

Next ==
    \/ \E c \in Clients : Begin(c) \/ Effect(c) \/ Contend(c) \/ Fail(c)
    \/ \E S \in SUBSET Clients : Leave(S)
    \/ \E k \in Keys : Expire(k)

Spec == Init /\ [][Next]_vars
=============================================================================
