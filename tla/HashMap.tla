------------------------------ MODULE HashMap -------------------------------
(***************************************************************************)
(* stdlib/utils/hashmap.h: open addressing with linear probing,            *)
(* tombstones, and a rehash to twice the capacity.                         *)
(*                                                                         *)
(* The hash of a key is any number; which one does not change during a     *)
(* run.  The probe loop has no counter in the code: it ends only because a *)
(* slot is empty or holds the key.                                         *)
(***************************************************************************)
EXTENDS Naturals, FiniteSets, FiniteSetsExt

CONSTANTS
    Keys, Vals, NoVal, NoKey,
    InitCap,     \* the capacity hmap_init allocates (16 in the code)
    MaxCap,      \* no calloc of more slots than this succeeds
    HashValues   \* the hashes considered

VARIABLES
    hash,    \* hmap_hash, chosen once
    live,    \* m->tab is allocated
    tab,     \* m->tab
    cap,     \* m->cap
    count,   \* m->count
    tombs,   \* m->tombs
    call,    \* the last call and its arguments
    ret      \* what it returned

vars == <<hash, live, tab, cap, count, tombs, call, ret>>

Empty == [state |-> "EMPTY", key |-> NoKey, val |-> NoVal]
Used(k, v) == [state |-> "USED", key |-> k, val |-> v]
\* hmap_del clears the value and leaves the key.
Tomb(k) == [state |-> "TOMB", key |-> k, val |-> NoVal]

\* calloc
NewTab(n) == [i \in 0 .. n - 1 |-> Empty]

-----------------------------------------------------------------------------
(***************************************************************************)
(* hmap_probe on a table t of n slots.                                     *)
(***************************************************************************)

\* The slot visited after j steps.
Slot(n, k, j) == (hash[k] + j) % n

Holds(e, k) == e.state = "USED" /\ e.key = k

\* The loop stops here: an empty slot, or the key.
Stops(t, n, k, j) ==
    LET e == t[Slot(n, k, j)] IN e.state = "EMPTY" \/ Holds(e, k)

ProbeEnds(t, n, k) == \E j \in 0 .. n - 1 : Stops(t, n, k, j)

LastStep(t, n, k) == Min({j \in 0 .. n - 1 : Stops(t, n, k, j)})

Found(t, n, k) == Holds(t[Slot(n, k, LastStep(t, n, k))], k)

\* The key's slot, else the first tombstone passed, else the empty slot.
Probe(t, n, k) ==
    LET last == LastStep(t, n, k)
        passed == {j \in 0 .. last : t[Slot(n, k, j)].state = "TOMB"}
    IN  Slot(n, k, IF ~Found(t, n, k) /\ passed # {} THEN Min(passed) ELSE last)

-----------------------------------------------------------------------------
\* A zeroed struct hmap, not initialised yet.
Init ==
    /\ hash \in [Keys -> HashValues]
    /\ live = FALSE
    /\ tab = NewTab(0)
    /\ cap = 0
    /\ count = 0
    /\ tombs = 0
    /\ call = <<"init">>
    /\ ret = "ok"

\* hmap_init; without memory it leaves the capacity set and no table.
InitMap(ok) ==
    /\ ~live
    /\ live' = ok
    /\ tab' = NewTab(IF ok THEN InitCap ELSE 0)
    /\ cap' = InitCap
    /\ count' = 0
    /\ tombs' = 0
    /\ call' = <<"init">>
    /\ ret' = IF ok THEN "ok" ELSE "fail"
    /\ UNCHANGED hash

LoadedLiveOnly(c, t, n) == (c + 1) * 10 >= n * 7
\* The load check at the start of hmap_put.
Loaded(c, t, n) == (c + t + 1) * 10 >= n * 7

\* The capacity hmap_put asks of hmap_rehash.
Grown(n) == n * 2

\* hmap_rehash: the used entries put, in slot order, into a new table
\* (RehashNeverNests: these inner puts find it roomy enough).
Rehashed(t, n, m) ==
    LET after[i \in 0 .. n] ==
            IF i = 0 THEN NewTab(m)
            ELSE LET e == t[i - 1] IN
                 IF e.state = "USED"
                   THEN [after[i - 1] EXCEPT ![Probe(after[i - 1], m, e.key)] = e]
                   ELSE after[i - 1]
    IN  after[n]

StoreKeepsOldValue(t, n, c, d, k, v) ==
    LET i == Probe(t, n, k) IN
    /\ tab' = IF Found(t, n, k) THEN t ELSE [t EXCEPT ![i] = Used(k, v)]
    /\ cap' = n
    /\ count' = IF Found(t, n, k) THEN c ELSE c + 1
    /\ tombs' = IF ~Found(t, n, k) /\ t[i].state = "TOMB" THEN d - 1 ELSE d
    /\ call' = <<"put", k, v>>
    /\ ret' = "ok"
    /\ UNCHANGED <<hash, live>>

\* The part of hmap_put after the load check, on a table t of n slots.
Store(t, n, c, d, k, v) ==
    LET i == Probe(t, n, k) IN
    /\ tab' = [t EXCEPT ![i] = Used(k, v)]
    /\ cap' = n
    /\ count' = IF Found(t, n, k) THEN c ELSE c + 1
    /\ tombs' = IF ~Found(t, n, k) /\ t[i].state = "TOMB" THEN d - 1 ELSE d
    /\ call' = <<"put", k, v>>
    /\ ret' = "ok"
    /\ UNCHANGED <<hash, live>>

PutInPlace(k, v) ==
    /\ live
    /\ ~Loaded(count, tombs, cap)
    /\ Store(tab, cap, count, tombs, k, v)

\* The put that finds the table loaded: rehash, then store.
PutRehash(k, v) ==
    /\ live
    /\ Loaded(count, tombs, cap)
    /\ Grown(cap) <= MaxCap
    /\ Store(Rehashed(tab, cap, Grown(cap)), Grown(cap), count, 0, k, v)

\* calloc fails: the old table stays as it was.
PutFail(k, v) ==
    /\ live
    /\ Loaded(count, tombs, cap)
    /\ call' = <<"put", k, v>>
    /\ ret' = "fail"
    /\ UNCHANGED <<hash, live, tab, cap, count, tombs>>

Get(k) ==
    /\ call' = <<"get", k>>
    /\ ret' = IF live /\ Found(tab, cap, k) THEN tab[Probe(tab, cap, k)].val ELSE NoVal
    /\ UNCHANGED <<hash, live, tab, cap, count, tombs>>

Del(k) ==
    /\ live /\ Found(tab, cap, k)
    /\ tab' = [tab EXCEPT ![Probe(tab, cap, k)] = Tomb(k)]
    /\ count' = count - 1
    /\ tombs' = tombs + 1
    /\ call' = <<"del", k>>
    /\ ret' = "ok"
    /\ UNCHANGED <<hash, live, cap>>

DelMissing(k) ==
    /\ ~(live /\ Found(tab, cap, k))
    /\ call' = <<"del", k>>
    /\ ret' = "fail"
    /\ UNCHANGED <<hash, live, tab, cap, count, tombs>>

Free ==
    /\ live' = FALSE
    /\ tab' = NewTab(0)
    /\ cap' = 0
    /\ count' = 0
    /\ tombs' = 0
    /\ call' = <<"free">>
    /\ ret' = "ok"
    /\ UNCHANGED hash

Next ==
    \/ \E ok \in BOOLEAN : InitMap(ok)
    \/ \E k \in Keys, v \in Vals : PutInPlace(k, v) \/ PutRehash(k, v) \/ PutFail(k, v)
    \/ \E k \in Keys : Get(k) \/ Del(k) \/ DelMissing(k)
    \/ Free

Spec == Init /\ [][Next]_vars

-----------------------------------------------------------------------------
InState(s) == {i \in DOMAIN tab : tab[i].state = s}

\* Types, and the two counters count what they say.
TypeOK ==
    /\ cap \in Nat
    /\ tab \in [(IF live THEN 0 .. cap - 1 ELSE {}) ->
                [state : {"EMPTY", "USED", "TOMB"},
                 key : Keys \cup {NoKey}, val : Vals \cup {NoVal}]]
    /\ count = Cardinality(InState("USED"))
    /\ tombs = Cardinality(InState("TOMB"))

\* The probe loop ends for every key, present or not: deletes and failed
\* rehashes never fill the last empty slot.
ProbeTerminates == live => \A k \in Keys : ProbeEnds(tab, cap, k)

\* The puts inside hmap_rehash never find the new table loaded: a nested
\* rehash would swap the table and free it under the outer loop.
RehashNeverNests ==
    live /\ Loaded(count, tombs, cap) =>
        \A c \in 0 .. count - 1 : ~Loaded(c, 0, Grown(cap))

\* Every live entry is found by its own probe, so no key is stored twice and
\* none hides behind an empty slot.
EveryEntryReachable ==
    \A i \in InState("USED") :
        Found(tab, cap, tab[i].key) /\ Probe(tab, cap, tab[i].key) = i

\* What the used entries say about each key.
Contents ==
    [k \in Keys |->
        IF \E i \in InState("USED") : tab[i].key = k
          THEN tab[CHOOSE i \in InState("USED") : tab[i].key = k].val
          ELSE NoVal]

Dict == INSTANCE Dictionary WITH dict <- Contents

\* Puts, gets and deletes, across tombstone reuse, growth and out-of-memory,
\* behave and answer like a dictionary.
ImplementsDictionary == Dict!Spec
=============================================================================
