----------------------------- MODULE CachePool ------------------------------
(***************************************************************************)
(* CachePool of cache_pool.py: a bounded dictionary of the process (L1)    *)
(* with a heap of expiry times, over a Redis shared with other processes   *)
(* (L2), and get_or_compute, which computes a missing value under a lock   *)
(* of its key.                                                             *)
(*                                                                         *)
(* The callers are the threads of a process, which use the threading.Lock  *)
(* of a key, and its coroutines, which use the asyncio.Lock.  Between two  *)
(* actions of a caller any other may run.  A value is how long ago it was  *)
(* computed, an expiry how long it lasts; all calls use one ttl.  The      *)
(* steps of a call, fn() apart, take less than a tick.                     *)
(***************************************************************************)
EXTENDS Integers, FiniteSets, Functions

CONSTANTS
    Keys,
    Threads,        \* callers of get_or_compute
    Coroutines,     \* callers of get_or_compute_async
    L1_MAXSIZE,     \* l1_maxsize
    TTL,            \* ttl, at most the 3600 s L2 keeps an entry
    PROMOTE         \* the 30 s of an entry promoted from L2

Callers == Threads \cup Coroutines

ASSUME CacheAssumption ==
    /\ IsFiniteSet(Keys) /\ Keys # {}
    /\ L1_MAXSIZE \in Nat \ {0}
    /\ TTL \in Nat \ {0}
    /\ PROMOTE \in Nat \ {0}
    /\ Threads \cap Coroutines = {}

VARIABLES
    l1,         \* _d: the entries of the keys that have one
    heap,       \* _heap: key and expiry of the entries, past ones included
    l2,         \* the age of the value under each key in Redis, or Miss
    degraded,   \* _redis_degraded
    call        \* what each caller is doing

vars == <<l1, heap, l2, degraded, call>>

Miss == -1
Expired == -1
MAX_AGE == TTL + PROMOTE - 1

Entry == [age : 0..MAX_AGE, exp : Expired..MAX_AGE]
HeapEntry == [key : Keys, exp : 0..MAX_AGE]     \* 0: now or past

Steps ==
    {"idle",
     "read",        \* get(): L1 had nothing, L2 is next
     "promote",     \* get(): L2 had the value
     "wait",        \* get_or_compute: for the lock of the key
     "compute",     \* fn() runs
     "store",       \* set(): L1 is done, L2 is next
     "drop"}        \* delete() or clear(): L1 is done, L2 is next

\* keys: what the call is about, one key except for clear().  computes: it is a
\* get_or_compute.  locked: it holds the lock of its key.
Call == [step : Steps, keys : SUBSET Keys, age : 0..TTL,
         computes : BOOLEAN, locked : BOOLEAN]

Idle == [step |-> "idle", keys |-> {}, age |-> 0, computes |-> FALSE, locked |-> FALSE]

CacheTypeOK ==
    /\ DOMAIN l1 \subseteq Keys /\ l1 \in [DOMAIN l1 -> Entry]
    /\ heap \subseteq HeapEntry
    /\ l2 \in [Keys -> Miss..TTL - 1]
    /\ degraded \in BOOLEAN
    /\ call \in [Callers -> Call]

CacheInit ==
    /\ l1 = [k \in {} |-> 0]
    /\ heap = {}
    /\ l2 = [k \in Keys |-> Miss]
    /\ degraded = FALSE
    /\ call = [c \in Callers |-> Idle]

-----------------------------------------------------------------------------
(* L1 *)

\* _evict_if_full, first loop: what is left after the entries whose time has come
\* are swept, found through the heap.
Unswept ==
    {k \in DOMAIN l1 :
        ~(l1[k].exp <= 0 /\ \E h \in heap : h.key = k /\ h.exp <= 0)}

Fresh == {h \in heap : h.exp > 0}

\* The keys that go when the heap entries in P are popped: those whose live entry
\* is among them.
Victims(P) == {k \in DOMAIN l1 : [key |-> k, exp |-> l1[k].exp] \in P}

InOrder(P) == \A h \in P, g \in Fresh \ P : h.exp <= g.exp

Enough(P) == Cardinality(Unswept \ Victims(P)) < L1_MAXSIZE \/ P = Fresh

\* Second loop: the heap is popped, earliest first, until there is room or the
\* heap is empty.
Popped ==
    {P \in SUBSET Fresh :
        /\ InOrder(P) /\ Enough(P)
        /\ P = {} \/ \E h \in P : InOrder(P \ {h}) /\ ~Enough(P \ {h})}

\* (mutant) an entry that is overwritten gets no heap entry of its own.
l1_set_PushOnce(k, age, ttl) ==
    \E P \in Popped :
        LET kept == Unswept \ Victims(P)
        IN  /\ l1' = [j \in kept \cup {k} |->
                        IF j = k THEN [age |-> age, exp |-> ttl] ELSE l1[j]]
            /\ heap' = (Fresh \ P) \cup
                         (IF k \in DOMAIN l1 THEN {} ELSE {[key |-> k, exp |-> ttl]})

\* _l1_set: evict, then put the entry and push it on the heap.
l1_set(k, age, ttl) ==
    \E P \in Popped :
        LET kept == Unswept \ Victims(P)
        IN  /\ l1' = [j \in kept \cup {k} |->
                        IF j = k THEN [age |-> age, exp |-> ttl] ELSE l1[j]]
            /\ heap' = (Fresh \ P) \cup {[key |-> k, exp |-> ttl]}

Hit(k) == k \in DOMAIN l1 /\ l1[k].exp >= 0

\* _l1_get drops an entry it finds expired; its heap entry stays.
l1_get(k) ==
    /\ l1' = IF Hit(k) THEN l1 ELSE Restrict(l1, DOMAIN l1 \ {k})
    /\ UNCHANGED heap

-----------------------------------------------------------------------------
(* Calls *)

Goes(c, rec) == call' = [call EXCEPT ![c] = rec]
At(c, step) == call[c].step = step
KeyOf(c) == CHOOSE k \in call[c].keys : TRUE
Returns(c) == Goes(c, Idle)
Moves(c, step) == Goes(c, [call[c] EXCEPT !.step = step])

\* get, and the first look of get_or_compute.
get(c, k, computes) ==
    /\ At(c, "idle")
    /\ l1_get(k)
    /\ IF Hit(k) THEN Returns(c)
       ELSE Goes(c, [Idle EXCEPT !.step = "read", !.keys = {k}, !.computes = computes])
    /\ UNCHANGED <<l2, degraded>>

\* Neither layer has it: get returns the default; get_or_compute waits for the
\* lock or, when it holds it, calls fn().
NotFound(c) ==
    IF ~call[c].computes THEN Returns(c)
    ELSE Moves(c, IF call[c].locked THEN "compute" ELSE "wait")

\* A Redis command fails: the pool never asks Redis again.
Degrades == ~degraded /\ degraded' = TRUE /\ UNCHANGED l2

\* _l2_get; an entry that cannot be decoded is a miss.
l2_get(c) ==
    /\ At(c, "read")
    /\ \/ ~degraded /\ l2[KeyOf(c)] # Miss
          /\ Goes(c, [call[c] EXCEPT !.step = "promote", !.age = l2[KeyOf(c)]])
          /\ UNCHANGED <<l2, degraded>>
       \/ NotFound(c) /\ UNCHANGED <<l2, degraded>>
       \/ NotFound(c) /\ Degrades
    /\ UNCHANGED <<l1, heap>>

\* (mutant) the promoted entry gets a whole ttl of its own.
promote_WholeTtl(c) ==
    /\ At(c, "promote")
    /\ l1_set(KeyOf(c), call[c].age, TTL)
    /\ Returns(c)
    /\ UNCHANGED <<l2, degraded>>

\* The value found in L2 is put into L1 for 30 s, whatever is left of its own
\* life and whatever happened to the key meanwhile.
promote(c) ==
    /\ At(c, "promote")
    /\ l1_set(KeyOf(c), call[c].age, PROMOTE)
    /\ Returns(c)
    /\ UNCHANGED <<l2, degraded>>

\* Threads and coroutines have locks of their own for each key.
SameLock(c, d) == {c, d} \subseteq Threads \/ {c, d} \subseteq Coroutines

Locked(c) == \E d \in Callers : SameLock(c, d) /\ call[d].locked /\ call[d].keys = call[c].keys

\* get_or_compute takes the lock and looks again.
Acquire(c) ==
    /\ At(c, "wait") /\ ~Locked(c)
    /\ l1_get(KeyOf(c))
    /\ IF Hit(KeyOf(c)) THEN Returns(c)
       ELSE Goes(c, [call[c] EXCEPT !.step = "read", !.locked = TRUE])
    /\ UNCHANGED <<l2, degraded>>

\* fn() returns, and set() puts the value into L1.
Computed(c) ==
    /\ At(c, "compute")
    /\ l1_set(KeyOf(c), 0, TTL)
    /\ Moves(c, "store")
    /\ UNCHANGED <<l2, degraded>>

\* (mutant) the lock is not released when fn() raises.
Raises_KeepsLock(c) ==
    /\ At(c, "compute")
    /\ Goes(c, [call[c] EXCEPT !.step = "idle"])
    /\ UNCHANGED <<l1, heap, l2, degraded>>

\* fn() raises, or its coroutine is cancelled: the with statement gives the lock
\* back and nothing is stored.
Raises(c) ==
    /\ At(c, "compute")
    /\ Returns(c)
    /\ UNCHANGED <<l1, heap, l2, degraded>>

set(c, k) ==
    /\ At(c, "idle")
    /\ l1_set(k, 0, TTL)
    /\ Goes(c, [Idle EXCEPT !.step = "store", !.keys = {k}])
    /\ UNCHANGED <<l2, degraded>>

\* _l2_set, and the end of the call: the value may not be picklable, or not be
\* allowed into Redis without a signature.
l2_set(c) ==
    /\ At(c, "store")
    /\ Returns(c)
    /\ \/ ~degraded /\ l2' = [l2 EXCEPT ![KeyOf(c)] = 0] /\ UNCHANGED degraded
       \/ UNCHANGED <<l2, degraded>>
       \/ Degrades
    /\ UNCHANGED <<l1, heap>>

delete(c, k) ==
    /\ At(c, "idle")
    /\ l1' = Restrict(l1, DOMAIN l1 \ {k})
    /\ Goes(c, [Idle EXCEPT !.step = "drop", !.keys = {k}])
    /\ UNCHANGED <<heap, l2, degraded>>

\* clear() of everything or of a prefix; only the former clears the heap.
clear(c, ks) ==
    /\ At(c, "idle")
    /\ l1' = Restrict(l1, DOMAIN l1 \ ks)
    /\ heap' = IF ks = Keys THEN {} ELSE heap
    /\ Goes(c, [Idle EXCEPT !.step = "drop", !.keys = ks])
    /\ UNCHANGED <<l2, degraded>>

\* _l2_delete, or the scan of clear(): a backend that has no such command, as the
\* RedisCache of this program, leaves the entries where they are.
l2_delete(c) ==
    /\ At(c, "drop")
    /\ Returns(c)
    /\ \/ /\ ~degraded
          /\ l2' = [k \in Keys |-> IF k \in call[c].keys THEN Miss ELSE l2[k]]
          /\ UNCHANGED degraded
       \/ UNCHANGED <<l2, degraded>>
       \/ Degrades
    /\ UNCHANGED <<l1, heap>>

-----------------------------------------------------------------------------

\* Another process of the pool stores a value.
Elsewhere(k) ==
    /\ l2' = [l2 EXCEPT ![k] = 0]
    /\ UNCHANGED <<l1, heap, degraded, call>>

Shorter(exp) == IF exp <= 0 THEN 0 ELSE exp - 1

TimePasses ==
    /\ \A c \in Callers : call[c].step \in {"idle", "wait", "compute"}
    /\ l1' = [k \in DOMAIN l1 |->
                IF l1[k].exp <= 0 THEN [age |-> 0, exp |-> Expired]
                ELSE [age |-> l1[k].age + 1, exp |-> l1[k].exp - 1]]
    /\ heap' = {[key |-> h.key, exp |-> Shorter(h.exp)] : h \in heap}
    /\ l2' = [k \in Keys |-> IF l2[k] \in {Miss, TTL - 1} THEN Miss ELSE l2[k] + 1]
    /\ UNCHANGED <<degraded, call>>

Goes_on(c) == l2_get(c) \/ promote(c) \/ l2_set(c) \/ l2_delete(c)

Finishes(c) == Computed(c) \/ Raises(c)

CacheNext ==
    \/ \E c \in Callers :
        \/ \E k \in Keys : \/ \E computes \in BOOLEAN : get(c, k, computes)
                           \/ set(c, k) \/ delete(c, k)
        \/ \E ks \in (SUBSET Keys) \ {{}} : clear(c, ks)
        \/ Goes_on(c) \/ Acquire(c) \/ Finishes(c)
    \/ \E k \in Keys : Elsewhere(k)
    \/ TimePasses

CacheSpec == CacheInit /\ [][CacheNext]_vars

-----------------------------------------------------------------------------
(* Properties *)

\* L1 never holds more than l1_maxsize entries, and no entry is lost to eviction:
\* the heap always knows the expiry of every entry, however often keys were
\* overwritten, deleted and set again around it.
L1Bounded ==
    /\ Cardinality(DOMAIN l1) <= L1_MAXSIZE
    /\ \A k \in DOMAIN l1 :
         [key |-> k, exp |-> IF Hit(k) THEN l1[k].exp ELSE 0] \in heap

\* A value is served from L1 for its ttl and 30 s at most, counted from its
\* computation: promotion may bring a deleted or overwritten value back, and may
\* outlive the entry it read, but not by more than that, and not twice.
CachedAgeBounded ==
    \A k \in DOMAIN l1 : Hit(k) => l1[k].age + l1[k].exp <= MAX_AGE

\* "Exactly one concurrent caller invokes fn()": one thread and one coroutine at
\* a time compute a key; and a lock belongs to a call that is under way, so that
\* an fn() that raised keeps nobody waiting.
SingleFlight ==
    /\ \A c, d \in Callers :
         c # d /\ At(c, "compute") /\ At(d, "compute") /\ SameLock(c, d) =>
             call[c].keys # call[d].keys
    /\ \A c \in Callers : call[c].locked => ~At(c, "idle") /\ ~At(c, "wait")

=============================================================================
