-------------------------- MODULE CachePool_proofs --------------------------
(***************************************************************************)
(* CachePool for any keys, callers, sizes and times: L1 stays within its   *)
(* bound and its heap knows every entry, no value is served from L1 for    *)
(* longer than its ttl and a promotion, and one caller of each kind        *)
(* computes a key at a time.                                               *)
(***************************************************************************)
EXTENDS CachePool, FiniteSetTheorems, TLAPS

L1TypeOK ==
    /\ DOMAIN l1 \subseteq Keys /\ l1 \in [DOMAIN l1 -> Entry]
    /\ heap \subseteq HeapEntry

\* What is said of L1 is inductive as it stands.
L1Inv == L1TypeOK /\ L1Bounded /\ CachedAgeBounded

InFlight == {"read", "promote", "compute", "store"}

\* What a caller does is about a key, and a value found in Redis is not expired;
\* a call computes under the lock only, and holds it until its end.
CallOK(rec) ==
    /\ rec \in Call
    /\ rec.step \in InFlight \cup {"wait"} => rec.keys # {}
    /\ rec.step = "promote" => rec.age <= TTL - 1
    /\ rec.step = "compute" => rec.locked
    /\ rec.locked => rec.step \in InFlight

CallInv ==
    /\ call \in [Callers -> Call]
    /\ \A c \in Callers : CallOK(call[c])
    /\ \A c, d \in Callers :
         c # d /\ SameLock(c, d) /\ call[c].locked /\ call[d].locked =>
            call[c].keys # call[d].keys

CacheInv == L1Inv /\ CallInv /\ l2 \in [Keys -> Miss..TTL - 1] /\ degraded \in BOOLEAN

-----------------------------------------------------------------------------
(* L1 *)

LEMMA Numbers ==
    /\ TTL \in Nat \ {0} /\ PROMOTE \in Nat \ {0} /\ L1_MAXSIZE \in Nat \ {0}
    /\ MAX_AGE = TTL + PROMOTE - 1 /\ Miss = -1 /\ Expired = -1
    /\ IsFiniteSet(Keys)
BY CacheAssumption DEF MAX_AGE, Miss, Expired

LEMMA EntryNumbers ==
    \A e \in Entry : e.age \in Int /\ e.exp \in Int /\ e.age \in 0..MAX_AGE /\ e.exp <= MAX_AGE
BY Numbers DEF Entry

\* The entries that are neither swept nor popped live on, and are in the heap.
LEMMA KeptAreFresh ==
    ASSUME L1Inv, NEW P \in SUBSET Fresh, NEW j \in Unswept \ Victims(P)
    PROVE  /\ j \in DOMAIN l1 /\ j \in Keys
           /\ l1[j] \in Entry /\ l1[j].exp > 0
           /\ [key |-> j, exp |-> l1[j].exp] \in Fresh \ P
<1>1. j \in DOMAIN l1 /\ j \in Keys /\ l1[j] \in Entry
    BY DEF Unswept, L1Inv, L1TypeOK
<1>2. l1[j].exp \in Int
    BY <1>1, EntryNumbers
<1>3. [key |-> j, exp |-> IF Hit(j) THEN l1[j].exp ELSE 0] \in heap
    BY <1>1 DEF L1Inv, L1Bounded
<1>4. l1[j].exp > 0
    <2> SUFFICES ASSUME l1[j].exp <= 0 PROVE FALSE
        BY <1>2
    <2>1. ~\E h \in heap : h.key = j /\ h.exp <= 0
        BY <1>1 DEF Unswept
    <2>2. (IF Hit(j) THEN l1[j].exp ELSE 0) <= 0
        BY <1>2
    <2> QED
        BY <1>3, <2>1, <2>2
<1>5. [key |-> j, exp |-> l1[j].exp] \in Fresh
    BY <1>1, <1>2, <1>3, <1>4 DEF Fresh, Hit
<1> QED
    BY <1>1, <1>4, <1>5 DEF Victims

LEMMA SetInv ==
    ASSUME L1Inv, NEW k \in Keys, NEW age \in Nat, NEW ttl \in Nat, age + ttl <= MAX_AGE,
           l1_set(k, age, ttl)
    PROVE  L1Inv'
<1>1. PICK P \in Popped :
        LET kept == Unswept \ Victims(P)
        IN  /\ l1' = [j \in kept \cup {k} |->
                        IF j = k THEN [age |-> age, exp |-> ttl] ELSE l1[j]]
            /\ heap' = (Fresh \ P) \cup {[key |-> k, exp |-> ttl]}
    BY DEF l1_set
<1> DEFINE kept == Unswept \ Victims(P)
<1>2. P \in SUBSET Fresh /\ (Cardinality(kept) < L1_MAXSIZE \/ P = Fresh)
    BY DEF Popped, Enough
<1>3. \A j \in kept : /\ j \in DOMAIN l1 /\ j \in Keys
                      /\ l1[j] \in Entry /\ l1[j].exp > 0
                      /\ [key |-> j, exp |-> l1[j].exp] \in Fresh \ P
    BY <1>2, KeptAreFresh
<1> HIDE DEF kept
<1>4. /\ DOMAIN l1' = kept \cup {k}
      /\ l1'[k] = [age |-> age, exp |-> ttl]
      /\ \A j \in kept \ {k} : l1'[j] = l1[j]
      /\ heap' = (Fresh \ P) \cup {[key |-> k, exp |-> ttl]}
    BY <1>1 DEF kept
<1>5. [age |-> age, exp |-> ttl] \in Entry /\ [key |-> k, exp |-> ttl] \in HeapEntry
    BY Numbers DEF Entry, HeapEntry
<1>6. L1TypeOK'
    <2>1. DOMAIN l1' \subseteq Keys /\ \A j \in DOMAIN l1' : l1'[j] \in Entry
        BY <1>3, <1>4, <1>5
    <2>2. l1' \in [DOMAIN l1' -> Entry]
        BY <1>1, <2>1
    <2>3. heap' \subseteq HeapEntry
        BY <1>4, <1>5 DEF Fresh, L1Inv, L1TypeOK
    <2> QED
        BY <2>1, <2>2, <2>3 DEF L1TypeOK
<1>7. Cardinality(DOMAIN l1') <= L1_MAXSIZE
    <2>1. IsFiniteSet(kept)
        BY <1>3, Numbers, FS_Subset
    <2>2. Cardinality(kept) \in Nat
        BY <2>1, FS_CardinalityType
    <2>3. Cardinality(kept) < L1_MAXSIZE
        <3>1. CASE P = Fresh
            <4>1. kept = {}
                BY <1>3, <3>1
            <4> QED
                BY <4>1, FS_EmptySet, Numbers
        <3> QED
            BY <1>2, <3>1
    <2>4. Cardinality(kept \cup {k}) =
            IF k \in kept THEN Cardinality(kept) ELSE Cardinality(kept) + 1
        BY ONLY <2>1, FS_AddElement
    <2> QED
        BY <1>4, <2>2, <2>3, <2>4, Numbers
<1>8. \A j \in DOMAIN l1' :
        [key |-> j, exp |-> IF Hit(j)' THEN l1'[j].exp ELSE 0] \in heap'
    <2> SUFFICES ASSUME NEW j \in DOMAIN l1'
                 PROVE  [key |-> j, exp |-> IF Hit(j)' THEN l1'[j].exp ELSE 0] \in heap'
        OBVIOUS
    <2>1. CASE j = k
        BY <1>4, <2>1 DEF Hit
    <2>2. CASE j # k
        <3>1. j \in kept \ {k} /\ l1'[j] = l1[j]
            BY <1>4, <2>2
        <3>2. l1[j].exp \in Int /\ l1[j].exp > 0
            BY <1>3, <3>1, EntryNumbers
        <3>3. Hit(j)'
            BY <3>1, <3>2 DEF Hit
        <3> QED
            BY <1>3, <1>4, <3>1, <3>3
    <2> QED
        BY <2>1, <2>2
<1>9. CachedAgeBounded'
    <2> SUFFICES ASSUME NEW j \in DOMAIN l1', Hit(j)'
                 PROVE  l1'[j].age + l1'[j].exp <= MAX_AGE
        BY DEF CachedAgeBounded
    <2>1. CASE j = k
        BY <1>4, <2>1
    <2>2. CASE j # k
        <3>1. j \in kept \ {k} /\ l1'[j] = l1[j]
            BY <1>4, <2>2
        <3>2. l1[j].exp \in Int /\ l1[j].exp > 0 /\ j \in DOMAIN l1
            BY <1>3, <3>1, EntryNumbers
        <3> QED
            BY <3>1, <3>2 DEF L1Inv, CachedAgeBounded, Hit
    <2> QED
        BY <2>1, <2>2
<1> QED
    BY <1>6, <1>7, <1>8, <1>9 DEF L1Inv, L1Bounded

\* Dropping entries, and the heap when all of them go.
LEMMA RestrictInv ==
    ASSUME L1Inv, NEW S \in SUBSET DOMAIN l1, l1' = Restrict(l1, S),
           heap' = heap \/ (heap' = {} /\ S = {})
    PROVE  L1Inv'
<1>1. /\ DOMAIN l1' = S /\ \A j \in S : l1'[j] = l1[j]
      /\ l1' = [j \in S |-> l1[j]]
    BY DEF Restrict
<1>2. L1TypeOK'
    BY <1>1 DEF L1Inv, L1TypeOK
<1>3. Cardinality(DOMAIN l1') <= L1_MAXSIZE
    <2>1. IsFiniteSet(DOMAIN l1)
        BY Numbers, FS_Subset DEF L1Inv, L1TypeOK
    <2>2. Cardinality(S) <= Cardinality(DOMAIN l1) /\ Cardinality(S) \in Nat
          /\ Cardinality(DOMAIN l1) \in Nat
        BY <2>1, FS_Subset, FS_CardinalityType
    <2> QED
        BY <1>1, <2>2, Numbers DEF L1Inv, L1Bounded
<1>4. \A j \in S : (Hit(j)' <=> Hit(j)) /\ heap' = heap
    BY <1>1 DEF Hit
<1>5. L1Bounded'
    BY <1>1, <1>3, <1>4 DEF L1Inv, L1Bounded, Hit
<1>6. CachedAgeBounded'
    BY <1>1, <1>4 DEF L1Inv, CachedAgeBounded, Hit
<1> QED
    BY <1>2, <1>5, <1>6 DEF L1Inv

LEMMA GetInv ==
    ASSUME L1Inv, NEW k, l1_get(k)
    PROVE  L1Inv'
<1>1. CASE Hit(k)
    BY <1>1 DEF l1_get, L1Inv, L1TypeOK, L1Bounded, CachedAgeBounded, Hit
<1>2. CASE ~Hit(k)
    BY <1>2, RestrictInv DEF l1_get
<1> QED
    BY <1>1, <1>2

LEMMA SameL1 ==
    ASSUME L1Inv, UNCHANGED <<l1, heap>>
    PROVE  L1Inv'
BY DEF L1Inv, L1TypeOK, L1Bounded, CachedAgeBounded, Hit

\* Entries and heap age together.
LEMMA AgeInv ==
    ASSUME L1Inv, TimePasses
    PROVE  L1Inv'
<1>1. /\ DOMAIN l1' = DOMAIN l1
      /\ \A j \in DOMAIN l1 : l1'[j] = IF l1[j].exp <= 0 THEN [age |-> 0, exp |-> Expired]
                                       ELSE [age |-> l1[j].age + 1, exp |-> l1[j].exp - 1]
      /\ heap' = {[key |-> h.key, exp |-> Shorter(h.exp)] : h \in heap}
    BY DEF TimePasses
<1>2. \A j \in DOMAIN l1 : /\ j \in Keys
                           /\ l1[j].age \in 0..MAX_AGE /\ l1[j].exp \in Expired..MAX_AGE
    BY DEF L1Inv, L1TypeOK, Entry
<1>3. \A j \in DOMAIN l1 :
        [key |-> j, exp |-> IF Hit(j) THEN l1[j].exp ELSE 0] \in heap
    BY DEF L1Inv, L1Bounded
<1>4. \A j \in DOMAIN l1 : l1[j].exp > 0 => l1[j].age + l1[j].exp <= MAX_AGE
    BY <1>2, Numbers DEF L1Inv, CachedAgeBounded, Hit
<1>5. \A j \in DOMAIN l1 : l1'[j] \in Entry
    BY <1>1, <1>2, <1>4, Numbers DEF Entry
<1>6. L1TypeOK'
    <2>1. \A h \in heap : h.key \in Keys /\ h.exp \in 0..MAX_AGE
        BY DEF L1Inv, L1TypeOK, HeapEntry
    <2>2. \A h \in heap : [key |-> h.key, exp |-> Shorter(h.exp)] \in HeapEntry
        BY <2>1, Numbers DEF Shorter, HeapEntry
    <2>3. l1' \in [DOMAIN l1' -> Entry]
        BY <1>1, <1>5 DEF TimePasses
    <2> QED
        BY <1>1, <1>2, <2>2, <2>3 DEF L1TypeOK
<1>7. \A j \in DOMAIN l1 :
        [key |-> j, exp |-> IF Hit(j)' THEN l1'[j].exp ELSE 0] \in heap'
    <2> SUFFICES ASSUME NEW j \in DOMAIN l1
                 PROVE  [key |-> j, exp |-> IF Hit(j)' THEN l1'[j].exp ELSE 0] \in heap'
        OBVIOUS
    <2> DEFINE e == IF Hit(j) THEN l1[j].exp ELSE 0
    <2>1. [key |-> j, exp |-> Shorter(e)] \in heap'
        <3>1. PICK h \in heap : h = [key |-> j, exp |-> e]
            BY <1>3
        <3>2. h.key = j /\ h.exp = e
            BY <3>1
        <3> QED
            BY <1>1, <3>2
    <2>2. Shorter(e) = IF Hit(j)' THEN l1'[j].exp ELSE 0
        BY <1>1, <1>2, Numbers DEF Shorter, Hit
    <2> QED
        BY <2>1, <2>2
<1>8. CachedAgeBounded'
    BY <1>1, <1>2, <1>4, Numbers DEF CachedAgeBounded, Hit
<1>9. L1Bounded'
    BY <1>1, <1>7 DEF L1Inv, L1Bounded
<1> QED
    BY <1>6, <1>8, <1>9 DEF L1Inv

-----------------------------------------------------------------------------
(* Calls *)

\* A caller goes on: what it does then is in order, and it has the lock of its
\* key if it had it before, or if no other caller of its kind has it.
LEMMA GoesInv ==
    ASSUME CallInv, NEW c \in Callers, NEW rec, Goes(c, rec), CallOK(rec),
           \/ rec.locked = FALSE
           \/ call[c].locked /\ rec.keys = call[c].keys
           \/ ~Locked(c) /\ rec.keys = call[c].keys
    PROVE  CallInv'
<1>1. /\ call' \in [Callers -> Call]
      /\ call'[c] = rec /\ \A d \in Callers \ {c} : call'[d] = call[d]
    BY DEF CallInv, Goes, CallOK
<1>2. \A d \in Callers : CallOK(call'[d])
    BY <1>1 DEF CallInv, CallOK
<1>3. ASSUME NEW d \in Callers \ {c}, SameLock(c, d) \/ SameLock(d, c),
             rec.locked, call[d].locked
      PROVE  rec.keys # call[d].keys
    BY <1>3 DEF CallInv, Locked, SameLock
<1>4. \A d, e \in Callers :
        d # e /\ SameLock(d, e) /\ call'[d].locked /\ call'[e].locked =>
            call'[d].keys # call'[e].keys
    <2> SUFFICES ASSUME NEW d \in Callers, NEW e \in Callers, d # e, SameLock(d, e),
                        call'[d].locked, call'[e].locked
                 PROVE  call'[d].keys # call'[e].keys
        OBVIOUS
    <2>1. CASE d = c
        BY <1>1, <1>3, <2>1
    <2>2. CASE e = c
        BY <1>1, <1>3, <2>2
    <2>3. CASE d # c /\ e # c
        BY <1>1, <2>3 DEF CallInv
    <2> QED
        BY <2>1, <2>2, <2>3
<1> QED
    BY <1>1, <1>2, <1>4 DEF CallInv

LEMMA IdleOK == CallOK(Idle) /\ Idle.locked = FALSE
BY Numbers DEF Idle, CallOK, Call, Steps, InFlight

LEMMA KeyOfOK ==
    ASSUME CallInv, NEW c \in Callers, call[c].step \in InFlight \cup {"wait"}
    PROVE  KeyOf(c) \in Keys
<1>1. call[c].keys # {} /\ call[c].keys \subseteq Keys
    BY DEF CallInv, CallOK, Call
<1> QED
    BY <1>1 DEF KeyOf

\* A call that ends, or goes on to a step in which it may hold its lock.
LEMMA ReturnsInv ==
    ASSUME CallInv, NEW c \in Callers, Returns(c)
    PROVE  CallInv'
BY IdleOK, GoesInv DEF Returns

LEMMA MovesInv ==
    ASSUME CallInv, NEW c \in Callers, call[c].step \in InFlight \cup {"wait"},
           NEW step \in {"wait", "compute", "store"}, Moves(c, step),
           step = "compute" => call[c].locked = TRUE,
           step = "wait" => call[c].locked = FALSE
    PROVE  CallInv'
<1> DEFINE rec == [call[c] EXCEPT !.step = step]
<1>1. call[c] \in Call /\ CallOK(call[c])
    BY DEF CallInv
<1>2. /\ rec \in Call /\ rec.step = step
      /\ rec.keys = call[c].keys /\ rec.locked = call[c].locked
    BY <1>1 DEF Call, Steps
<1>3. call[c].locked \in BOOLEAN
    BY <1>1 DEF Call
<1> HIDE DEF rec
<1>4. CallOK(rec)
    BY <1>1, <1>2, <1>3 DEF CallOK, InFlight
<1> QED
    BY <1>2, <1>3, <1>4, GoesInv DEF Moves, rec

LEMMA NotFoundInv ==
    ASSUME CallInv, NEW c \in Callers, At(c, "read"), NotFound(c)
    PROVE  CallInv'
<1>1. call[c].locked \in BOOLEAN
    BY DEF CallInv, Call
<1>2. CASE Returns(c)
    BY <1>2, ReturnsInv
<1>3. CASE Moves(c, IF call[c].locked THEN "compute" ELSE "wait")
    <2>1. CASE call[c].locked = TRUE
        BY <1>3, <2>1, MovesInv DEF At, InFlight
    <2>2. CASE call[c].locked = FALSE
        BY <1>3, <2>2, MovesInv DEF At, InFlight
    <2> QED
        BY <1>1, <2>1, <2>2
<1> QED
    BY <1>2, <1>3 DEF NotFound

\* A new call, which holds no lock.
LEMMA BeginsInv ==
    ASSUME CallInv, NEW c \in Callers, NEW step \in {"read", "store", "drop"},
           NEW ks \in SUBSET Keys, ks # {}, NEW computes \in BOOLEAN,
           Goes(c, [Idle EXCEPT !.step = step, !.keys = ks, !.computes = computes])
    PROVE  CallInv'
<1> DEFINE rec == [Idle EXCEPT !.step = step, !.keys = ks, !.computes = computes]
<1>1. rec \in Call /\ rec.step = step /\ rec.keys = ks /\ rec.locked = FALSE
    BY IdleOK DEF CallOK, Call, Steps, Idle
<1> HIDE DEF rec
<1>2. CallOK(rec)
    BY <1>1 DEF CallOK, InFlight
<1> QED
    BY <1>1, <1>2, GoesInv DEF rec

\* One that computes nothing.
LEMMA StoresOrDropsInv ==
    ASSUME CallInv, NEW c \in Callers, NEW step \in {"store", "drop"},
           NEW ks \in SUBSET Keys, ks # {},
           Goes(c, [Idle EXCEPT !.step = step, !.keys = ks])
    PROVE  CallInv'
<1> DEFINE rec == [Idle EXCEPT !.step = step, !.keys = ks]
<1>1. rec \in Call /\ rec.step = step /\ rec.keys = ks /\ rec.locked = FALSE
    BY IdleOK DEF CallOK, Call, Steps, Idle
<1> HIDE DEF rec
<1>2. CallOK(rec)
    BY <1>1 DEF CallOK, InFlight
<1> QED
    BY <1>1, <1>2, GoesInv DEF rec

-----------------------------------------------------------------------------
(* The steps *)

LEMMA GetStep ==
    ASSUME CacheInv, NEW c \in Callers, NEW k \in Keys, NEW computes \in BOOLEAN,
           get(c, k, computes)
    PROVE  CacheInv'
<1>1. L1Inv'
    BY GetInv DEF CacheInv, get
<1>2. CASE Returns(c)
    BY <1>1, <1>2, ReturnsInv DEF CacheInv, get
<1>3. CASE Goes(c, [Idle EXCEPT !.step = "read", !.keys = {k}, !.computes = computes])
    <2>1. CallInv'
        BY <1>3, BeginsInv DEF CacheInv
    <2> QED
        BY <1>1, <2>1 DEF CacheInv, get
<1> QED
    BY <1>2, <1>3 DEF get

LEMMA ReadStep ==
    ASSUME CacheInv, NEW c \in Callers, l2_get(c)
    PROVE  CacheInv'
<1>1. L1Inv' /\ At(c, "read") /\ UNCHANGED l2 /\ degraded' \in BOOLEAN
    BY SameL1 DEF CacheInv, l2_get, Degrades
<1>2. CASE NotFound(c)
    BY <1>1, <1>2, NotFoundInv DEF CacheInv
<1>3. CASE /\ l2[KeyOf(c)] # Miss
           /\ Goes(c, [call[c] EXCEPT !.step = "promote", !.age = l2[KeyOf(c)]])
    <2> DEFINE age == l2[KeyOf(c)]
               rec == [call[c] EXCEPT !.step = "promote", !.age = age]
    <2>1. KeyOf(c) \in Keys
        BY <1>1, KeyOfOK DEF CacheInv, At, InFlight
    <2>2. age \in 0..TTL /\ age <= TTL - 1
        BY <1>3, <2>1, Numbers DEF CacheInv
    <2>3. call[c] \in Call /\ CallOK(call[c])
        BY DEF CacheInv, CallInv
    <2>4. call[c].locked \in BOOLEAN
        BY <2>3 DEF Call
    <2> HIDE DEF age
    <2>5. /\ rec \in Call /\ rec.step = "promote" /\ rec.age = age
          /\ rec.keys = call[c].keys /\ rec.locked = call[c].locked
        BY <2>2, <2>3 DEF Call, Steps
    <2> HIDE DEF rec
    <2>6. CallOK(rec)
        BY <1>1, <2>2, <2>3, <2>5 DEF CallOK, InFlight, At
    <2>7. Goes(c, rec)
        BY <1>3 DEF rec, age
    <2>8. CallInv'
        BY <2>4, <2>5, <2>6, <2>7, GoesInv DEF CacheInv
    <2> QED
        BY <1>1, <2>8 DEF CacheInv
<1> QED
    BY <1>2, <1>3 DEF l2_get

LEMMA PromoteStep ==
    ASSUME CacheInv, NEW c \in Callers, promote(c)
    PROVE  CacheInv'
<1>1. KeyOf(c) \in Keys
    BY KeyOfOK DEF CacheInv, promote, At, InFlight
<1>2. call[c].age \in Nat /\ call[c].age <= TTL - 1
    BY Numbers DEF CacheInv, CallInv, CallOK, Call, promote, At
<1>3. call[c].age + PROMOTE <= MAX_AGE /\ PROMOTE \in Nat
    BY <1>2, Numbers
<1>4. L1Inv'
    BY <1>1, <1>2, <1>3, SetInv DEF CacheInv, promote
<1>5. CallInv'
    BY ReturnsInv DEF CacheInv, promote
<1> QED
    BY <1>4, <1>5 DEF CacheInv, promote

LEMMA AcquireStep ==
    ASSUME CacheInv, NEW c \in Callers, Acquire(c)
    PROVE  CacheInv'
<1>1. L1Inv'
    BY GetInv DEF CacheInv, Acquire
<1>2. CASE Returns(c)
    BY <1>1, <1>2, ReturnsInv DEF CacheInv, Acquire
<1>3. CASE Goes(c, [call[c] EXCEPT !.step = "read", !.locked = TRUE])
    <2> DEFINE rec == [call[c] EXCEPT !.step = "read", !.locked = TRUE]
    <2>1. call[c] \in Call /\ CallOK(call[c]) /\ call[c].step = "wait" /\ ~Locked(c)
        BY DEF CacheInv, CallInv, Acquire, At
    <2>2. /\ rec \in Call /\ rec.step = "read" /\ rec.locked = TRUE
          /\ rec.keys = call[c].keys
        BY <2>1 DEF Call, Steps
    <2> HIDE DEF rec
    <2>3. CallOK(rec)
        BY <2>1, <2>2 DEF CallOK, InFlight
    <2>4. CallInv'
        BY <1>3, <2>1, <2>2, <2>3, GoesInv DEF CacheInv, rec
    <2> QED
        BY <1>1, <2>4 DEF CacheInv, Acquire
<1> QED
    BY <1>2, <1>3 DEF Acquire

LEMMA FinishesStep ==
    ASSUME CacheInv, NEW c \in Callers, Finishes(c)
    PROVE  CacheInv'
<1>1. CASE Computed(c)
    <2>1. KeyOf(c) \in Keys /\ call[c].step = "compute"
        BY <1>1, KeyOfOK DEF CacheInv, Computed, At, InFlight
    <2>2. L1Inv'
        BY <1>1, <2>1, SetInv, Numbers DEF CacheInv, Computed
    <2>3. CallInv'
        BY <1>1, <2>1, MovesInv DEF CacheInv, Computed, InFlight
    <2> QED
        BY <1>1, <2>2, <2>3 DEF CacheInv, Computed
<1>2. CASE Raises(c)
    BY <1>2, SameL1, ReturnsInv DEF CacheInv, Raises
<1> QED
    BY <1>1, <1>2 DEF Finishes

LEMMA SetStep ==
    ASSUME CacheInv, NEW c \in Callers, NEW k \in Keys, set(c, k)
    PROVE  CacheInv'
<1>1. L1Inv'
    BY SetInv, Numbers DEF CacheInv, set
<1>2. Goes(c, [Idle EXCEPT !.step = "store", !.keys = {k}])
    BY DEF set
<1>3. CallInv'
    <2>1. {k} \in SUBSET Keys /\ {k} # {}
        OBVIOUS
    <2> QED
        BY <1>2, <2>1, StoresOrDropsInv DEF CacheInv
<1> QED
    BY <1>1, <1>3 DEF CacheInv, set

\* delete and clear.
LEMMA DropStep ==
    ASSUME CacheInv, NEW c \in Callers, NEW ks \in SUBSET Keys, ks # {},
           \/ clear(c, ks)
           \/ \E k \in Keys : ks = {k} /\ delete(c, k)
    PROVE  CacheInv'
<1>1. L1Inv'
    <2>1. l1' = Restrict(l1, DOMAIN l1 \ ks)
        BY DEF clear, delete
    <2>2. heap' = heap \/ (heap' = {} /\ DOMAIN l1 \ ks = {})
        BY DEF clear, delete, CacheInv, L1Inv, L1TypeOK
    <2> QED
        BY <2>1, <2>2, RestrictInv DEF CacheInv
<1>2. Goes(c, [Idle EXCEPT !.step = "drop", !.keys = ks])
    BY DEF clear, delete
<1>3. CallInv'
    BY <1>2, StoresOrDropsInv DEF CacheInv
<1> QED
    BY <1>1, <1>3 DEF CacheInv, clear, delete

\* The last step of a call, in Redis.
LEMMA LastStep ==
    ASSUME CacheInv, NEW c \in Callers, l2_set(c) \/ l2_delete(c)
    PROVE  CacheInv'
<1>1. L1Inv' /\ CallInv'
    BY SameL1, ReturnsInv DEF CacheInv, l2_set, l2_delete
<1>2. 0 \in Miss..TTL - 1 /\ Miss \in Miss..TTL - 1
    BY Numbers
<1>3. l2' \in [Keys -> Miss..TTL - 1]
    BY <1>2 DEF CacheInv, l2_set, l2_delete, Degrades
<1>4. degraded' \in BOOLEAN
    BY DEF CacheInv, l2_set, l2_delete, Degrades
<1> QED
    BY <1>1, <1>3, <1>4 DEF CacheInv

LEMMA WorldStep ==
    ASSUME CacheInv, TimePasses \/ \E k \in Keys : Elsewhere(k)
    PROVE  CacheInv'
<1>1. L1Inv'
    BY AgeInv, SameL1 DEF CacheInv, Elsewhere
<1>2. UNCHANGED <<call, degraded>>
    BY DEF TimePasses, Elsewhere
<1>3. l2' \in [Keys -> Miss..TTL - 1]
    <2>1. CASE TimePasses
        <3>1. l2' = [k \in Keys |-> IF l2[k] \in {Miss, TTL - 1} THEN Miss ELSE l2[k] + 1]
            BY <2>1 DEF TimePasses
        <3>2. \A k \in Keys : l2[k] \in Miss..TTL - 1
            BY DEF CacheInv
        <3> QED
            BY <3>1, <3>2, Numbers
    <2>2. ASSUME NEW k \in Keys, Elsewhere(k) PROVE l2' \in [Keys -> Miss..TTL - 1]
        BY <2>2, Numbers DEF CacheInv, Elsewhere
    <2> QED
        BY <2>1, <2>2
<1>4. CallInv'
    BY <1>2 DEF CacheInv, CallInv, CallOK
<1> QED
    BY <1>1, <1>2, <1>3, <1>4 DEF CacheInv

LEMMA CacheInitInv == CacheInit => CacheInv
<1> SUFFICES ASSUME CacheInit PROVE CacheInv
    OBVIOUS
<1>1. DOMAIN l1 = {} /\ heap = {}
    BY DEF CacheInit
<1>2. L1Inv
    BY <1>1, FS_EmptySet, Numbers DEF CacheInit, L1Inv, L1TypeOK, L1Bounded, CachedAgeBounded
<1>3. CallInv
    BY IdleOK DEF CacheInit, CallInv, CallOK
<1>4. Miss \in Miss..TTL - 1
    BY Numbers
<1>5. l2 \in [Keys -> Miss..TTL - 1] /\ degraded \in BOOLEAN
    BY <1>4 DEF CacheInit
<1> QED
    BY <1>2, <1>3, <1>5 DEF CacheInv

LEMMA CacheStepInv == CacheInv /\ [CacheNext]_vars => CacheInv'
<1> SUFFICES ASSUME CacheInv, [CacheNext]_vars PROVE CacheInv'
    OBVIOUS
<1>1. CASE UNCHANGED vars
    <2>1. L1Inv'
        BY <1>1, SameL1 DEF CacheInv, vars
    <2> QED
        BY <1>1, <2>1 DEF CacheInv, CallInv, CallOK, vars
<1>2. ASSUME NEW c \in Callers, NEW k \in Keys, NEW computes \in BOOLEAN,
             get(c, k, computes)
      PROVE  CacheInv'
    BY <1>2, GetStep
<1>3. ASSUME NEW c \in Callers, NEW k \in Keys, set(c, k) PROVE CacheInv'
    BY <1>3, SetStep
<1>4. ASSUME NEW c \in Callers, NEW k \in Keys, delete(c, k) PROVE CacheInv'
    BY <1>4, DropStep
<1>5. ASSUME NEW c \in Callers, NEW ks \in (SUBSET Keys) \ {{}}, clear(c, ks)
      PROVE  CacheInv'
    BY <1>5, DropStep
<1>6. ASSUME NEW c \in Callers, Goes_on(c) \/ Acquire(c) \/ Finishes(c)
      PROVE  CacheInv'
    BY <1>6, ReadStep, PromoteStep, LastStep, AcquireStep, FinishesStep DEF Goes_on
<1>7. CASE TimePasses \/ \E k \in Keys : Elsewhere(k)
    BY <1>7, WorldStep
<1> QED
    BY <1>1, <1>2, <1>3, <1>4, <1>5, <1>6, <1>7 DEF CacheNext

-----------------------------------------------------------------------------
(* The theorems *)

THEOREM CacheInvariant == CacheSpec => []CacheInv
    BY CacheInitInv, CacheStepInv, PTL DEF CacheSpec

\* Every variable keeps its type.
THEOREM CacheTypeCorrect == CacheSpec => []CacheTypeOK
<1>1. CacheInv => CacheTypeOK
    BY DEF CacheInv, L1Inv, L1TypeOK, CallInv, CacheTypeOK
<1> QED
    BY <1>1, CacheInvariant, PTL

\* For any size of L1 and any keys: L1 stays within its bound, and eviction, which
\* finds entries through the heap only, can find them all.
THEOREM L1StaysBounded == CacheSpec => []L1Bounded
<1>1. CacheInv => L1Bounded
    BY DEF CacheInv, L1Inv
<1> QED
    BY <1>1, CacheInvariant, PTL

\* For any ttl: no value is served from L1 for longer than its ttl and the time a
\* promotion adds.
THEOREM CachedValuesExpire == CacheSpec => []CachedAgeBounded
<1>1. CacheInv => CachedAgeBounded
    BY DEF CacheInv, L1Inv
<1> QED
    BY <1>1, CacheInvariant, PTL

\* For any number of threads and coroutines: of each kind one caller at a time
\* computes a key, and no lock outlives its call.
THEOREM FlightsAreSingle == CacheSpec => []SingleFlight
<1>1. CacheInv => SingleFlight
    BY DEF CacheInv, CallInv, CallOK, SingleFlight, At, InFlight
<1> QED
    BY <1>1, CacheInvariant, PTL
=============================================================================
