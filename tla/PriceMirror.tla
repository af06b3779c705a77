---------------------------- MODULE PriceMirror ----------------------------
(***************************************************************************)
(* The price map that every gunicorn worker keeps in app.state and that    *)
(* one of them refreshes for all (main.py, _gamma_price_prewarm; the       *)
(* Kalshi mirror is the same loop over other keys).  A worker takes the    *)
(* map from a shared Redis key; when the key has expired, whoever gets the *)
(* refresh lock, a RedisLock that nobody ever releases, asks upstream and  *)
(* writes the key.                                                         *)
(*                                                                         *)
(* A price map is represented by its age, in ticks.  The commands that a   *)
(* worker sends to Redis are separate actions, and so are its request to   *)
(* upstream and the handling of the answer.                                *)
(***************************************************************************)
EXTENDS Integers

CONSTANTS
    Workers,
    TTL,            \* _GAMMA_TTL_S, the life of the shared key
    REFRESH,        \* _GAMMA_REFRESH_S, the sleep and the life of the lock
    Faults,         \* what may go wrong: a subset of FaultKinds
    MaxFaults       \* bound: how often

FaultKinds ==
    {"redis",       \* a command fails
     "upstream",    \* upstream fails or answers with an empty map
     "late",        \* a worker, or upstream, takes longer than a tick
     "restart",     \* a worker is replaced
     "offline"}     \* a worker is replaced and boots without Redis

ASSUME MirrorAssumption ==
    /\ REFRESH \in Nat \ {0}
    /\ TTL \in Nat \ {0}
    /\ Faults \subseteq FaultKinds
    /\ MaxFaults \in Nat

VARIABLES
    cached,         \* Redis: the age of the map at the shared key
    cachedTtl,      \* Redis: its time to live; 0 without a map, or with an empty one
    lockTtl,        \* Redis: the time to live of the refresh lock
    pc,             \* where the loop of each worker is
    due,            \* ticks until it wakes
    stale,          \* how long it has had no newer map than its own, since boot
    took,           \* the age of the answer it is fetching
    offline,        \* it has no Redis client
    faults,         \* how often something went wrong
    happened        \* history: what went wrong

redisVars == <<cached, cachedTtl, lockTtl>>
vars == <<redisVars, pc, due, stale, took, offline, faults, happened>>

MaxAge == TTL + REFRESH * (MaxFaults + 2)   \* beyond it ages are not told apart

MirrorTypeOK ==
    /\ cached \in 0..MaxAge
    /\ cachedTtl \in 0..TTL
    /\ lockTtl \in 0..REFRESH
    /\ pc \in [Workers -> {"asleep", "reading", "missed", "fetching", "waiting"}]
    /\ due \in [Workers -> 0..REFRESH]
    /\ stale \in [Workers -> 0..MaxAge]
    /\ took \in [Workers -> 0..MaxAge]
    /\ offline \in [Workers -> BOOLEAN]
    /\ faults \in 0..MaxFaults
    /\ happened \subseteq Faults

MirrorInit ==
    /\ cached = 0 /\ cachedTtl = 0 /\ lockTtl = 0
    /\ pc = [w \in Workers |-> "reading"]
    /\ due = [w \in Workers |-> 0]
    /\ stale = [w \in Workers |-> 0]
    /\ took = [w \in Workers |-> 0]
    /\ offline = [w \in Workers |-> FALSE]
    /\ faults = 0
    /\ happened = {}

-----------------------------------------------------------------------------

Fault(kind) ==
    /\ kind \in Faults /\ faults < MaxFaults
    /\ faults' = faults + 1
    /\ happened' = happened \cup {kind}
NoFault == UNCHANGED <<faults, happened>>

Goto(w, state) == pc' = [pc EXCEPT ![w] = state] /\ UNCHANGED <<due, offline>>

Sleep(w) ==
    /\ pc' = [pc EXCEPT ![w] = "asleep"]
    /\ due' = [due EXCEPT ![w] = REFRESH]
    /\ UNCHANGED offline

\* The worker shows a map of that age.
Shows(w, age) == stale' = [stale EXCEPT ![w] = age]

\* GET of the shared key.  A map is shown, and no other is looked for before the
\* next period; a failed GET and an empty map count as a miss.
ReadCache(w) ==
    /\ pc[w] = "reading"
    /\ \/ ~offline[w] /\ cachedTtl > 0 /\ Shows(w, cached) /\ Sleep(w) /\ NoFault
       \/ /\ \/ (offline[w] \/ cachedTtl = 0) /\ NoFault
             \/ ~offline[w] /\ Fault("redis")
          /\ Goto(w, "missed") /\ UNCHANGED stale
    /\ UNCHANGED <<redisVars, took>>

StartFetch(w) == Goto(w, "fetching") /\ took' = [took EXCEPT ![w] = 0]

\* (mutant) an error claims the lock, as RedisCache.setnx did.
TryLock_FailOpen(w) ==
    /\ pc[w] = "missed"
    /\ \/ offline[w] /\ StartFetch(w) /\ UNCHANGED lockTtl /\ NoFault
       \/ ~offline[w] /\ lockTtl = 0 /\ lockTtl' = REFRESH /\ StartFetch(w) /\ NoFault
       \/ ~offline[w] /\ lockTtl > 0 /\ Goto(w, "waiting") /\ UNCHANGED <<lockTtl, took>> /\ NoFault
       \/ ~offline[w] /\ Fault("redis") /\ StartFetch(w) /\ UNCHANGED lockTtl
    /\ UNCHANGED <<cached, cachedTtl, stale>>

\* (mutant) the lock lives as long as the key it protects.
TryLock_LongLease(w) ==
    /\ pc[w] = "missed"
    /\ \/ offline[w] /\ StartFetch(w) /\ UNCHANGED lockTtl /\ NoFault
       \/ ~offline[w] /\ lockTtl = 0 /\ lockTtl' = TTL /\ StartFetch(w) /\ NoFault
       \/ ~offline[w] /\ lockTtl > 0 /\ Goto(w, "waiting") /\ UNCHANGED <<lockTtl, took>> /\ NoFault
    /\ UNCHANGED <<cached, cachedTtl, stale>>

\* RedisLock(...).acquire(): always without a client, never when the command
\* fails, whether Redis has executed it or not.
TryLock(w) ==
    /\ pc[w] = "missed"
    /\ \/ offline[w] /\ StartFetch(w) /\ UNCHANGED lockTtl /\ NoFault
       \/ ~offline[w] /\ lockTtl = 0 /\ lockTtl' = REFRESH /\ StartFetch(w) /\ NoFault
       \/ ~offline[w] /\ lockTtl > 0 /\ Goto(w, "waiting") /\ UNCHANGED <<lockTtl, took>> /\ NoFault
       \/ /\ ~offline[w] /\ Fault("redis")
          /\ lockTtl' \in IF lockTtl = 0 THEN {0, REFRESH} ELSE {lockTtl}
          /\ Goto(w, "waiting") /\ UNCHANGED took
    /\ UNCHANGED <<cached, cachedTtl, stale>>

\* The two seconds are over.  As long as another worker fetches, the loop comes
\* back to where it was, so this is of interest only when something has changed.
CanGoOn == cachedTtl > 0 \/ lockTtl = 0
Recheck(w) ==
    /\ pc[w] = "waiting" /\ CanGoOn
    /\ Goto(w, "reading")
    /\ UNCHANGED <<redisVars, stale, took, faults, happened>>

\* cache.set, unless it fails: RedisCache logs the error.
Share(w, age, life) ==
    \/ offline[w] /\ UNCHANGED <<cached, cachedTtl>> /\ NoFault
    \/ ~offline[w] /\ cached' = age /\ cachedTtl' = life /\ NoFault
    \/ ~offline[w] /\ Fault("redis") /\ UNCHANGED <<cached, cachedTtl>>

Fetched(w) ==
    /\ pc[w] = "fetching"
    /\ Shows(w, took[w]) /\ Share(w, took[w], TTL) /\ Sleep(w)
    /\ UNCHANGED <<lockTtl, took>>

\* A first page that is empty or not 200 makes an empty map, shown and shared.
\* It has no newer prices, and takes the old ones away.
AnsweredEmpty(w) ==
    /\ pc[w] = "fetching"
    /\ Fault("upstream")
    /\ IF offline[w] THEN UNCHANGED <<cached, cachedTtl>> ELSE cached' = 0 /\ cachedTtl' = 0
    /\ Sleep(w)
    /\ UNCHANGED <<lockTtl, took, stale>>

FetchFails(w) ==
    /\ pc[w] = "fetching"
    /\ Fault("upstream")
    /\ Sleep(w)
    /\ UNCHANGED <<redisVars, took, stale>>

\* The process is replaced; its lock stays.
Restart(w) ==
    /\ pc' = [pc EXCEPT ![w] = "reading"]
    /\ due' = [due EXCEPT ![w] = 0]
    /\ Shows(w, 0)
    /\ \/ Fault("restart") /\ offline' = [offline EXCEPT ![w] = FALSE]
       \/ Fault("offline") /\ offline' = [offline EXCEPT ![w] = TRUE]
    /\ UNCHANGED <<redisVars, took>>

Prompt(w) == pc[w] = "asleep" \/ (pc[w] = "waiting" /\ ~CanGoOn)

Older(age) == IF age < MaxAge THEN age + 1 ELSE age
Sooner(ttl) == IF ttl > 0 THEN ttl - 1 ELSE 0

\* (mutant) SET NX without an expiry.
LockExpires_Never == UNCHANGED lockTtl
LockExpires == lockTtl' = Sooner(lockTtl)

\* A waiting worker looks again within any tick.
TimePasses ==
    /\ IF \A w \in Workers : Prompt(w) THEN NoFault ELSE Fault("late")
    /\ LockExpires
    /\ cachedTtl' = Sooner(cachedTtl)
    /\ cached' = IF cachedTtl' = 0 THEN 0 ELSE Older(cached)
    /\ due' = [w \in Workers |-> Sooner(due[w])]
    /\ pc' = [w \in Workers |->
                IF pc[w] = "waiting" \/ (pc[w] = "asleep" /\ due[w] = 1) THEN "reading"
                ELSE pc[w]]
    /\ stale' = [w \in Workers |-> Older(stale[w])]
    /\ took' = [w \in Workers |-> IF pc[w] = "fetching" THEN Older(took[w]) ELSE 0]
    /\ UNCHANGED offline

WorkerStep(w) ==
    \/ ReadCache(w)
    \/ TryLock(w)
    \/ Recheck(w)
    \/ Fetched(w)
    \/ AnsweredEmpty(w)
    \/ FetchFails(w)

MirrorNext == TimePasses \/ \E w \in Workers : WorkerStep(w) \/ Restart(w)

MirrorSpec == MirrorInit /\ [][MirrorNext]_vars

\* A request ends, with its timeout at the latest; time passes.
FairMirrorSpec ==
    /\ MirrorSpec
    /\ \A w \in Workers : WF_vars(WorkerStep(w))
    /\ WF_vars(TimePasses)

-----------------------------------------------------------------------------
(* Properties *)

\* "Only one worker actually pings Polymarket each cycle": the lock that nobody
\* releases keeps a second worker from fetching, whatever fails or dies, as long
\* as a fetch ends within the life of the lock and all workers have a client.
OneFetcher ==
    {"late", "offline"} \cap happened = {} =>
        \A v, w \in Workers : pc[v] = "fetching" /\ pc[w] = "fetching" => v = w

\* A worker that reads the shared key just before it expires is the last one to
\* look for a newer map.
Longest == TTL + REFRESH - 1

\* No worker goes without a new map for longer than that, and every failure,
\* restart or delay costs all of them one more period at most: the next in line
\* gets the lock, or finds the key, in time.
StalenessBounded == \A w \in Workers : stale[w] <= Longest + REFRESH * faults

\* Once failures have ended, so has the delay they caused: no lock, no empty map
\* and no old copy of it stays behind.
StalenessRecovers == <>[](\A w \in Workers : stale[w] <= Longest)

=============================================================================
