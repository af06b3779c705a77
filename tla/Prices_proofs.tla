--------------------------- MODULE Prices_proofs ----------------------------
(***************************************************************************)
(* Theorems about the two ways in which prices reach a worker: the map     *)
(* that PriceMirror refreshes, for any workers, periods and faults, and    *)
(* the token set of ClobSubscriber, for any tokens and any cap.            *)
(***************************************************************************)
EXTENDS PriceMirror, ClobSubscriber, FiniteSetTheorems, TLAPS

-----------------------------------------------------------------------------
(* The mirror: one worker fetches *)

\* Every worker that fetches took the lock in this very tick, so the lock is as
\* fresh as it can be and refuses everybody else.
FetcherHoldsLock ==
    {"late", "offline"} \cap happened = {} =>
        \A w \in Workers : ~offline[w] /\ (pc[w] = "fetching" => lockTtl = REFRESH)

MirrorInv == MirrorTypeOK /\ FetcherHoldsLock /\ OneFetcher

-----------------------------------------------------------------------------

LEMMA MaxAgeIsNat == MaxAge \in Nat
<1>1. REFRESH \in Nat /\ TTL \in Nat /\ MaxFaults + 2 \in Nat
  BY MirrorAssumption DEF MirrorAssumption
<1>2. \A m, n \in Nat : m * n \in Nat
  OBVIOUS
<1>3. REFRESH * (MaxFaults + 2) \in Nat
  BY <1>1, <1>2
<1>4. QED
  BY <1>1, <1>3 DEF MaxAge

\* Faults are counted up to their bound and remembered.
LEMMA FaultType ==
    ASSUME MirrorTypeOK, NEW kind, Fault(kind)
    PROVE  /\ faults' \in 0..MaxFaults /\ happened' \subseteq Faults
           /\ happened \subseteq happened' /\ kind \in happened'
BY MirrorAssumption DEF MirrorAssumption, MirrorTypeOK, Fault

\* A step of the loop of w leaves every other worker where it is.
LEMMA LoopStep ==
    ASSUME MirrorTypeOK, NEW w \in Workers, WorkerStep(w)
    PROVE  /\ happened \subseteq happened'
           /\ offline' = offline
           /\ \A v \in Workers \ {w} : pc'[v] = pc[v]
           /\ \/ lockTtl' = lockTtl /\ (pc'[w] = "fetching" => offline[w])
              \/ lockTtl = 0 /\ lockTtl' = REFRESH
              \/ lockTtl = 0 /\ lockTtl' = 0 /\ (pc'[w] = "fetching" => offline[w])
<1> USE DEF MirrorTypeOK, Goto, Sleep, StartFetch, NoFault, redisVars
<1>1. CASE ReadCache(w)
  BY <1>1, FaultType DEF ReadCache
<1>2. CASE TryLock(w)
  BY <1>2, FaultType DEF TryLock
<1>3. CASE Recheck(w)
  BY <1>3 DEF Recheck
<1>4. CASE Fetched(w)
  BY <1>4, FaultType DEF Fetched, Share
<1>5. CASE AnsweredEmpty(w)
  BY <1>5, FaultType DEF AnsweredEmpty
<1>6. CASE FetchFails(w)
  BY <1>6, FaultType DEF FetchFails
<1>7. QED
  BY <1>1, <1>2, <1>3, <1>4, <1>5, <1>6 DEF WorkerStep

LEMMA TypeStep ==
    ASSUME MirrorTypeOK, MirrorNext
    PROVE  MirrorTypeOK'
<1> USE MirrorAssumption, MaxAgeIsNat DEF MirrorAssumption, MirrorTypeOK
<1>1. CASE TimePasses
  <2>1. faults' \in 0..MaxFaults /\ happened' \subseteq Faults
    BY <1>1, FaultType DEF TimePasses, NoFault
  <2>2. /\ cachedTtl' \in 0..TTL /\ lockTtl' \in 0..REFRESH
        /\ due' \in [Workers -> 0..REFRESH]
    BY <1>1 DEF TimePasses, LockExpires, Sooner
  <2>3. /\ cached' \in 0..MaxAge
        /\ stale' \in [Workers -> 0..MaxAge] /\ took' \in [Workers -> 0..MaxAge]
    <3> HIDE DEF MaxAge
    <3>1. \A age \in 0..MaxAge : Older(age) \in 0..MaxAge
      BY DEF Older
    <3>2. 0 \in 0..MaxAge
      OBVIOUS
    <3>3. QED
      BY <1>1, <3>1, <3>2 DEF TimePasses
  <2>4. /\ pc' \in [Workers -> {"asleep", "reading", "missed", "fetching", "waiting"}]
        /\ offline' \in [Workers -> BOOLEAN]
    BY <1>1 DEF TimePasses
  <2>5. QED
    BY <2>1, <2>2, <2>3, <2>4
<1>2. CASE \E w \in Workers : WorkerStep(w)
  <2>1. PICK w \in Workers : WorkerStep(w)
    BY <1>2
  <2> USE DEF Goto, Sleep, StartFetch, Shows, NoFault, redisVars
  <2>2. CASE ReadCache(w)
    BY <2>2, FaultType DEF ReadCache
  <2>3. CASE TryLock(w)
    BY <2>3, FaultType DEF TryLock
  <2>4. CASE Recheck(w)
    BY <2>4 DEF Recheck
  <2>5. CASE Fetched(w)
    BY <2>5, FaultType DEF Fetched, Share
  <2>6. CASE AnsweredEmpty(w)
    BY <2>6, FaultType DEF AnsweredEmpty
  <2>7. CASE FetchFails(w)
    BY <2>7, FaultType DEF FetchFails
  <2>8. QED
    BY <2>1, <2>2, <2>3, <2>4, <2>5, <2>6, <2>7 DEF WorkerStep
<1>3. CASE \E w \in Workers : Restart(w)
  <2>1. PICK w \in Workers : Restart(w)
    BY <1>3
  <2>2. faults' \in 0..MaxFaults /\ happened' \subseteq Faults
    BY <2>1, FaultType DEF Restart
  <2>3. offline' \in [Workers -> BOOLEAN]
    BY <2>1 DEF Restart
  <2>4. stale' \in [Workers -> 0..MaxAge]
    <3> HIDE DEF MaxAge
    <3>1. 0 \in 0..MaxAge
      OBVIOUS
    <3>2. QED
      BY <2>1, <3>1 DEF Restart, Shows
  <2>5. QED
    BY <2>1, <2>2, <2>3, <2>4 DEF Restart, redisVars
<1>4. QED
  BY <1>1, <1>2, <1>3 DEF MirrorNext

\* Time passes only when nobody fetches, or somebody is late.
LEMMA MirrorInvStep == MirrorInv /\ [MirrorNext]_vars => MirrorInv'
<1> SUFFICES ASSUME MirrorInv, [MirrorNext]_vars
             PROVE  MirrorInv'
  OBVIOUS
<1> USE DEF MirrorInv
<1>1. CASE UNCHANGED vars
  BY <1>1 DEF vars, redisVars, MirrorTypeOK, FetcherHoldsLock, OneFetcher
<1>2. CASE TimePasses
  <2>1. MirrorTypeOK'
    BY <1>2, TypeStep DEF MirrorNext
  <2>2. CASE Fault("late")
    BY <2>1, <2>2 DEF Fault, FetcherHoldsLock, OneFetcher
  <2>3. CASE \A w \in Workers : Prompt(w)
    <3>1. happened' = happened /\ offline' = offline
      BY <1>2, <2>3 DEF TimePasses, NoFault
    <3>2. \A w \in Workers : pc'[w] # "fetching"
      BY <1>2, <2>3 DEF TimePasses, Prompt, MirrorTypeOK
    <3>3. QED
      BY <2>1, <3>1, <3>2 DEF FetcherHoldsLock, OneFetcher
  <2>4. QED
    BY <1>2, <2>2, <2>3 DEF TimePasses
<1>3. ASSUME NEW w \in Workers, WorkerStep(w)
      PROVE  MirrorInv'
  <2>1. MirrorTypeOK'
    BY <1>3, TypeStep DEF MirrorNext
  <2>2. SUFFICES ASSUME {"late", "offline"} \cap happened' = {}
                 PROVE  /\ \A v \in Workers :
                             ~offline'[v] /\ (pc'[v] = "fetching" => lockTtl' = REFRESH)
                        /\ \A u, v \in Workers :
                             pc'[u] = "fetching" /\ pc'[v] = "fetching" => u = v
    BY <2>1 DEF FetcherHoldsLock, OneFetcher
  <2>3. {"late", "offline"} \cap happened = {}
    BY <1>3, <2>2, LoopStep
  <2>4. REFRESH # 0
    BY MirrorAssumption DEF MirrorAssumption
  <2>5. QED
    BY <1>3, <2>3, <2>4, LoopStep DEF FetcherHoldsLock, OneFetcher
<1>4. ASSUME NEW w \in Workers, Restart(w)
      PROVE  MirrorInv'
  <2>1. MirrorTypeOK'
    BY <1>4, TypeStep DEF MirrorNext
  <2>2. CASE Fault("offline")
    BY <2>1, <2>2 DEF Fault, FetcherHoldsLock, OneFetcher
  <2>3. CASE Fault("restart") /\ offline' = [offline EXCEPT ![w] = FALSE]
    <3>1. happened \subseteq happened' /\ lockTtl' = lockTtl
      BY <1>4, <2>3 DEF Fault, Restart, redisVars
    <3>2. \A v \in Workers :
            /\ pc'[v] = "fetching" => pc[v] = "fetching"
            /\ offline'[v] => offline[v]
      BY <1>4, <2>3 DEF Restart, MirrorTypeOK
    <3>3. QED
      BY <2>1, <3>1, <3>2 DEF FetcherHoldsLock, OneFetcher
  <2>4. QED
    BY <1>4, <2>2, <2>3 DEF Restart
<1>5. QED
  BY <1>1, <1>2, <1>3, <1>4 DEF MirrorNext

\* The invariant holds from the boot on.
THEOREM MirrorInvariant == MirrorSpec => []MirrorInv
<1>1. MirrorInit => MirrorInv
  BY MirrorAssumption, MaxAgeIsNat
     DEF MirrorAssumption, MirrorInit, MirrorInv, MirrorTypeOK, FetcherHoldsLock, OneFetcher
<1>2. QED
  BY <1>1, MirrorInvStep, PTL DEF MirrorSpec

\* Types are kept, the lock's life included.
THEOREM MirrorTypeCorrect == MirrorSpec => []MirrorTypeOK
<1>1. MirrorInv => MirrorTypeOK
  BY DEF MirrorInv
<1>2. QED
  BY <1>1, MirrorInvariant, PTL

\* One worker at a time asks upstream, although nobody ever releases the lock and
\* any worker may be replaced while it holds it.
THEOREM OneWorkerFetches == MirrorSpec => []OneFetcher
<1>1. MirrorInv => OneFetcher
  BY DEF MirrorInv
<1>2. QED
  BY <1>1, MirrorInvariant, PTL

-----------------------------------------------------------------------------
(* Staleness.  Every fault gives all workers one period of slack.  Two debts   *)
(* are paid from it: the sleep that follows a failure, and a lock that nobody  *)
(* works under any more.                                                       *)

Slack == REFRESH * faults

Fetching(w) == pc[w] = "fetching" /\ ~offline[w]

\* The lock outlives the map, and nobody is going to share another one.
DeadLock == lockTtl > cachedTtl /\ ~\E w \in Workers : Fetching(w)

\* How long w still sleeps before it looks for a newer map.
Asleep(w) == IF pc[w] = "asleep" THEN due[w] ELSE 0

StalenessInv ==
    /\ \A w \in Workers : pc[w] = "asleep" => due[w] > 0
    /\ \A w \in Workers : took[w] <= Slack
    /\ cachedTtl > 0 => cached + cachedTtl <= TTL + Slack
    /\ \A w \in Workers : stale[w] + Asleep(w) <= Longest + Slack
    /\ DeadLock => \A w \in Workers : stale[w] + lockTtl <= Longest + Slack

\* The code's periods: 60 s and 300 s.
KeyOutlivesPeriod == REFRESH <= TTL

\* A fault adds a period to the slack, and nothing else changes it.
LEMMA SlackGrows ==
    ASSUME MirrorTypeOK
    PROVE  /\ Slack \in Nat
           /\ NoFault => Slack' = Slack
           /\ \A kind : Fault(kind) => Slack' = Slack + REFRESH /\ ~NoFault
<1>1. REFRESH \in Nat /\ faults \in Nat
  BY MirrorAssumption DEF MirrorTypeOK, MirrorAssumption
<1>2. REFRESH * faults \in Nat /\ REFRESH * (faults + 1) = REFRESH * faults + REFRESH
  BY <1>1
<1>3. QED
  BY <1>1, <1>2 DEF Slack, NoFault, Fault

\* Everything that is compared is a number.
LEMMA StalenessNumbers ==
    ASSUME MirrorTypeOK
    PROVE  /\ REFRESH \in Nat \ {0} /\ TTL \in Nat \ {0} /\ Longest = TTL + REFRESH - 1
           /\ cached \in Nat /\ cachedTtl \in Nat /\ lockTtl \in Nat /\ lockTtl <= REFRESH
           /\ \A w \in Workers : due[w] \in Nat /\ due[w] <= REFRESH
           /\ \A w \in Workers : stale[w] \in Nat /\ took[w] \in Nat
<1>1. REFRESH \in Nat \ {0} /\ TTL \in Nat \ {0}
  BY MirrorAssumption DEF MirrorAssumption
<1>2. \A n \in 0..MaxAge : n \in Nat
  BY MaxAgeIsNat
<1>3. QED
  BY <1>1, <1>2 DEF MirrorTypeOK, Longest

\* A tick takes as much from the sleep, or from the dead lock, as it adds to the
\* age of a map.
LEMMA TickKeepsStaleness ==
    ASSUME KeyOutlivesPeriod, MirrorTypeOK, MirrorTypeOK', StalenessInv, TimePasses
    PROVE  StalenessInv'
<1> USE StalenessNumbers
<1> HIDE DEF Slack, Longest
<1>1. /\ Slack \in Nat /\ Slack' \in Nat
      /\ \/ Slack' = Slack /\ \A w \in Workers : Prompt(w)
         \/ Slack' = Slack + REFRESH
  BY SlackGrows DEF TimePasses, Slack, MirrorTypeOK
<1>2. \A n \in Nat : Older(n) \in Nat /\ n <= Older(n) /\ Older(n) <= n + 1
  BY MaxAgeIsNat DEF Older
<1>3. /\ lockTtl' = Sooner(lockTtl) /\ cachedTtl' = Sooner(cachedTtl)
      /\ cachedTtl' > 0 => cached' <= cached + 1
      /\ offline' = offline
  BY <1>2 DEF TimePasses, LockExpires
<1>4. \A w \in Workers : stale'[w] <= stale[w] + 1 /\ stale'[w] \in Nat
  BY <1>2 DEF TimePasses
<1>5. \A w \in Workers :
        /\ due'[w] = Sooner(due[w])
        /\ pc'[w] = IF pc[w] = "waiting" \/ (pc[w] = "asleep" /\ due[w] = 1) THEN "reading"
                    ELSE pc[w]
  BY DEF TimePasses
<1>6. \A w \in Workers : pc'[w] = "asleep" => due'[w] > 0
  BY <1>5 DEF StalenessInv, Sooner
<1>7. \A w \in Workers : took'[w] <= Slack'
  <2>1. \A w \in Workers : took'[w] = IF pc[w] = "fetching" THEN Older(took[w]) ELSE 0
    BY DEF TimePasses
  <2>2. QED
    BY <1>1, <1>2, <2>1 DEF StalenessInv, Prompt
<1>8. cachedTtl' > 0 => cached' + cachedTtl' <= TTL + Slack'
  <2>1. cached' \in Nat
    BY MaxAgeIsNat DEF MirrorTypeOK
  <2>2. QED
    BY <1>1, <1>3, <2>1 DEF StalenessInv, Sooner
<1>9. \A w \in Workers : stale'[w] + Asleep(w)' <= Longest + Slack'
  <2> SUFFICES ASSUME NEW w \in Workers
               PROVE  stale'[w] + Asleep(w)' <= Longest + Slack'
    OBVIOUS
  <2>1. stale[w] + Asleep(w) <= Longest + Slack
    BY DEF StalenessInv
  <2>2. CASE pc[w] = "asleep"
    BY <1>1, <1>4, <1>5, <2>1, <2>2 DEF Asleep, Sooner, StalenessInv
  <2>3. CASE pc[w] # "asleep" /\ Slack' = Slack + REFRESH
    BY <1>1, <1>4, <1>5, <2>1, <2>3 DEF Asleep
  <2>4. CASE pc[w] # "asleep" /\ Slack' = Slack /\ \A v \in Workers : Prompt(v)
    <3>1. cachedTtl = 0 /\ lockTtl > 0
      BY <2>4 DEF Prompt, CanGoOn
    <3>2. DeadLock
      BY <2>4, <3>1 DEF DeadLock, Fetching, Prompt
    <3>3. stale[w] + lockTtl <= Longest + Slack
      BY <3>2 DEF StalenessInv
    <3>4. Asleep(w)' = 0
      BY <1>5, <2>4 DEF Asleep
    <3>5. QED
      BY <1>1, <1>4, <2>4, <3>1, <3>3, <3>4
  <2>5. QED
    BY <1>1, <2>2, <2>3, <2>4
<1>10. DeadLock' => \A w \in Workers : stale'[w] + lockTtl' <= Longest + Slack'
  <2> SUFFICES ASSUME DeadLock', NEW w \in Workers
               PROVE  stale'[w] + lockTtl' <= Longest + Slack'
    OBVIOUS
  <2>1. lockTtl > cachedTtl /\ lockTtl > 0 /\ lockTtl' = lockTtl - 1
    BY <1>3 DEF DeadLock, Sooner
  <2>2. CASE Slack' = Slack + REFRESH
    BY <1>1, <1>4, <2>1, <2>2 DEF StalenessInv, Asleep
  <2>3. CASE Slack' = Slack /\ \A v \in Workers : Prompt(v)
    <3>1. DeadLock
      BY <2>1, <2>3 DEF DeadLock, Fetching, Prompt
    <3>2. QED
      BY <1>1, <1>4, <2>1, <2>3, <3>1 DEF StalenessInv
  <2>4. QED
    BY <1>1, <2>2, <2>3
<1>11. QED
  BY <1>6, <1>7, <1>8, <1>9, <1>10 DEF StalenessInv

\* No map is older than its slack, asleep or not.
LEMMA StaleIsPaid ==
    ASSUME MirrorTypeOK, StalenessInv
    PROVE  \A v \in Workers : /\ Asleep(v) \in Nat
                              /\ stale[v] <= Longest + Slack
<1> HIDE DEF Slack, Longest
<1> TAKE v \in Workers
<1>1. Slack \in Nat /\ Longest \in Int
  BY SlackGrows, StalenessNumbers
<1>2. Asleep(v) \in Nat /\ stale[v] \in Nat
  BY StalenessNumbers DEF Asleep
<1>3. stale[v] + Asleep(v) <= Longest + Slack
  BY DEF StalenessInv
<1>4. QED
  BY <1>1, <1>2, <1>3

\* A fault pays for the sleep and for the lock it leaves behind, with any worker.
LEMMA FaultIsPaid ==
    ASSUME MirrorTypeOK, MirrorTypeOK', StalenessInv, Slack' = Slack + REFRESH,
           \A v \in Workers : /\ pc'[v] = "asleep" => due'[v] > 0
                              /\ took'[v] <= took[v]
                              /\ stale'[v] <= Longest + Slack,
           cachedTtl' > 0 => cached' + cachedTtl' <= TTL + Slack'
    PROVE  StalenessInv'
<1> HIDE DEF Slack, Longest
<1>1. Slack \in Nat /\ Longest \in Int /\ REFRESH \in Nat
  BY SlackGrows, StalenessNumbers
<1>2. \A v \in Workers : took'[v] <= Slack'
  <2> TAKE v \in Workers
  <2>1. took[v] <= Slack /\ took[v] \in Nat /\ took'[v] \in Nat
    BY StalenessNumbers, MaxAgeIsNat DEF StalenessInv, MirrorTypeOK
  <2>2. QED
    BY <1>1, <2>1
<1>3. \A v \in Workers : /\ stale'[v] + Asleep(v)' <= Longest + Slack'
                         /\ stale'[v] + lockTtl' <= Longest + Slack'
  <2> TAKE v \in Workers
  <2>1. stale'[v] <= Longest + Slack
    OBVIOUS
  <2>2. /\ stale'[v] \in Nat /\ due'[v] \in Nat /\ due'[v] <= REFRESH
        /\ lockTtl' \in Nat /\ lockTtl' <= REFRESH
    BY <1>1, MaxAgeIsNat DEF MirrorTypeOK
  <2>3. Asleep(v)' \in Nat /\ Asleep(v)' <= REFRESH
    BY <1>1, <2>2 DEF Asleep
  <2>4. QED
    BY <1>1, <2>1, <2>2, <2>3
<1>4. QED
  BY <1>2, <1>3 DEF StalenessInv

\* A step of w without a fault is about w alone; no lock dies by it.
LEMMA LoopIsPaid ==
    ASSUME MirrorTypeOK, StalenessInv, NEW w \in Workers, Slack' = Slack,
           \A v \in Workers \ {w} : pc'[v] = pc[v] /\ due'[v] = due[v] /\ stale'[v] = stale[v],
           \A v \in Workers : took'[v] = took[v] \/ took'[v] = 0,
           pc'[w] = "asleep" => due'[w] > 0,
           cachedTtl' > 0 => cached' + cachedTtl' <= TTL + Slack,
           stale'[w] + Asleep(w)' <= Longest + Slack,
           DeadLock' => /\ DeadLock /\ lockTtl' = lockTtl
                        /\ stale'[w] + lockTtl <= Longest + Slack
    PROVE  StalenessInv'
<1> HIDE DEF Slack, Longest
<1>1. \A v \in Workers : took'[v] <= Slack'
  BY SlackGrows DEF StalenessInv
<1>2. \A v \in Workers : stale'[v] + Asleep(v)' <= Longest + Slack'
  BY DEF StalenessInv, Asleep
<1>3. DeadLock' => \A v \in Workers : stale'[v] + lockTtl' <= Longest + Slack'
  BY DEF StalenessInv
<1>4. QED
  BY <1>1, <1>2, <1>3 DEF StalenessInv

\* One step of one worker, faulty or not.
LEMMA StepKeepsStaleness ==
    ASSUME KeyOutlivesPeriod, MirrorTypeOK, MirrorTypeOK', StalenessInv,
           NEW w \in Workers, WorkerStep(w) \/ Restart(w)
    PROVE  StalenessInv'
<1> HIDE DEF Slack, Longest
<1>1. /\ Slack \in Nat
      /\ NoFault => Slack' = Slack
      /\ \A kind : Fault(kind) => Slack' = Slack + REFRESH /\ ~NoFault
      /\ REFRESH \in Nat \ {0} /\ TTL \in Nat \ {0} /\ Longest = TTL + REFRESH - 1
  BY SlackGrows, StalenessNumbers
<1>2. /\ cached \in Nat /\ cachedTtl \in Nat /\ lockTtl \in Nat /\ lockTtl <= REFRESH
      /\ took[w] \in Nat /\ took[w] <= Slack /\ stale[w] \in Nat
  BY StalenessNumbers DEF StalenessInv
<1>3. \A v \in Workers : stale[v] <= Longest + Slack
  BY StaleIsPaid
<1>4. cachedTtl > 0 => cached + cachedTtl <= TTL + Slack
  BY DEF StalenessInv
<1>5. \A v \in Workers : pc[v] = "asleep" => due[v] > 0
  BY DEF StalenessInv
<1>6. \A v \in Workers : took[v] \in Nat /\ stale[v] \in Nat
  BY StalenessNumbers
<1>7. /\ pc \in [Workers -> {"asleep", "reading", "missed", "fetching", "waiting"}]
      /\ due = [v \in Workers |-> due[v]] /\ stale = [v \in Workers |-> stale[v]]
      /\ took = [v \in Workers |-> took[v]] /\ offline = [v \in Workers |-> offline[v]]
  BY DEF MirrorTypeOK
<1>8. DeadLock => stale[w] + lockTtl <= Longest + Slack
  BY DEF StalenessInv
<1> DEFINE OnlyW == /\ \A v \in Workers \ {w} : /\ pc'[v] = pc[v] /\ due'[v] = due[v]
                                                /\ stale'[v] = stale[v]
                    /\ offline' = offline
           SameRedis == cached' = cached /\ cachedTtl' = cachedTtl /\ lockTtl' = lockTtl
<1>9. CASE ReadCache(w) /\ NoFault
  <2>1. SameRedis /\ took' = took /\ pc[w] = "reading" /\ Slack' = Slack
    BY <1>1, <1>9 DEF ReadCache, redisVars
  <2>2. CASE cachedTtl > 0 /\ Shows(w, cached) /\ Sleep(w)
    <3>1. OnlyW /\ pc'[w] = "asleep" /\ due'[w] = REFRESH /\ stale'[w] = cached
      BY <1>7, <2>2 DEF Shows, Sleep
    <3>2. Asleep(w)' = REFRESH
      BY <3>1 DEF Asleep
    <3>3. DeadLock' => DeadLock
      BY <2>1, <3>1 DEF DeadLock, Fetching
    <3>4. /\ stale'[w] + REFRESH <= Longest + Slack /\ stale'[w] + lockTtl <= Longest + Slack
          /\ due'[w] > 0
      BY <1>1, <1>2, <1>4, <2>2, <3>1
    <3>5. QED
      BY <1>4, <2>1, <3>1, <3>2, <3>3, <3>4, LoopIsPaid
  <2>3. CASE Goto(w, "missed") /\ UNCHANGED stale
    <3>1. OnlyW /\ pc'[w] = "missed" /\ stale' = stale
      BY <1>7, <2>3 DEF Goto
    <3>2. Asleep(w)' = 0
      BY <3>1 DEF Asleep
    <3>3. DeadLock' => DeadLock
      BY <2>1, <3>1 DEF DeadLock, Fetching
    <3>4. stale'[w] + Asleep(w)' <= Longest + Slack
      BY <1>2, <1>3, <3>1, <3>2
    <3>5. QED
      BY <1>4, <1>8, <2>1, <3>1, <3>3, <3>4, LoopIsPaid
  <2>4. QED
    BY <1>9, <2>2, <2>3 DEF ReadCache
<1>10. CASE TryLock(w) /\ NoFault
  <2>1. /\ cached' = cached /\ cachedTtl' = cachedTtl /\ stale' = stale /\ Slack' = Slack
        /\ pc[w] = "missed"
    BY <1>1, <1>10 DEF TryLock
  <2>2. /\ OnlyW /\ pc'[w] \in {"fetching", "waiting"}
        /\ \A v \in Workers : took'[v] = took[v] \/ took'[v] = 0
    BY <1>7, <1>10, <2>1 DEF TryLock, StartFetch, Goto
  <2>3. Asleep(w)' = 0
    BY <2>2 DEF Asleep
  <2>4. \/ lockTtl' = lockTtl
        \/ pc'[w] = "fetching" /\ ~offline'[w]
    BY <1>1, <1>7, <1>10, <2>2 DEF TryLock, StartFetch, Goto
  <2>5. DeadLock' => DeadLock /\ lockTtl' = lockTtl
    BY <2>1, <2>2, <2>4 DEF DeadLock, Fetching
  <2>6. stale'[w] + Asleep(w)' <= Longest + Slack
    BY <1>2, <1>3, <2>1, <2>3
  <2>7. QED
    BY <1>4, <1>8, <2>1, <2>2, <2>5, <2>6, LoopIsPaid
<1>11. CASE Recheck(w)
  <2>1. /\ SameRedis /\ took' = took /\ stale' = stale /\ pc[w] = "waiting" /\ NoFault
    BY <1>11 DEF Recheck, redisVars, NoFault
  <2>2. OnlyW /\ pc'[w] = "reading"
    BY <1>7, <1>11, <2>1 DEF Recheck, Goto
  <2>3. Asleep(w)' = 0
    BY <2>2 DEF Asleep
  <2>4. DeadLock' => DeadLock
    BY <2>1, <2>2 DEF DeadLock, Fetching
  <2>5. stale'[w] + Asleep(w)' <= Longest + Slack
    BY <1>2, <1>3, <2>1, <2>3
  <2>6. QED
    BY <1>1, <1>4, <1>8, <2>1, <2>2, <2>4, <2>5, LoopIsPaid
<1>12. CASE Fetched(w) /\ NoFault
  <2>1. /\ lockTtl' = lockTtl /\ took' = took /\ pc[w] = "fetching" /\ Slack' = Slack
    BY <1>1, <1>12 DEF Fetched
  <2>2. /\ OnlyW /\ pc'[w] = "asleep" /\ due'[w] = REFRESH /\ stale'[w] = took[w]
    BY <1>7, <1>12 DEF Fetched, Sleep, Shows
  <2>3. \/ offline[w] /\ cached' = cached /\ cachedTtl' = cachedTtl
        \/ cached' = took[w] /\ cachedTtl' = TTL
        \/ Fault("redis")
    BY <1>12 DEF Fetched, Share
  <2>4. ~Fault("redis")
    BY <1>1, <1>12
  <2>5. Asleep(w)' = REFRESH
    BY <2>2 DEF Asleep
  <2>6. DeadLock' => DeadLock
    <3>1. CASE cachedTtl' = TTL
      BY <1>1, <1>2, <2>1, <3>1 DEF DeadLock, KeyOutlivesPeriod
    <3>2. CASE offline[w] /\ cachedTtl' = cachedTtl
      BY <2>1, <2>2, <3>2 DEF DeadLock, Fetching
    <3>3. QED
      BY <2>3, <2>4, <3>1, <3>2
  <2>7. /\ stale'[w] + REFRESH <= Longest + Slack /\ stale'[w] + lockTtl <= Longest + Slack
        /\ due'[w] > 0
    BY <1>1, <1>2, <2>2
  <2>8. cachedTtl' > 0 => cached' + cachedTtl' <= TTL + Slack
    BY <1>1, <1>2, <1>4, <2>3, <2>4
  <2>9. QED
    BY <2>1, <2>2, <2>5, <2>6, <2>7, <2>8, LoopIsPaid
<1>13. CASE Restart(w)
  <2>1. /\ SameRedis /\ took' = took /\ Slack' = Slack + REFRESH
    BY <1>1, <1>13 DEF Restart, redisVars
  <2>2. \A v \in Workers : stale'[v] = stale[v] \/ stale'[v] = 0
    BY <1>7, <1>13 DEF Restart, Shows
  <2>3. \A v \in Workers : /\ pc'[v] = "asleep" => due'[v] > 0
                           /\ took'[v] <= took[v] /\ stale'[v] <= Longest + Slack
    BY <1>1, <1>3, <1>5, <1>6, <1>7, <1>13, <2>1, <2>2 DEF Restart
  <2>4. QED
    BY <1>1, <1>2, <1>4, <2>1, <2>3, FaultIsPaid
<1>14. CASE WorkerStep(w) /\ \E kind : Fault(kind)
  <2>1. Slack' = Slack + REFRESH
    BY <1>1, <1>14
  <2>2. \A v \in Workers : /\ pc'[v] = "asleep" => due'[v] > 0
                           /\ took'[v] <= took[v] /\ stale'[v] <= Longest + Slack
    <3>1. CASE ReadCache(w) \/ TryLock(w)
      <4>1. due' = due /\ stale' = stale /\ (took' = took \/ took' = [took EXCEPT ![w] = 0])
        BY <1>1, <1>14, <3>1 DEF ReadCache, TryLock, Goto, StartFetch
      <4>2. \A v \in Workers : pc'[v] = "asleep" => pc[v] = "asleep"
        BY <1>1, <1>7, <1>14, <3>1 DEF ReadCache, TryLock, Goto, StartFetch
      <4>3. QED
        BY <1>3, <1>5, <1>6, <1>7, <4>1, <4>2
    <3>2. CASE Fetched(w) \/ AnsweredEmpty(w) \/ FetchFails(w)
      <4>1. /\ Sleep(w) /\ took' = took
            /\ stale' = stale \/ stale' = [stale EXCEPT ![w] = took[w]]
        BY <3>2 DEF Fetched, AnsweredEmpty, FetchFails, Shows
      <4>2. /\ due'[w] = REFRESH
            /\ \A v \in Workers \ {w} : pc'[v] = pc[v] /\ due'[v] = due[v]
            /\ \A v \in Workers : stale'[v] = stale[v] \/ stale'[v] = took[w]
        BY <1>7, <4>1 DEF Sleep
      <4>3. took[w] <= Longest + Slack
        BY <1>1, <1>2
      <4>4. \A v \in Workers : pc'[v] = "asleep" => due'[v] > 0
        BY <1>1, <1>5, <4>2
      <4>5. \A v \in Workers : stale'[v] <= Longest + Slack
        BY <1>3, <4>2, <4>3
      <4>6. QED
        BY <1>6, <4>1, <4>4, <4>5
    <3>3. CASE Recheck(w)
      BY <1>1, <1>14, <3>3 DEF Recheck, NoFault
    <3>4. QED
      BY <1>14, <3>1, <3>2, <3>3 DEF WorkerStep
  <2>3. cachedTtl' > 0 => cached' + cachedTtl' <= TTL + Slack'
    BY <1>1, <1>2, <1>4, <1>14, <2>1
       DEF WorkerStep, ReadCache, TryLock, Recheck, Fetched, Share, AnsweredEmpty, FetchFails, redisVars
  <2>4. QED
    BY <2>1, <2>2, <2>3, FaultIsPaid
<1>15. WorkerStep(w) => NoFault \/ \E kind : Fault(kind)
  BY DEF WorkerStep, ReadCache, TryLock, Recheck, Fetched, Share, AnsweredEmpty, FetchFails, NoFault
<1>16. QED
  BY <1>1, <1>9, <1>10, <1>11, <1>12, <1>13, <1>14, <1>15 DEF WorkerStep, AnsweredEmpty, FetchFails

\* Every step keeps it.
LEMMA StalenessInvStep ==
    KeyOutlivesPeriod /\ MirrorTypeOK /\ MirrorTypeOK' /\ StalenessInv /\ [MirrorNext]_vars
        => StalenessInv'
<1> SUFFICES ASSUME KeyOutlivesPeriod, MirrorTypeOK, MirrorTypeOK', StalenessInv,
                    [MirrorNext]_vars
             PROVE  StalenessInv'
  OBVIOUS
<1>1. CASE UNCHANGED vars
  BY <1>1 DEF vars, redisVars, StalenessInv, Slack, DeadLock, Fetching, Asleep
<1>2. CASE TimePasses
  BY <1>2, TickKeepsStaleness
<1>3. CASE \E w \in Workers : WorkerStep(w) \/ Restart(w)
  BY <1>3, StepKeepsStaleness
<1>4. QED
  BY <1>1, <1>2, <1>3 DEF MirrorNext

\* The prices any worker shows are no older than the life of the key and a period,
\* and a period more for each failure, as long as the key outlives a period.
THEOREM StalenessStaysBounded ==
    KeyOutlivesPeriod /\ MirrorSpec => []StalenessBounded
<1>1. MirrorInit => StalenessInv
  <2> SUFFICES ASSUME MirrorInit PROVE StalenessInv
    OBVIOUS
  <2>1. REFRESH \in Nat \ {0} /\ TTL \in Nat \ {0} /\ REFRESH * 0 = 0
    BY MirrorAssumption DEF MirrorAssumption
  <2>2. Slack = 0
    BY <2>1 DEF MirrorInit, Slack
  <2>3. QED
    BY <2>1, <2>2 DEF MirrorInit, StalenessInv, DeadLock, Asleep, Longest
<1>2. MirrorTypeOK /\ StalenessInv => StalenessBounded
  <2> SUFFICES ASSUME MirrorTypeOK, StalenessInv, NEW w \in Workers
               PROVE  stale[w] <= Longest + Slack
    BY DEF StalenessBounded, Slack
  <2>1. Asleep(w) \in Nat /\ stale[w] \in Nat /\ Longest \in Int /\ Slack \in Nat
    BY StalenessNumbers, SlackGrows DEF Asleep
  <2>2. stale[w] + Asleep(w) <= Longest + Slack
    BY DEF StalenessInv
  <2>3. QED
    BY <2>1, <2>2
<1>3. KeyOutlivesPeriod => []KeyOutlivesPeriod
  OBVIOUS
<1>4. QED
  BY <1>1, <1>2, <1>3, StalenessInvStep, MirrorTypeCorrect, PTL DEF MirrorSpec

-----------------------------------------------------------------------------
(* The subscriber: the set of tokens *)

USE DEF Small

\* A part of a set within the cap is within the cap.
LEMMA PartIsSmall ==
    ASSUME NEW T \in SUBSET Tokens, NEW U \in SUBSET T, Small(T)
    PROVE  Small(U)
<1>1. IsFiniteSet(T)
    BY ClobAssumption, FS_Subset
<1>2. Cardinality(U) <= Cardinality(T) /\ Cardinality(U) \in Nat /\ Cardinality(T) \in Nat
    BY <1>1, FS_Subset, FS_CardinalityType
<1> QED
    BY <1>2, ClobAssumption

\* The cap of replace_tokens does what it says.
LEMMA CappedIsSmall ==
    ASSUME NEW got \in SUBSET Tokens, NEW W \in Capped(got)
    PROVE  W \in SUBSET Tokens /\ Small(W)
<1>1. CASE Small(got)
    BY <1>1 DEF Capped
<1>2. CASE ~Small(got)
    BY <1>2, ClobAssumption DEF Capped
<1> QED
    BY <1>1, <1>2

\* Trimming to admit new tokens only takes tokens away.
LEMMA TrimmedIsPart ==
    ASSUME NEW new, NEW keep \in Trimmed(new)
    PROVE  keep \subseteq subscribed
BY DEF Trimmed

\* The two facts lean on each other: what a connection or a wake-up applies is
\* within the cap because it is wanted.
ClobInv == ClobTypeOK /\ OnlyWanted

\* A set that is applied is wanted, and so within the cap.
LEMMA AppliedIsSmall ==
    ASSUME ClobInv
    PROVE  LET applied == (subscribed \cup adding) \ removing
           IN  applied \in SUBSET Tokens /\ applied \subseteq wanted /\ Small(applied)
<1> DEFINE applied == (subscribed \cup adding) \ removing
<1>1. applied \in SUBSET Tokens /\ applied \in SUBSET wanted
    BY DEF ClobInv, ClobTypeOK, OnlyWanted
<1>2. wanted \in SUBSET Tokens /\ Small(wanted)
    BY DEF ClobInv, ClobTypeOK
<1>3. Small(applied)
    BY <1>1, <1>2, PartIsSmall
<1> QED
    BY <1>1, <1>3

LEMMA ClobInitInv == ClobInit => ClobInv
<1> SUFFICES ASSUME ClobInit PROVE ClobInv
    OBVIOUS
<1>1. Cardinality({}) = 0
    BY FS_EmptySet
<1>2. Small({})
    BY <1>1, ClobAssumption
<1>3. wanted \in SUBSET Tokens /\ Small(wanted) /\ wake \in BOOLEAN
    BY DEF ClobInit
<1>4. ClobTypeOK
    BY <1>2, <1>3 DEF ClobInit, ClobTypeOK, ConnStates, Ages
<1>5. OnlyWanted
    BY <1>2 DEF ClobInit, OnlyWanted
<1> QED
    BY <1>4, <1>5 DEF ClobInv

\* A rotation: whatever was pending, the tokens that stay are wanted.
LEMMA RotateInv ==
    ASSUME ClobInv, NEW got \in SUBSET Tokens, Rotate(got)
    PROVE  ClobInv'
<1>1. PICK W \in Capped(got) : replace_tokens(W) /\ wanted' = W
    BY DEF Rotate
<1>2. W \in SUBSET Tokens /\ Small(W)
    BY CappedIsSmall
<1> DEFINE add == W \ Current
           remove == Current \ W
<1>3. /\ subscribed' \in Trimmed(add)
      /\ adding' = adding \cup add
      /\ removing' = removing \cup remove
      /\ wake' = (wake \/ add # {} \/ remove # {})
      /\ Forget(remove)
    BY <1>1 DEF replace_tokens
<1>4. subscribed' \in SUBSET subscribed
    BY <1>3, TrimmedIsPart
<1>5. subscribed \in SUBSET Tokens /\ Small(subscribed)
    BY DEF ClobInv, ClobTypeOK
<1>6. subscribed' \in SUBSET Tokens /\ Small(subscribed')
  <2>1. Small(subscribed')
    BY <1>4, <1>5, PartIsSmall
  <2> QED
    BY <2>1, <1>4, <1>5
<1>7. leader' \in [Priced -> Ages]
    BY <1>3 DEF Forget, ClobInv, ClobTypeOK, Ages
<1>8. adding' \in SUBSET Tokens /\ removing' \in SUBSET Tokens /\ wake' \in BOOLEAN
    BY <1>2, <1>3 DEF Current, ClobInv, ClobTypeOK
<1>9. ClobTypeOK'
    BY <1>1, <1>2, <1>6, <1>7, <1>8 DEF Rotate, wire, ClobInv, ClobTypeOK
<1>10. OnlyWanted'
    BY <1>1, <1>3, <1>4, <1>9 DEF OnlyWanted, Current, ClobTypeOK
<1> QED
    BY <1>9, <1>10 DEF ClobInv

LEMMA ClobStepInv == ClobInv /\ [ClobNext]_clobVars => ClobInv'
<1> SUFFICES ASSUME ClobInv, [ClobNext]_clobVars PROVE ClobInv'
    OBVIOUS
<1> USE DEF ClobInv, subs, wire
<1>0. Cardinality({}) = 0 /\ Small({})
    BY FS_EmptySet, ClobAssumption
<1>1. ASSUME NEW got \in SUBSET Tokens, Rotate(got) PROVE ClobInv'
    BY <1>1, RotateInv
<1>2. CASE start
    BY <1>2 DEF start, ClobTypeOK, OnlyWanted, ConnStates
<1>3. CASE stop
    BY <1>0, <1>3 DEF stop, Hangup, ClobTypeOK, OnlyWanted, ConnStates
<1>4. CASE Connect
    BY <1>4, AppliedIsSmall DEF Connect, Drain, ClobTypeOK, OnlyWanted, ConnStates
<1>5. CASE Mutate
  <2>1. leader' \in [Priced -> Ages]
    BY <1>5 DEF Mutate, Forget, ClobTypeOK, Ages
  <2> QED
    BY <1>5, <2>1, AppliedIsSmall DEF Mutate, Drain, ClobTypeOK, OnlyWanted
<1>6. CASE Sent
  <2>1. server' \in SUBSET Tokens /\ Small(server')
    BY <1>6 DEF Sent, ClobTypeOK
  <2> QED
    BY <1>6, <2>1 DEF Sent, ClobTypeOK, OnlyWanted, ConnStates
<1>7. CASE Disconnect
    BY <1>0, <1>7 DEF Disconnect, Hangup, ClobTypeOK, OnlyWanted, ConnStates
<1>8. CASE LateEnds
    BY <1>8 DEF LateEnds, ClobTypeOK, OnlyWanted
<1>9. ASSUME NEW ts \in SUBSET Priced, NEW published \in SUBSET ts,
             ingest_message(ts, published)
      PROVE  ClobInv'
    BY <1>9 DEF ingest_message, ClobTypeOK, OnlyWanted, Ages
<1>10. ASSUME NEW t \in Priced, Grows(t) PROVE ClobInv'
    BY <1>10 DEF Grows, ClobTypeOK, OnlyWanted, Ages
<1>11. CASE UNCHANGED clobVars
    BY <1>11 DEF clobVars, ClobTypeOK, OnlyWanted
<1> QED
    BY <1>1, <1>2, <1>3, <1>4, <1>5, <1>6, <1>7, <1>8, <1>9, <1>10, <1>11 DEF ClobNext

\* Typing and the cap: neither the set kept nor any set sent to the server
\* exceeds max_subscriptions, for any tokens, cap and calls of replace_tokens.
THEOREM SubscriptionsAreCapped == ClobSpec => []ClobTypeOK
<1>1. ClobInit => ClobInv
    BY ClobInitInv
<1>2. ClobInv /\ [ClobNext]_clobVars => ClobInv'
    BY ClobStepInv
<1>3. ClobInv => ClobTypeOK
    BY DEF ClobInv
<1> QED
    BY <1>1, <1>2, <1>3, PTL DEF ClobSpec

\* Whatever replace_tokens was given while changes were pending, what is going to
\* be applied was asked for by the last call.
THEOREM OnlyWantedIsApplied == ClobSpec => []OnlyWanted
<1>1. ClobInit => ClobInv
    BY ClobInitInv
<1>2. ClobInv /\ [ClobNext]_clobVars => ClobInv'
    BY ClobStepInv
<1>3. ClobInv => OnlyWanted
    BY DEF ClobInv
<1> QED
    BY <1>1, <1>2, <1>3, PTL DEF ClobSpec

-----------------------------------------------------------------------------
(* The subscriber: no wake-up is lost.  The event is set with every pending     *)
(* change and cleared before the change is applied; so as long as it is clear,  *)
(* what is on its way is the set kept, and so is what arrived last.             *)

StepInv ==
    /\ ~wake => adding = {} /\ removing = {}
    /\ conn \in {"off", "idle"} => server = {} /\ sending = Off
    /\ sending # Off /\ ~wake => sending = subscribed
    /\ conn = "open" /\ sending = Off /\ ~wake => server = subscribed

\* A rotation that leaves the event clear has changed nothing.
LEMMA RotateInStep ==
    ASSUME ClobTypeOK, StepInv, NEW got \in SUBSET Tokens, Rotate(got)
    PROVE  StepInv'
<1>1. PICK W : replace_tokens(W)
    BY DEF Rotate
<1> DEFINE add == W \ Current
           remove == Current \ W
<1>2. /\ subscribed' \in Trimmed(add)
      /\ adding' = adding \cup add
      /\ removing' = removing \cup remove
      /\ wake' = (wake \/ add # {} \/ remove # {})
    BY <1>1 DEF replace_tokens
<1>3. UNCHANGED <<conn, sending, server>>
    BY DEF Rotate, wire
<1>4. ~wake' => ~wake /\ add = {} /\ remove = {}
    BY <1>2 DEF ClobTypeOK
<1>5. ~wake' => UNCHANGED <<subscribed, adding, removing>>
    BY <1>2, <1>4 DEF Trimmed
<1> QED
    BY <1>3, <1>4, <1>5 DEF StepInv

LEMMA StepInvStep == ClobTypeOK /\ StepInv /\ [ClobNext]_clobVars => StepInv'
<1> SUFFICES ASSUME ClobTypeOK, StepInv, [ClobNext]_clobVars PROVE StepInv'
    OBVIOUS
<1> USE DEF StepInv, subs, wire
<1>1. ASSUME NEW got \in SUBSET Tokens, Rotate(got) PROVE StepInv'
    BY <1>1, RotateInStep
<1>2. CASE start
    BY <1>2 DEF start
<1>3. CASE stop
    BY <1>3 DEF stop, Hangup
<1>4. CASE Connect
  <2>1. ~wake => subscribed' = subscribed
    BY <1>4 DEF Connect, Drain
  <2> QED
    BY <1>4, <2>1 DEF Connect, Drain
<1>5. CASE Mutate
  <2>1. sending' # Off
    BY <1>5, ClobAssumption DEF Mutate, Drain, ClobTypeOK
  <2> QED
    BY <1>5, <2>1 DEF Mutate, Drain
<1>6. CASE Sent
    BY <1>6 DEF Sent
<1>7. CASE Disconnect
    BY <1>7 DEF Disconnect, Hangup
<1>8. CASE LateEnds \/ (\E ts \in SUBSET Priced : \E published \in SUBSET ts :
                          ingest_message(ts, published))
           \/ (\E t \in Priced : Grows(t)) \/ UNCHANGED clobVars
    BY <1>8 DEF LateEnds, ingest_message, Grows, clobVars
<1> QED
    BY <1>1, <1>2, <1>3, <1>4, <1>5, <1>6, <1>7, <1>8 DEF ClobNext

\* For any tokens, cap and sequence of rotations, sends, failures and connections: the
\* mutation loop never sleeps on a change, and the server pushes the set kept meanwhile.
THEOREM NoWakeUpIsLost == ClobSpec => []InStep
<1>1. ClobInit => StepInv
    BY DEF ClobInit, StepInv
<1>2. StepInv => InStep
    BY DEF StepInv, InStep
<1> QED
    BY <1>1, <1>2, StepInvStep, SubscriptionsAreCapped, PTL DEF ClobSpec

=============================================================================
