----------------------- MODULE CryptoWsLeader_proofs -----------------------
(***************************************************************************)
(* For any workers, any instances and any TTL longer than the time between *)
(* two renewals: while nothing goes wrong but workers that die, the key is *)
(* the streaming worker's own, so that one worker streams at a time and    *)
(* nobody deletes another's key.  CryptoInv is inductive: at every moment  *)
(* the key has more time left than the renew task sleeps.                  *)
(***************************************************************************)
EXTENDS CryptoWsLeader, RedisLock_proofs

\* The code renews at ttl // 2, which is less than ttl.
RenewsInTime == RENEW_EVERY < TTL

InOffice(w) == pc[w] \in {"elected", "leader", "stopping"}

\* Every instance belongs to one worker, and to one that won with it.
LocksApart ==
    /\ \A w \in Workers : lock[w] # NoLock <=> InOffice(w)
    /\ \A v, w \in Workers : lock[v] = lock[w] /\ lock[v] # NoLock => v = w

\* While it is calm, the winner has a client, and the key, for long enough.
OwnsKey(w) ==
    /\ lock[w] \in Locks \ Offline
    /\ holder = lock[w]
    /\ acquired[lock[w]]
    /\ pc[w] = "elected" => ttl = TTL
    /\ pc[w] = "leader" => ttl > due[w]

CalmInv == Calm => \A w \in Workers : InOffice(w) => OwnsKey(w)

CryptoInv == CryptoTypeOK /\ LocksApart /\ CalmInv

-----------------------------------------------------------------------------
(* Facts about single steps *)

LEMMA RenewFacts == RENEW_EVERY \in Nat \ {0} /\ RENEW_EVERY <= TTL
  BY CryptoAssumption, LockAssumption

\* What goes wrong stays gone wrong.
LEMMA FaultsStay ==
  ASSUME [CryptoNext]_vars
  PROVE  happened \subseteq happened'
  BY DEF CryptoNext, WorkerStep, Elect, Wins, Loses, StartEngine, Renew, Shutdown, DeleteKey,
         Crash, TimePasses, Fault, NoFault, vars

\* What Becomes does, to the worker and to the others.
LEMMA BecomesOne ==
  ASSUME CryptoTypeOK, NEW w \in Workers, NEW state \in WorkerStates,
         NEW l \in Locks \cup {NoLock}, Becomes(w, state, l)
  PROVE  /\ pc' \in [Workers -> WorkerStates]
         /\ lock' \in [Workers -> Locks \cup {NoLock}]
         /\ due' \in [Workers -> 0..RENEW_EVERY]
         /\ pc'[w] = state /\ lock'[w] = l /\ due'[w] = RENEW_EVERY
         /\ \A v \in Workers \ {w} : pc'[v] = pc[v] /\ lock'[v] = lock[v] /\ due'[v] = due[v]
  BY RenewFacts DEF CryptoTypeOK, Becomes

\* The election: somebody wins with a new instance, or nobody does.
LEMMA ElectInv ==
  ASSUME CryptoInv, NEW w \in Workers, Elect(w)
  PROVE  CryptoInv'
<1>1. CryptoTypeOK /\ LockTypeOK /\ pc[w] = "down"
  BY DEF CryptoInv, CryptoTypeOK, Elect
<1>2. Calm' => Calm
  BY FaultsStay DEF CryptoNext, WorkerStep, Calm
<1>3. CASE Wins(w)
  <2>1. PICK l \in Locks : /\ New(l) /\ acquire(l) /\ Becomes(w, "elected", l)
                           /\ IF l \in Offline THEN Fault("offline") ELSE NoFault
    BY <1>3 DEF Wins
  <2>2. LockTypeOK'
    BY <1>1, <2>1, InstanceKeepsTypes
  <2>3. /\ pc' \in [Workers -> WorkerStates]
        /\ lock' \in [Workers -> Locks \cup {NoLock}]
        /\ due' \in [Workers -> 0..RENEW_EVERY]
        /\ pc'[w] = "elected" /\ lock'[w] = l
        /\ \A v \in Workers \ {w} : pc'[v] = pc[v] /\ lock'[v] = lock[v] /\ due'[v] = due[v]
    BY <1>1, <2>1, BecomesOne DEF WorkerStates
  <2>4. CryptoTypeOK'
    BY <1>1, <2>1, <2>2, <2>3 DEF CryptoTypeOK, Fault, NoFault
  <2>5. LocksApart'
    BY <2>1, <2>3, LockAssumption DEF CryptoInv, LocksApart, InOffice, New
  <2>6. CalmInv'
    <3> SUFFICES ASSUME Calm' PROVE \A v \in Workers : InOffice(v)' => OwnsKey(v)'
      BY DEF CalmInv
    <3>1. l \notin Offline
      BY <2>1 DEF Fault, Calm
    <3>2. holder = NoLock /\ holder' = l /\ ttl' = TTL /\ acquired'[l]
      BY <1>1, <2>1, <3>1 DEF acquire, SetNX, LockTypeOK
    <3>3. \A v \in Workers \ {w} : ~InOffice(v)'
      BY <1>2, <2>3, <3>2, LockAssumption DEF CryptoInv, CalmInv, OwnsKey, InOffice
    <3> QED
      BY <2>3, <3>1, <3>2, <3>3 DEF OwnsKey
  <2> QED
    BY <2>4, <2>5, <2>6 DEF CryptoInv
<1>4. CASE Loses(w)
  <2>1. /\ pc' \in [Workers -> WorkerStates]
        /\ lock' \in [Workers -> Locks \cup {NoLock}]
        /\ due' \in [Workers -> 0..RENEW_EVERY]
        /\ pc'[w] = "follower" /\ lock'[w] = NoLock
        /\ \A v \in Workers \ {w} : pc'[v] = pc[v] /\ lock'[v] = lock[v] /\ due'[v] = due[v]
    BY <1>1, <1>4, BecomesOne DEF Loses, WorkerStates
  <2>2. LockTypeOK'
    <3>1. CASE UNCHANGED lockVars
      BY <1>1, <3>1 DEF LockTypeOK, lockVars
    <3>2. ASSUME NEW l \in Locks, AcquireReplyLost(l) PROVE LockTypeOK'
      BY <1>1, <3>2, InstanceKeepsTypes
    <3> QED
      BY <1>4, <3>1, <3>2 DEF Loses
  <2>3. CryptoTypeOK'
    BY <1>1, <1>4, <2>1, <2>2 DEF CryptoTypeOK, Loses, Fault, NoFault
  <2>4. LocksApart'
    BY <2>1 DEF CryptoInv, LocksApart, InOffice
  <2>5. CalmInv'
    <3> SUFFICES ASSUME Calm' PROVE \A v \in Workers : InOffice(v)' => OwnsKey(v)'
      BY DEF CalmInv
    <3>1. UNCHANGED lockVars
      BY <1>4 DEF Loses, Fault, Calm
    <3> QED
      BY <1>2, <2>1, <3>1 DEF CryptoInv, CalmInv, OwnsKey, InOffice, lockVars
  <2> QED
    BY <2>3, <2>4, <2>5 DEF CryptoInv
<1> QED
  BY <1>3, <1>4 DEF Elect

\* The engine starts at once: the key still has its whole time.
LEMMA StartInv ==
  ASSUME RenewsInTime, CryptoInv, NEW w \in Workers, StartEngine(w)
  PROVE  CryptoInv'
<1>1. CryptoTypeOK /\ pc[w] = "elected" /\ UNCHANGED <<lockVars, happened>>
  BY DEF CryptoInv, StartEngine
<1>2. /\ pc' \in [Workers -> WorkerStates]
      /\ lock' \in [Workers -> Locks \cup {NoLock}]
      /\ due' \in [Workers -> 0..RENEW_EVERY]
      /\ pc'[w] = "leader" /\ lock'[w] = lock[w] /\ due'[w] = RENEW_EVERY
      /\ \A v \in Workers \ {w} : pc'[v] = pc[v] /\ lock'[v] = lock[v] /\ due'[v] = due[v]
  <2>1. lock[w] \in Locks \cup {NoLock}
    BY <1>1 DEF CryptoTypeOK
  <2> QED
    BY <1>1, <2>1, BecomesOne DEF StartEngine, WorkerStates
<1>3. CryptoTypeOK'
  BY <1>1, <1>2 DEF CryptoTypeOK, LockTypeOK, lockVars
<1>4. LocksApart'
  BY <1>1, <1>2 DEF CryptoInv, LocksApart, InOffice
<1>5. CalmInv'
  BY <1>1, <1>2 DEF CryptoInv, CalmInv, OwnsKey, InOffice, Calm, lockVars, RenewsInTime
<1> QED
  BY <1>3, <1>4, <1>5 DEF CryptoInv

\* A renewal that Redis answers finds its own key while it is calm.
LEMMA RenewInv ==
  ASSUME RenewsInTime, CryptoInv, NEW w \in Workers, Renew(w)
  PROVE  CryptoInv'
<1> DEFINE l == lock[w]
<1>1. /\ CryptoTypeOK /\ LockTypeOK /\ pc[w] = "leader" /\ due[w] = 0
      /\ due' = [due EXCEPT ![w] = RENEW_EVERY] /\ UNCHANGED <<pc, lock>>
  BY DEF CryptoInv, CryptoTypeOK, Renew
<1>2. l \in Locks
  BY <1>1 DEF CryptoInv, CryptoTypeOK, LocksApart, InOffice
<1>3. LockTypeOK'
  <2>1. CASE renew(l) \/ RenewReplyLost(l)
    BY <1>1, <1>2, <2>1, InstanceKeepsTypes
  <2>2. CASE UNCHANGED lockVars
    BY <1>1, <2>2 DEF LockTypeOK, lockVars
  <2> QED
    BY <2>1, <2>2 DEF Renew
<1>4. CryptoTypeOK'
  BY <1>1, <1>3, RenewFacts DEF CryptoTypeOK, Renew, Fault, NoFault
<1>5. LocksApart'
  BY <1>1 DEF CryptoInv, LocksApart, InOffice
<1>6. CalmInv'
  <2> SUFFICES ASSUME Calm', NEW v \in Workers, InOffice(v)' PROVE OwnsKey(v)'
    BY DEF CalmInv
  <2>1. Calm
    BY FaultsStay DEF CryptoNext, WorkerStep, Calm
  <2>2. OwnsKey(v) /\ OwnsKey(w)
    BY <1>1, <2>1 DEF CryptoInv, CalmInv, InOffice
  <2>3. v = w
    BY <1>1, <2>2, LockAssumption DEF CryptoInv, LocksApart, OwnsKey
  <2>4. renew(l)
    BY <2>2 DEF Renew, Fault, Calm, OwnsKey
  <2>5. holder' = l /\ ttl' = TTL /\ acquired' = acquired
    BY <2>2, <2>4 DEF renew, CasExpire, OwnsKey
  <2> QED
    BY <1>1, <2>2, <2>3, <2>5 DEF OwnsKey, CryptoTypeOK, RenewsInTime
<1> QED
  BY <1>4, <1>5, <1>6 DEF CryptoInv

\* The shutdown of a leader, up to its deletion, leaves the key alone.
LEMMA ShutdownInv ==
  ASSUME CryptoInv, NEW w \in Workers, Shutdown(w)
  PROVE  CryptoInv'
<1>1. CryptoTypeOK /\ UNCHANGED <<lockVars, happened>>
  BY DEF CryptoInv, Shutdown
<1>2. PICK state \in {"stopping", "down"}, l \in {lock[w], NoLock} :
        /\ Becomes(w, state, l)
        /\ \/ pc[w] = "leader" /\ state = "stopping" /\ l = lock[w]
           \/ pc[w] = "follower" /\ state = "down" /\ l = NoLock
  BY DEF Shutdown
<1>3. l \in Locks \cup {NoLock} /\ state \in WorkerStates
  BY <1>1 DEF CryptoTypeOK, WorkerStates
<1>4. /\ pc' \in [Workers -> WorkerStates]
      /\ lock' \in [Workers -> Locks \cup {NoLock}]
      /\ due' \in [Workers -> 0..RENEW_EVERY]
      /\ pc'[w] = state /\ lock'[w] = l
      /\ \A v \in Workers \ {w} : pc'[v] = pc[v] /\ lock'[v] = lock[v] /\ due'[v] = due[v]
  BY <1>1, <1>2, <1>3, BecomesOne
<1>5. CryptoTypeOK'
  BY <1>1, <1>4 DEF CryptoTypeOK, LockTypeOK, lockVars
<1>6. LocksApart'
  BY <1>2, <1>4 DEF CryptoInv, LocksApart, InOffice
<1>7. CalmInv'
  BY <1>1, <1>2, <1>4 DEF CryptoInv, CalmInv, OwnsKey, InOffice, Calm, lockVars
<1> QED
  BY <1>5, <1>6, <1>7 DEF CryptoInv

\* A worker that goes down while it is calm leaves nobody in office whose key it
\* could have deleted.
LEMMA GoesDownInv ==
  ASSUME CryptoInv, NEW w \in Workers, DeleteKey(w) \/ Crash(w)
  PROVE  CryptoInv'
<1>1. CryptoTypeOK /\ LockTypeOK
  BY DEF CryptoInv, CryptoTypeOK
<1>2. /\ Becomes(w, "down", NoLock)
      /\ acquired' = [l \in Locks |-> acquired[l] /\ l # lock[w]] /\ UNCHANGED confirmed
      /\ \/ UNCHANGED <<holder, ttl>>
         \/ InOffice(w) /\ lock[w] \notin Offline /\ holder' = NoLock /\ ttl' = 0
  BY DEF DeleteKey, Crash, InOffice
<1>3. /\ pc' \in [Workers -> WorkerStates]
      /\ lock' \in [Workers -> Locks \cup {NoLock}]
      /\ due' \in [Workers -> 0..RENEW_EVERY]
      /\ pc'[w] = "down" /\ lock'[w] = NoLock
      /\ \A v \in Workers \ {w} : pc'[v] = pc[v] /\ lock'[v] = lock[v] /\ due'[v] = due[v]
  BY <1>1, <1>2, BecomesOne DEF WorkerStates
<1>4. CryptoTypeOK'
  <2>1. LockTypeOK'
    BY <1>1, <1>2, LockAssumption DEF LockTypeOK
  <2> QED
    BY <1>1, <1>3, <2>1 DEF CryptoTypeOK, DeleteKey, Crash, Fault, NoFault
<1>5. LocksApart'
  BY <1>3 DEF CryptoInv, LocksApart, InOffice
<1>6. CalmInv'
  <2> SUFFICES ASSUME Calm', NEW v \in Workers, InOffice(v)' PROVE OwnsKey(v)'
    BY DEF CalmInv
  <2>1. Calm
    BY FaultsStay DEF CryptoNext, WorkerStep, Calm
  <2>2. v # w /\ InOffice(v) /\ OwnsKey(v)
    BY <1>3, <2>1 DEF CryptoInv, CalmInv, InOffice
  <2>3. ~InOffice(w)' /\ lock[v] # lock[w]
    BY <1>3, <2>2, LockAssumption DEF CryptoInv, LocksApart, InOffice, OwnsKey
  <2>4. ~InOffice(w)
    BY <2>1, <2>2, <2>3 DEF CryptoInv, CalmInv, OwnsKey
  <2>5. UNCHANGED <<holder, ttl>> /\ acquired'[lock[v]]
    BY <1>2, <2>2, <2>3, <2>4 DEF OwnsKey
  <2> QED
    BY <1>3, <2>2, <2>5 DEF OwnsKey
<1> QED
  BY <1>4, <1>5, <1>6 DEF CryptoInv

\* While it is calm a tick finds every worker prompt: the key outlives it.
LEMMA TimeInv ==
  ASSUME CryptoInv, TimePasses
  PROVE  CryptoInv'
<1>1. CryptoTypeOK /\ LockTypeOK /\ Tick /\ UNCHANGED <<pc, lock>>
  BY DEF CryptoInv, CryptoTypeOK, TimePasses
<1>2. due' = [w \in Workers |-> IF pc[w] = "leader" /\ due[w] > 0 THEN due[w] - 1 ELSE due[w]]
  BY DEF TimePasses
<1>3. \A w \in Workers : due[w] \in 0..RENEW_EVERY
  BY <1>1 DEF CryptoTypeOK
<1>4. due' \in [Workers -> 0..RENEW_EVERY]
  BY <1>2, <1>3, RenewFacts
<1>5. CryptoTypeOK'
  BY <1>1, <1>4, TickKeepsTypes DEF CryptoTypeOK, TimePasses, Fault, NoFault
<1>6. LocksApart'
  BY <1>1 DEF CryptoInv, LocksApart, InOffice
<1>7. CalmInv'
  <2> SUFFICES ASSUME Calm', NEW v \in Workers, InOffice(v)' PROVE OwnsKey(v)'
    BY DEF CalmInv
  <2>1. Calm
    BY FaultsStay DEF CryptoNext, Calm
  <2>2. InOffice(v) /\ OwnsKey(v)
    BY <1>1, <2>1 DEF CryptoInv, CalmInv, InOffice
  <2>3. Prompt(v)
    BY DEF TimePasses, Fault, Calm
  <2>4. pc[v] = "leader" /\ due[v] # 0
    BY <2>2, <2>3 DEF Prompt, InOffice
  <2>5. due'[v] = due[v] - 1 /\ ttl > due[v] /\ due[v] \in Nat /\ due[v] > 0 /\ ttl \in Nat
    BY <1>1, <1>2, <1>3, <2>2, <2>4, RenewFacts, LockAssumption DEF OwnsKey, LockTypeOK
  <2>6. ttl' = ttl - 1 /\ ttl' > due'[v] /\ ttl' # 0
    BY <1>1, <2>5 DEF Tick
  <2>7. holder' = holder /\ acquired' = acquired
    BY <1>1, <2>6 DEF Tick
  <2> QED
    BY <1>1, <2>2, <2>4, <2>6, <2>7 DEF OwnsKey
<1> QED
  BY <1>5, <1>6, <1>7 DEF CryptoInv

LEMMA CryptoInitInv == CryptoInit => CryptoInv
<1> SUFFICES ASSUME CryptoInit PROVE CryptoInv
  OBVIOUS
<1>1. CryptoTypeOK
  BY RenewFacts, LockAssumption
  DEF CryptoInit, CryptoTypeOK, LockInit, LockTypeOK, WorkerStates
<1>2. LocksApart /\ CalmInv
  BY DEF CryptoInit, LocksApart, CalmInv, InOffice
<1> QED
  BY <1>1, <1>2 DEF CryptoInv

LEMMA CryptoStepInv ==
  ASSUME RenewsInTime, CryptoInv, [CryptoNext]_vars
  PROVE  CryptoInv'
<1>1. CASE UNCHANGED vars
  BY <1>1 DEF vars, lockVars, CryptoInv, CryptoTypeOK, LockTypeOK, LocksApart, CalmInv, Calm,
              InOffice, OwnsKey
<1>2. ASSUME NEW w \in Workers, WorkerStep(w) PROVE CryptoInv'
  BY <1>2, ElectInv, StartInv, RenewInv, GoesDownInv DEF WorkerStep
<1> QED
  BY <1>1, <1>2, ShutdownInv, GoesDownInv, TimeInv DEF CryptoNext

-----------------------------------------------------------------------------
(* The theorems *)

THEOREM CryptoInvariant == RenewsInTime /\ CryptoSpec => []CryptoInv
<1>1. RenewsInTime /\ CryptoInv /\ [CryptoNext]_vars => CryptoInv'
  BY CryptoStepInv
<1>2. RenewsInTime => []RenewsInTime
  OBVIOUS
<1> QED
  BY <1>1, <1>2, CryptoInitInv, PTL DEF CryptoSpec

\* The lease outlives the engine it protects: while it is calm the key is the
\* streaming worker's own, from the start of the engine to its stop.
THEOREM LeadersHoldTheKey == RenewsInTime /\ CryptoSpec => []LeaderHoldsKey
<1>1. CryptoInv => LeaderHoldsKey
  BY DEF CryptoInv, CalmInv, LeaderHoldsKey, InOffice, OwnsKey
<1> QED
  BY <1>1, CryptoInvariant, PTL

\* "We only want ONE WS connection to Binance, not N": for any number of workers,
\* one of them runs the engine at a time, as long as nothing but crashes happens.
THEOREM OneWorkerStreams == RenewsInTime /\ CryptoSpec => []OneConnectionInCalm
<1>1. CryptoInv => OneConnectionInCalm
  BY LockAssumption
  DEF CryptoInv, CalmInv, LocksApart, OneConnectionInCalm, Streaming, InOffice, OwnsKey
<1> QED
  BY <1>1, CryptoInvariant, PTL

-----------------------------------------------------------------------------
(* While it is calm: a lock, and a lease on the stream *)

\* The deletion that compares no owner is the release of the worker's own lock.
LEMMA CalmDeleteIsRelease ==
  ASSUME CryptoInv, Calm, Calm', NEW w \in Workers, DeleteKey(w)
  PROVE  lock[w] \in Locks /\ release(lock[w])
<1>1. OwnsKey(w) /\ CryptoTypeOK /\ LockTypeOK
  BY DEF DeleteKey, CryptoInv, CryptoTypeOK, CalmInv, InOffice
<1>2. /\ holder' = NoLock /\ ttl' = 0 /\ UNCHANGED confirmed
      /\ acquired' = [l \in Locks |-> acquired[l] /\ l # lock[w]]
  BY <1>1 DEF DeleteKey, OwnsKey, Fault, Calm
<1>3. acquired' = [acquired EXCEPT ![lock[w]] = FALSE]
  BY <1>1, <1>2 DEF LockTypeOK
<1> QED
  BY <1>1, <1>2, <1>3 DEF release, CasDelete, OwnsKey

\* A worker that dies abandons its lock, if it has one.
LEMMA DeathIsAbandonment ==
  ASSUME CryptoInv, NEW w \in Workers, Crash(w)
  PROVE  (lock[w] \in Locks /\ Abandon(lock[w])) \/ UNCHANGED lockVars
<1>1. /\ UNCHANGED <<holder, ttl, confirmed>>
      /\ acquired' = [l \in Locks |-> acquired[l] /\ l # lock[w]]
      /\ acquired \in [Locks -> BOOLEAN]
  BY DEF Crash, CryptoInv, CryptoTypeOK, LockTypeOK
<1>2. CASE lock[w] \in Locks /\ acquired[lock[w]]
  <2>1. acquired' = [acquired EXCEPT ![lock[w]] = FALSE]
    BY <1>1
  <2> QED
    BY <1>1, <1>2, <2>1 DEF Abandon
<1>3. CASE ~(lock[w] \in Locks /\ acquired[lock[w]])
  <2>1. acquired' = acquired
    BY <1>1, <1>3
  <2> QED
    BY <1>1, <2>1 DEF lockVars
<1> QED
  BY <1>2, <1>3

LEMMA CalmStepIsLockStep ==
  ASSUME CryptoInv, Calm, Calm', [CryptoNext]_vars
  PROVE  [LockNext]_lockVars
<1>1. ASSUME NEW w \in Workers, Elect(w) PROVE [LockNext]_lockVars
  BY <1>1 DEF Elect, Wins, Loses, LockNext, Fault, Calm
<1>2. ASSUME NEW w \in Workers, Renew(w) PROVE [LockNext]_lockVars
  <2>1. lock[w] \in Locks
    BY <1>2 DEF Renew, CryptoInv, CalmInv, InOffice, OwnsKey
  <2> QED
    BY <1>2, <2>1 DEF Renew, LockNext, Fault, Calm
<1>3. ASSUME NEW w \in Workers, DeleteKey(w) PROVE [LockNext]_lockVars
  BY <1>3, CalmDeleteIsRelease DEF LockNext
<1>4. ASSUME NEW w \in Workers, Crash(w) PROVE [LockNext]_lockVars
  BY <1>4, DeathIsAbandonment DEF LockNext
<1>5. ASSUME NEW w \in Workers, StartEngine(w) \/ Shutdown(w) PROVE [LockNext]_lockVars
  BY <1>5 DEF StartEngine, Shutdown
<1>6. CASE TimePasses
  BY <1>6 DEF TimePasses, LockNext
<1>7. CASE UNCHANGED vars
  BY <1>7 DEF vars
<1> QED
  BY <1>1, <1>2, <1>3, <1>4, <1>5, <1>6, <1>7 DEF CryptoNext, WorkerStep

\* While nothing happens but deaths, the workers use the key as RedisLock means it to
\* be used, although the shutdown bypasses release(): every theorem about the
\* lock holds of them.
THEOREM CalmWorkersUseTheLock == RenewsInTime /\ CryptoSpec /\ []Calm => LockSpec
<1>1. CryptoInit => LockInit
  BY DEF CryptoInit
<1>2. CryptoInv /\ Calm /\ Calm' /\ [CryptoNext]_vars => [LockNext]_lockVars
  BY CalmStepIsLockStep
<1> QED
  BY <1>1, <1>2, CryptoInvariant, PTL DEF CryptoSpec, LockSpec

\* Nobody streams who has not just been elected.
LEMMA OnlyStartStreams ==
  ASSUME CryptoInv, [CryptoNext]_vars, NEW w \in Workers, ~Streaming(w), pc[w] # "elected"
  PROVE  ~Streaming(w)'
<1>1. pc \in [Workers -> WorkerStates]
  BY DEF CryptoInv, CryptoTypeOK
<1>2. ASSUME NEW v \in Workers, NEW state \in {"down", "elected", "stopping", "follower"}, NEW l,
             Becomes(v, state, l)
      PROVE  ~Streaming(w)'
  BY <1>1, <1>2 DEF Becomes, Streaming
<1>3. ASSUME NEW v \in Workers, StartEngine(v) PROVE ~Streaming(w)'
  BY <1>1, <1>3 DEF StartEngine, Becomes, Streaming
<1>4. CASE UNCHANGED pc
  BY <1>4 DEF Streaming
<1> QED
  BY <1>2, <1>3, <1>4
  DEF CryptoNext, WorkerStep, Elect, Wins, Loses, Renew, DeleteKey, Shutdown, Crash, TimePasses, vars

\* What the election is for, as an abstract lease that the workers hold by streaming.
Streams == INSTANCE Lease WITH Locks <- Workers, leaders <- {w \in Workers : Streaming(w)}

\* "We only want ONE WS connection", over time: the connection of one worker ends
\* before the next one's begins, as long as nothing but deaths happens.
THEOREM StreamsAreLeased == RenewsInTime /\ CryptoSpec /\ []Calm => Streams!LeaseSpec
<1> DEFINE streaming == {w \in Workers : Streaming(w)}
<1>1. CryptoInit => streaming = {}
  BY DEF CryptoInit, Streaming
<1>2. ASSUME CryptoInv, CryptoInv', Calm, Calm', [CryptoNext]_vars
      PROVE  [Streams!Grant \/ Streams!Lose]_streaming
  <2>1. \A v, w \in Workers :
          /\ Streaming(v) /\ Streaming(w) => v = w
          /\ Streaming(v)' /\ Streaming(w)' => v = w
    <3>1. \A v, w \in Workers : Streaming(v) /\ Streaming(w) => v = w
      BY <1>2, LockAssumption DEF CryptoInv, CalmInv, LocksApart, Streaming, InOffice, OwnsKey
    <3>2. \A v, w \in Workers : Streaming(v)' /\ Streaming(w)' => v = w
      BY <1>2, LockAssumption DEF CryptoInv, CalmInv, LocksApart, Streaming, InOffice, OwnsKey
    <3> QED
      BY <3>1, <3>2
  <2>2. ASSUME NEW v \in Workers, Streaming(v) PROVE \A w \in Workers \ {v} : ~Streaming(w)'
    <3>1. \A w \in Workers \ {v} : pc[w] # "elected"
      BY <1>2, <2>2, LockAssumption DEF CryptoInv, CalmInv, LocksApart, Streaming, InOffice, OwnsKey
    <3>2. \A w \in Workers \ {v} : ~Streaming(w)
      BY <2>1, <2>2
    <3> QED
      BY <1>2, <3>1, <3>2, OnlyStartStreams
  <2>3. CASE streaming = {}
    BY <2>1, <2>3 DEF Streams!Grant
  <2>4. CASE streaming # {}
    <3>1. PICK v \in Workers : Streaming(v)
      BY <2>4
    <3>2. streaming = {v} /\ (streaming' = {} \/ streaming' = {v})
      BY <2>1, <2>2, <3>1
    <3> QED
      BY <3>2 DEF Streams!Lose
  <2> QED
    BY <2>3, <2>4
<1> QED
  BY <1>1, <1>2, CryptoInvariant, PTL DEF CryptoSpec, Streams!LeaseSpec, Streams!LeaseInit
=============================================================================
