----------------------- MODULE ArbEngineLeader_proofs ----------------------
(***************************************************************************)
(* For any workers, engines and instances and any TTL: one engine runs at  *)
(* a time while the scan for orphans sees them all, only the owner of the  *)
(* key touches it, and no lease outlives its worker but after a crash or   *)
(* a lost command.  ArbInv is inductive.  Its heart is that a worker which *)
(* was elected and has not spawned yet owns the key: so there is one such  *)
(* worker at a time, and no engine starts between its scan and its spawn.  *)
(***************************************************************************)
EXTENDS ArbEngineLeader, RedisLock_proofs

InOffice(w) == pc[w] \in {"elected", "reaped", "leader", "stopping"}
Booting(w) == pc[w] \in {"elected", "reaped"}

\* Every instance belongs to one worker, and to one that was elected with it.
LocksApart ==
    /\ \A w \in Workers : lock[w] # NoLock <=> InOffice(w)
    /\ \A v, w \in Workers : lock[v] = lock[w] /\ lock[v] # NoLock => v = w

KeyInv == KeyHasTTL /\ holder \notin Offline

\* A refresher belongs to a leader that has spawned an engine.
RefreshersHaveEngines ==
    \A w \in Workers : refreshing[w] => pc[w] = "leader" /\ proc[w] # NoEngine

\* What keeps the engines apart while none of them is unseen.
SeenInv ==
    "unseen engine" \notin happened =>
        /\ OneEngine
        /\ \A w \in Workers : Booting(w) => holder = lock[w]
        /\ \A w \in Workers : pc[w] = "reaped" => \A e \in Engines : ~Running(e)

\* What keeps the key from outliving its worker.
FreshInv ==
    "stale lease" \notin happened =>
        /\ holder # NoLock => \E w \in Workers : InOffice(w) /\ lock[w] = holder
        /\ \A w \in Workers : pc[w] \in {"leader", "stopping"} => proc[w] # NoEngine

ArbInv == ArbTypeOK /\ LocksApart /\ KeyInv /\ RefreshersHaveEngines /\ SeenInv /\ FreshInv

-----------------------------------------------------------------------------
(* Facts about single steps *)

LEMMA RefreshFacts == REFRESH_EVERY \in Nat \ {0} /\ NoEngine \notin Engines
  BY ArbAssumption, LockAssumption

\* What goes wrong stays gone wrong, and is known by its harm.
LEMMA FaultsStay ==
  ASSUME ArbTypeOK, [ArbNext]_vars
  PROVE  happened \subseteq happened' /\ happened' \subseteq {Harm(kind) : kind \in Faults}
<1> DEFINE Fails == \E kind \in Faults : happened' = happened \cup {Harm(kind)}
<1>1. ASSUME NEW kind, Fault(kind) PROVE Fails
  BY <1>1 DEF Fault
<1>2. ASSUME NEW w \in Workers, Elect(w) PROVE Fails \/ NoFault
  <2>1. Wins(w) \/ Loses(w) => Fails \/ NoFault
    BY <1>1 DEF Wins, Loses
  <2>2. BootsOffline(w) => Fails
    BY <1>1 DEF BootsOffline
  <2> QED
    BY <1>2, <2>1, <2>2 DEF Elect
<1>3. ASSUME NEW w \in Workers, Refresh(w) PROVE Fails \/ NoFault
  BY <1>1, <1>3 DEF Refresh, GiveUpKey
<1>4. ASSUME NEW w \in Workers,
             \/ ReapOrphans(w) \/ Spawn(w) \/ SpawnFails(w) \/ Shutdown(w) \/ Crash(w)
      PROVE  Fails \/ NoFault
  BY <1>1, <1>4 DEF ReapOrphans, Spawn, SpawnFails, Shutdown, Crash, NoFault
<1>5. ASSUME NEW w \in Workers, DeleteKey(w) PROVE Fails \/ NoFault
  BY <1>1, <1>5 DEF DeleteKey, NoFault
<1>6. ASSUME NEW e \in Engines, EngineExits(e) PROVE Fails \/ NoFault
  BY <1>1, <1>6 DEF EngineExits
<1>7. TimePasses => Fails \/ NoFault
  BY <1>1 DEF TimePasses
<1>8. UNCHANGED vars => NoFault
  BY DEF vars, NoFault
<1>9. Fails \/ NoFault
  <2> HIDE DEF Fails
  <2> QED
    BY <1>2, <1>3, <1>4, <1>5, <1>6, <1>7, <1>8 DEF ArbNext, WorkerStep
<1> QED
  BY <1>9 DEF ArbTypeOK, NoFault

LEMMA Harms ==
  /\ Harm("scan") = "unseen engine" /\ Harm("stall") = "unseen engine"
  /\ Harm("offline") = "unseen engine"
  /\ Harm("crash") = "stale lease" /\ Harm("redis") = "stale lease"
  /\ Harm("spawn") = "stale lease"
  BY DEF Harm

\* What Becomes does, to the worker and to the others.
LEMMA BecomesOne ==
  ASSUME ArbTypeOK, NEW w \in Workers, NEW state \in WorkerStates,
         NEW l \in Locks \cup {NoLock}, NEW e \in Engines \cup {NoEngine},
         NEW r \in BOOLEAN, Becomes(w, state, l, e, r)
  PROVE  /\ pc' \in [Workers -> WorkerStates]
         /\ lock' \in [Workers -> Locks \cup {NoLock}]
         /\ proc' \in [Workers -> Engines \cup {NoEngine}]
         /\ due' \in [Workers -> 0..REFRESH_EVERY]
         /\ refreshing' \in [Workers -> BOOLEAN]
         /\ pc'[w] = state /\ lock'[w] = l /\ proc'[w] = e /\ refreshing'[w] = r
         /\ \A v \in Workers \ {w} : /\ pc'[v] = pc[v] /\ lock'[v] = lock[v]
                                     /\ proc'[v] = proc[v]
                                     /\ refreshing'[v] = refreshing[v]
  BY RefreshFacts DEF ArbTypeOK, Becomes

\* Two workers in office that both own the key are the same one.
LEMMA OwnersAreOne ==
  ASSUME LocksApart, NEW v \in Workers, NEW w \in Workers, InOffice(v), InOffice(w),
         lock[v] = lock[w]
  PROVE  v = w
  BY DEF LocksApart, InOffice

\* What the commands of the leaders' scripts do to the key.
LEMMA ScriptsKeepTypes ==
  ASSUME LockTypeOK, KeyInv, NEW l \in Locks, UNCHANGED confirmed, acquired' \in [Locks -> BOOLEAN],
         CasExpire(l) \/ CasDelete(l) \/ UNCHANGED <<holder, ttl>>
  PROVE  LockTypeOK' /\ KeyInv'
<1>1. CASE UNCHANGED <<holder, ttl>>
  BY <1>1 DEF LockTypeOK, KeyInv, KeyHasTTL
<1>2. CASE CasExpire(l)
  BY <1>2, TTLFacts DEF LockTypeOK, KeyInv, KeyHasTTL, CasExpire
<1>3. CASE holder' = NoLock /\ ttl' = 0
  BY <1>3, TTLFacts DEF LockTypeOK, KeyInv, KeyHasTTL
<1> QED
  BY <1>1, <1>2, <1>3 DEF CasDelete

-----------------------------------------------------------------------------
(* Elections *)

LEMMA WinsInv ==
  ASSUME ArbInv, NEW w \in Workers, pc[w] = "down", Wins(w), UNCHANGED engine
  PROVE  ArbInv'
<1>1. ArbTypeOK /\ LockTypeOK
  BY DEF ArbInv, ArbTypeOK
<1>2. PICK l \in Locks \ Offline : /\ New(l) /\ acquire(l) /\ NoFault
                                   /\ Becomes(w, "elected", l, NoEngine, FALSE)
  BY DEF Wins
<1>3. /\ holder = NoLock /\ holder' = l /\ ttl' = TTL
      /\ Unused(l) /\ UNCHANGED <<happened, engine>>
  BY <1>2 DEF acquire, SetNX, New, NoFault
<1>4. /\ pc' \in [Workers -> WorkerStates]
      /\ lock' \in [Workers -> Locks \cup {NoLock}]
      /\ proc' \in [Workers -> Engines \cup {NoEngine}]
      /\ due' \in [Workers -> 0..REFRESH_EVERY]
      /\ refreshing' \in [Workers -> BOOLEAN]
      /\ pc'[w] = "elected" /\ lock'[w] = l /\ proc'[w] = NoEngine /\ refreshing'[w] = FALSE
      /\ \A v \in Workers \ {w} : /\ pc'[v] = pc[v] /\ lock'[v] = lock[v]
                                  /\ proc'[v] = proc[v] /\ refreshing'[v] = refreshing[v]
  BY <1>1, <1>2, BecomesOne DEF WorkerStates
<1>5. ArbTypeOK'
  <2>1. LockTypeOK'
    BY <1>1, <1>2, InstanceKeepsTypes
  <2> QED
    BY <1>1, <1>3, <1>4, <2>1 DEF ArbTypeOK
<1>6. LocksApart'
  BY <1>3, <1>4, TTLFacts DEF ArbInv, LocksApart, InOffice, Unused
<1>7. KeyInv' /\ RefreshersHaveEngines'
  BY <1>3, <1>4, TTLFacts DEF ArbInv, KeyInv, KeyHasTTL, RefreshersHaveEngines
<1>8. SeenInv'
  <2> SUFFICES ASSUME "unseen engine" \notin happened PROVE SeenInv'
    BY <1>3 DEF SeenInv
  <2>1. \A v \in Workers : ~Booting(v)
    BY <1>3, TTLFacts DEF ArbInv, SeenInv, LocksApart, Booting, InOffice
  <2>2. \A v \in Workers \ {w} : ~Booting(v)'
    BY <1>4, <2>1 DEF Booting
  <2>3. pc'[w] # "reaped" /\ \A v \in Workers \ {w} : pc'[v] # "reaped"
    BY <1>4, <2>2 DEF Booting
  <2>4. OneEngine'
    BY <1>3 DEF ArbInv, SeenInv, OneEngine, Running
  <2>5. \A v \in Workers : Booting(v)' => holder' = lock'[v]
    BY <1>3, <1>4, <2>2 DEF Booting
  <2> QED
    BY <2>3, <2>4, <2>5 DEF SeenInv
<1>9. FreshInv'
  BY <1>3, <1>4 DEF ArbInv, FreshInv, InOffice
<1> QED
  BY <1>5, <1>6, <1>7, <1>8, <1>9 DEF ArbInv

LEMMA LosesInv ==
  ASSUME ArbInv, NEW w \in Workers, pc[w] = "down", Loses(w), UNCHANGED engine
  PROVE  ArbInv'
<1>1. ArbTypeOK /\ LockTypeOK /\ ArbTypeOK
  BY DEF ArbInv, ArbTypeOK
<1>2. /\ pc' \in [Workers -> WorkerStates]
      /\ lock' \in [Workers -> Locks \cup {NoLock}]
      /\ proc' \in [Workers -> Engines \cup {NoEngine}]
      /\ due' \in [Workers -> 0..REFRESH_EVERY]
      /\ refreshing' \in [Workers -> BOOLEAN]
      /\ pc'[w] = "follower" /\ lock'[w] = NoLock /\ proc'[w] = NoEngine
      /\ refreshing'[w] = FALSE
      /\ \A v \in Workers \ {w} : /\ pc'[v] = pc[v] /\ lock'[v] = lock[v]
                                  /\ proc'[v] = proc[v] /\ refreshing'[v] = refreshing[v]
  BY <1>1, BecomesOne DEF Loses, WorkerStates
<1>3. happened \subseteq happened' /\ happened' \subseteq {Harm(kind) : kind \in Faults}
  BY <1>1 DEF Loses, Fault, NoFault, ArbTypeOK
<1>4. \/ UNCHANGED lockVars
      \/ /\ "stale lease" \in happened'
         /\ \E l \in Locks \ Offline : AcquireReplyLost(l)
  BY Harms DEF Loses, Fault, AcquireReplyLost
<1>5. LockTypeOK' /\ KeyInv'
  <2>1. CASE UNCHANGED lockVars
    BY <1>1, <2>1 DEF lockVars, LockTypeOK, ArbInv, KeyInv, KeyHasTTL
  <2>2. ASSUME NEW l \in Locks \ Offline, AcquireReplyLost(l) PROVE LockTypeOK' /\ KeyInv'
    <3>1. LockTypeOK'
      BY <1>1, <2>2, InstanceKeepsTypes
    <3> QED
      BY <2>2, <3>1, TTLFacts DEF AcquireReplyLost, SetNX, KeyInv, KeyHasTTL
  <2> QED
    BY <1>4, <2>1, <2>2
<1>6. ArbTypeOK'
  BY <1>1, <1>2, <1>3, <1>5 DEF ArbTypeOK
<1>7. LocksApart' /\ RefreshersHaveEngines'
  BY <1>2 DEF ArbInv, LocksApart, InOffice, RefreshersHaveEngines
<1>8. SeenInv'
  <2> SUFFICES ASSUME "unseen engine" \notin happened PROVE SeenInv'
    BY <1>3 DEF SeenInv
  <2>1. ASSUME NEW v \in Workers, Booting(v) PROVE UNCHANGED holder
    <3>1. holder # NoLock
      BY <2>1 DEF ArbInv, SeenInv, LocksApart, Booting, InOffice
    <3> QED
      BY <1>4, <3>1 DEF AcquireReplyLost, SetNX, lockVars
  <2>2. \A v \in Workers : Booting(v)' => Booting(v) /\ pc'[v] = pc[v] /\ lock'[v] = lock[v]
    BY <1>2 DEF Booting
  <2>3. \A v \in Workers : pc'[v] = "reaped" => pc[v] = "reaped"
    BY <1>2
  <2> QED
    BY <2>1, <2>2, <2>3 DEF ArbInv, SeenInv, OneEngine, Running, Booting
<1>9. FreshInv'
  <2> SUFFICES ASSUME "stale lease" \notin happened' PROVE FreshInv'
    BY DEF FreshInv
  <2>1. UNCHANGED lockVars /\ "stale lease" \notin happened
    BY <1>3, <1>4
  <2> QED
    BY <1>2, <2>1 DEF ArbInv, FreshInv, InOffice, lockVars
<1> QED
  BY <1>5, <1>6, <1>7, <1>8, <1>9 DEF ArbInv

LEMMA OfflineInv ==
  ASSUME ArbInv, NEW w \in Workers, pc[w] = "down", BootsOffline(w), UNCHANGED engine
  PROVE  ArbInv'
<1>1. ArbTypeOK /\ UNCHANGED lockVars
  BY DEF ArbInv, BootsOffline
<1>2. PICK l \in Offline :
        /\ New(l)
        /\ \/ Becomes(w, "elected", l, NoEngine, FALSE)
           \/ Becomes(w, "follower", NoLock, NoEngine, FALSE)
  BY DEF BootsOffline
<1>3. l \in Locks /\ Unused(l)
  BY <1>2, TTLFacts DEF New
<1>4. PICK state \in {"elected", "follower"}, m \in {l, NoLock} :
        /\ Becomes(w, state, m, NoEngine, FALSE)
        /\ state = "elected" <=> m = l
        /\ m = NoLock <=> state = "follower"
  BY <1>2, <1>3, TTLFacts
<1>a. state \in WorkerStates /\ m \in Locks \cup {NoLock}
  BY <1>3 DEF WorkerStates
<1>5. /\ pc' \in [Workers -> WorkerStates]
      /\ lock' \in [Workers -> Locks \cup {NoLock}]
      /\ proc' \in [Workers -> Engines \cup {NoEngine}]
      /\ due' \in [Workers -> 0..REFRESH_EVERY]
      /\ refreshing' \in [Workers -> BOOLEAN]
      /\ pc'[w] = state /\ lock'[w] = m /\ proc'[w] = NoEngine /\ refreshing'[w] = FALSE
      /\ \A v \in Workers \ {w} : /\ pc'[v] = pc[v] /\ lock'[v] = lock[v]
                                  /\ proc'[v] = proc[v] /\ refreshing'[v] = refreshing[v]
  BY <1>1, <1>4, <1>a, BecomesOne
<1>6. /\ happened \subseteq happened' /\ happened' \subseteq {Harm(kind) : kind \in Faults}
      /\ "unseen engine" \in happened'
  BY <1>1, Harms DEF BootsOffline, Fault, ArbTypeOK
<1>7. ArbTypeOK'
  BY <1>1, <1>5, <1>6 DEF ArbTypeOK, LockTypeOK, lockVars
<1>8. LocksApart'
  BY <1>3, <1>4, <1>5 DEF ArbInv, LocksApart, InOffice, Unused
<1>9. KeyInv' /\ RefreshersHaveEngines'
  BY <1>1, <1>4, <1>5 DEF ArbInv, KeyInv, KeyHasTTL, RefreshersHaveEngines, lockVars
<1>10. SeenInv' /\ FreshInv'
  BY <1>1, <1>4, <1>5, <1>6 DEF ArbInv, SeenInv, FreshInv, InOffice, lockVars
<1> QED
  BY <1>7, <1>8, <1>9, <1>10 DEF ArbInv

-----------------------------------------------------------------------------
(* From the election to the engine *)

LEMMA BootingAlone ==
  ASSUME ArbInv, "unseen engine" \notin happened, NEW w \in Workers, Booting(w)
  PROVE  \A v \in Workers \ {w} : ~Booting(v)
<1> SUFFICES ASSUME NEW v \in Workers, Booting(v) PROVE v = w
  OBVIOUS
<1>1. lock[v] = lock[w]
  BY DEF ArbInv, SeenInv, Booting
<1>2. InOffice(v) /\ InOffice(w)
  BY DEF Booting, InOffice
<1> QED
  BY <1>1, <1>2, OwnersAreOne DEF ArbInv

\* A worker goes on in its lifespan with the same instance.
LEMMA OfficeStep ==
  ASSUME ArbInv, NEW w \in Workers, InOffice(w), NEW state \in {"reaped", "leader", "stopping"},
         NEW e \in Engines \cup {NoEngine}, NEW r \in BOOLEAN,
         Becomes(w, state, lock[w], e, r), UNCHANGED lockVars,
         engine' \in [Engines -> {"none", "running", "terminating"}],
         happened \subseteq happened', happened' \subseteq {Harm(kind) : kind \in Faults},
         r = FALSE \/ (state = "leader" /\ e # NoEngine),
         state \in {"leader", "stopping"} /\ e = NoEngine => "stale lease" \in happened'
  PROVE  /\ ArbTypeOK' /\ LocksApart' /\ KeyInv' /\ RefreshersHaveEngines' /\ FreshInv'
         /\ UNCHANGED <<holder, lock>>
         /\ pc'[w] = state /\ proc'[w] = e
         /\ \A v \in Workers \ {w} : pc'[v] = pc[v] /\ proc'[v] = proc[v]
<1>1. ArbTypeOK /\ lock[w] \in Locks \cup {NoLock} /\ state \in WorkerStates
  BY DEF ArbInv, ArbTypeOK, WorkerStates
<1>2. /\ pc' \in [Workers -> WorkerStates]
      /\ lock' \in [Workers -> Locks \cup {NoLock}]
      /\ proc' \in [Workers -> Engines \cup {NoEngine}]
      /\ due' \in [Workers -> 0..REFRESH_EVERY]
      /\ refreshing' \in [Workers -> BOOLEAN]
      /\ pc'[w] = state /\ lock'[w] = lock[w] /\ proc'[w] = e /\ refreshing'[w] = r
      /\ \A v \in Workers \ {w} : /\ pc'[v] = pc[v] /\ lock'[v] = lock[v]
                                  /\ proc'[v] = proc[v] /\ refreshing'[v] = refreshing[v]
  <2>1. Becomes(w, state, lock[w], e, r)
    OBVIOUS
  <2>2. lock[w] \in Locks \cup {NoLock} /\ e \in Engines \cup {NoEngine} /\ r \in BOOLEAN
    BY <1>1
  <2> QED
    BY ONLY w \in Workers, <1>1, <2>1, <2>2, BecomesOne
<1>3. lock' = lock /\ UNCHANGED holder
  BY <1>1 DEF ArbTypeOK, Becomes, lockVars
<1>4. ArbTypeOK'
  BY <1>1, <1>2 DEF ArbTypeOK, LockTypeOK, lockVars
<1>5. LocksApart'
  BY <1>2, <1>3 DEF ArbInv, LocksApart, InOffice
<1>6. KeyInv' /\ RefreshersHaveEngines'
  BY <1>2 DEF ArbInv, KeyInv, KeyHasTTL, RefreshersHaveEngines, lockVars
<1>7. FreshInv'
  BY <1>2, <1>3 DEF ArbInv, FreshInv, InOffice
<1> QED
  BY <1>2, <1>3, <1>4, <1>5, <1>6, <1>7

LEMMA ReapInv ==
  ASSUME ArbInv, NEW w \in Workers, ReapOrphans(w)
  PROVE  ArbInv'
<1>1. ArbTypeOK /\ pc[w] = "elected" /\ Becomes(w, "reaped", lock[w], NoEngine, FALSE)
      /\ UNCHANGED lockVars
  BY DEF ArbInv, ReapOrphans
<1>2. engine' \in [Engines -> {"none", "running", "terminating"}]
  BY <1>1 DEF ReapOrphans, ArbTypeOK
<1>3. happened \subseteq happened' /\ happened' \subseteq {Harm(kind) : kind \in Faults}
  BY <1>1 DEF ReapOrphans, Fault, NoFault, ArbTypeOK
<1>4. /\ ArbTypeOK' /\ LocksApart' /\ KeyInv' /\ RefreshersHaveEngines' /\ FreshInv'
      /\ UNCHANGED <<holder, lock>>
      /\ pc'[w] = "reaped" /\ proc'[w] = NoEngine
      /\ \A v \in Workers \ {w} : pc'[v] = pc[v] /\ proc'[v] = proc[v]
  BY <1>1, <1>2, <1>3, OfficeStep DEF InOffice
<1>5. SeenInv'
  <2> SUFFICES ASSUME "unseen engine" \notin happened' PROVE SeenInv'
    BY DEF SeenInv
  <2>1. engine' = [e \in Engines |->
                     IF engine[e] = "running" THEN "terminating" ELSE engine[e]]
    BY Harms DEF ReapOrphans, Fault
  <2>2. \A e \in Engines : ~Running(e)'
    BY <2>1 DEF Running
  <2>3. \A v \in Workers : Booting(v)' => holder' = lock'[v]
    BY <1>1, <1>3, <1>4 DEF ArbInv, SeenInv, Booting
  <2> QED
    BY <2>2, <2>3 DEF SeenInv, OneEngine
<1> QED
  BY <1>4, <1>5 DEF ArbInv

LEMMA SpawnInv ==
  ASSUME ArbInv, NEW w \in Workers, Spawn(w)
  PROVE  ArbInv'
<1>1. ArbTypeOK /\ pc[w] = "reaped" /\ UNCHANGED <<lockVars, happened>>
  BY DEF ArbInv, Spawn
<1>2. PICK e \in Engines : /\ engine' = Told(e, "running")
                           /\ Becomes(w, "leader", lock[w], e, lock[w] \notin Offline)
  BY DEF Spawn
<1>3. engine' = [engine EXCEPT ![e] = "running"]
      /\ engine' \in [Engines -> {"none", "running", "terminating"}]
  BY <1>1, <1>2 DEF Told, ArbTypeOK
<1>4. (lock[w] \notin Offline) \in BOOLEAN /\ e # NoEngine
  BY RefreshFacts
<1>5. /\ ArbTypeOK' /\ LocksApart' /\ KeyInv' /\ RefreshersHaveEngines' /\ FreshInv'
      /\ UNCHANGED <<holder, lock>>
      /\ pc'[w] = "leader"
      /\ \A v \in Workers \ {w} : pc'[v] = pc[v]
  BY <1>1, <1>2, <1>3, <1>4, OfficeStep DEF InOffice, ArbTypeOK
<1>6. SeenInv'
  <2> SUFFICES ASSUME "unseen engine" \notin happened PROVE SeenInv'
    BY <1>1 DEF SeenInv
  <2>1. \A f \in Engines : ~Running(f)
    BY <1>1 DEF ArbInv, SeenInv
  <2>2. \A v \in Workers \ {w} : ~Booting(v)
    BY <1>1, BootingAlone DEF Booting
  <2>3. \A v \in Workers : ~Booting(v)'
    BY <1>5, <2>2 DEF Booting
  <2>4. OneEngine'
    BY <1>3, <2>1 DEF OneEngine, Running, ArbInv, ArbTypeOK
  <2> QED
    BY <2>3, <2>4 DEF SeenInv, Booting
<1> QED
  BY <1>5, <1>6 DEF ArbInv

LEMMA SpawnFailsInv ==
  ASSUME ArbInv, NEW w \in Workers, SpawnFails(w)
  PROVE  ArbInv'
<1>1. /\ ArbTypeOK /\ pc[w] = "reaped" /\ UNCHANGED <<lockVars, engine>>
      /\ Becomes(w, "leader", lock[w], NoEngine, FALSE)
  BY DEF ArbInv, SpawnFails
<1>2. /\ happened \subseteq happened' /\ happened' \subseteq {Harm(kind) : kind \in Faults}
      /\ "stale lease" \in happened'
  BY <1>1, Harms DEF SpawnFails, Fault, ArbTypeOK
<1>3. /\ ArbTypeOK' /\ LocksApart' /\ KeyInv' /\ RefreshersHaveEngines' /\ FreshInv'
      /\ UNCHANGED <<holder, lock>>
      /\ pc'[w] = "leader"
      /\ \A v \in Workers \ {w} : pc'[v] = pc[v]
  BY <1>1, <1>2, OfficeStep DEF InOffice, ArbTypeOK
<1>4. SeenInv'
  BY <1>1, <1>2, <1>3 DEF ArbInv, SeenInv, OneEngine, Running, Booting
<1> QED
  BY <1>3, <1>4 DEF ArbInv

-----------------------------------------------------------------------------
(* From the engine to the end *)

\* What leaves the booting workers and the engines as they are, or takes some
\* away, keeps the engines apart.
LEMMA SeenKept ==
  ASSUME ArbInv, happened \subseteq happened',
         \A e \in Engines : Running(e)' => Running(e),
         \A w \in Workers : Booting(w)' => /\ pc'[w] = pc[w] /\ lock'[w] = lock[w]
                                           /\ holder = lock[w] => holder' = lock[w]
  PROVE  SeenInv'
<1> SUFFICES ASSUME "unseen engine" \notin happened' PROVE SeenInv'
  BY DEF SeenInv
<1>1. "unseen engine" \notin happened
  OBVIOUS
<1>2. OneEngine'
  BY <1>1 DEF ArbInv, SeenInv, OneEngine
<1>3. \A w \in Workers : Booting(w)' => holder' = lock'[w]
  BY <1>1 DEF ArbInv, SeenInv, Booting
<1>4. \A w \in Workers : pc'[w] = "reaped" => \A e \in Engines : ~Running(e)'
  BY <1>1 DEF ArbInv, SeenInv, Booting
<1> QED
  BY <1>2, <1>3, <1>4 DEF SeenInv

\* A script takes away, at most, the key of its own worker.
LEMMA OthersKeepKeys ==
  ASSUME ArbInv, NEW w \in Workers, InOffice(w), NEW v \in Workers \ {w}, InOffice(v),
         CasExpire(lock[w]) \/ CasDelete(lock[w]) \/ UNCHANGED <<holder, ttl>>,
         holder = lock[v]
  PROVE  holder' = lock[v]
<1>1. lock[v] # lock[w]
  BY OwnersAreOne DEF ArbInv
<1> QED
  BY <1>1 DEF CasExpire, CasDelete

LEMMA RefreshInv ==
  ASSUME ArbInv, NEW w \in Workers, Refresh(w)
  PROVE  ArbInv'
<1>1. /\ ArbTypeOK /\ LockTypeOK /\ pc[w] = "leader" /\ InOffice(w) /\ refreshing[w]
      /\ UNCHANGED <<acquired, confirmed, pc, lock, proc, engine>>
      /\ due' = [due EXCEPT ![w] = REFRESH_EVERY]
  BY DEF ArbInv, ArbTypeOK, Refresh, InOffice
<1>2. lock[w] \in Locks
  BY <1>1 DEF ArbInv, ArbTypeOK, LocksApart
<1>3. /\ CasExpire(lock[w]) \/ CasDelete(lock[w]) \/ UNCHANGED <<holder, ttl>>
      /\ \/ UNCHANGED refreshing
         \/ refreshing' = [refreshing EXCEPT ![w] = FALSE]
  BY DEF Refresh, RefreshKey, GiveUpKey
<1>4. /\ happened \subseteq happened' /\ happened' \subseteq {Harm(kind) : kind \in Faults}
  BY <1>1 DEF Refresh, GiveUpKey, Fault, NoFault, ArbTypeOK
<1>5. LockTypeOK' /\ KeyInv'
  BY <1>1, <1>2, <1>3, ScriptsKeepTypes DEF ArbInv, LockTypeOK
<1>6. ArbTypeOK'
  <2>1. due' \in [Workers -> 0..REFRESH_EVERY]
    BY <1>1, RefreshFacts DEF ArbTypeOK
  <2>2. refreshing' \in [Workers -> BOOLEAN]
    BY <1>1, <1>3 DEF ArbTypeOK
  <2> QED
    BY <1>1, <1>4, <1>5, <2>1, <2>2 DEF ArbTypeOK
<1>7. LocksApart' /\ RefreshersHaveEngines'
  BY <1>1, <1>3 DEF ArbInv, ArbTypeOK, LocksApart, InOffice, RefreshersHaveEngines
<1>8. SeenInv'
  <2>1. ASSUME NEW v \in Workers, Booting(v)', holder = lock[v] PROVE holder' = lock[v]
    <3>1. v # w /\ InOffice(v)
      BY <1>1, <2>1 DEF Booting, InOffice
    <3> QED
      BY <1>1, <1>3, <2>1, <3>1, OthersKeepKeys
  <2> QED
    BY <1>1, <1>4, <2>1, SeenKept DEF Running
<1>9. FreshInv'
  <2> SUFFICES ASSUME "stale lease" \notin happened' PROVE FreshInv'
    BY DEF FreshInv
  <2>1. holder' # NoLock => holder' = holder
    BY <1>3 DEF CasExpire, CasDelete
  <2> QED
    BY <1>1, <1>4, <2>1 DEF ArbInv, FreshInv, InOffice
<1> QED
  BY <1>6, <1>5, <1>7, <1>8, <1>9 DEF ArbInv

LEMMA ShutdownInv ==
  ASSUME ArbInv, NEW w \in Workers, Shutdown(w)
  PROVE  ArbInv'
<1>1. ArbTypeOK /\ UNCHANGED <<lockVars, happened>>
  BY DEF ArbInv, Shutdown
<1>2. CASE pc[w] = "leader"
  <2>1. /\ Becomes(w, "stopping", lock[w], proc[w], FALSE)
        /\ engine' = [e \in Engines |->
                        IF e = proc[w] /\ engine[e] = "running" THEN "terminating"
                                                                ELSE engine[e]]
    BY <1>2 DEF Shutdown
  <2>2. engine' \in [Engines -> {"none", "running", "terminating"}]
    BY <1>1, <2>1 DEF ArbTypeOK
  <2>3. proc[w] \in Engines \cup {NoEngine}
    BY <1>1 DEF ArbTypeOK
  <2>4. proc[w] = NoEngine => "stale lease" \in happened'
    BY <1>1, <1>2 DEF ArbInv, FreshInv
  <2>5. /\ ArbTypeOK' /\ LocksApart' /\ KeyInv' /\ RefreshersHaveEngines' /\ FreshInv'
        /\ UNCHANGED <<holder, lock>>
        /\ pc'[w] = "stopping"
        /\ \A v \in Workers \ {w} : pc'[v] = pc[v]
    BY <1>1, <1>2, <2>1, <2>2, <2>3, <2>4, OfficeStep DEF InOffice, ArbTypeOK
  <2>6. \A e \in Engines : Running(e)' => Running(e)
    BY <2>1 DEF Running
  <2>7. SeenInv'
    BY <1>1, <2>5, <2>6, SeenKept DEF Booting
  <2> QED
    BY <2>5, <2>7 DEF ArbInv
<1>3. CASE pc[w] # "leader"
  <2>1. /\ pc[w] = "follower" /\ Becomes(w, "down", NoLock, NoEngine, FALSE)
        /\ UNCHANGED engine
    BY <1>3 DEF Shutdown
  <2>2. /\ pc' \in [Workers -> WorkerStates]
        /\ lock' \in [Workers -> Locks \cup {NoLock}]
        /\ proc' \in [Workers -> Engines \cup {NoEngine}]
        /\ due' \in [Workers -> 0..REFRESH_EVERY]
        /\ refreshing' \in [Workers -> BOOLEAN]
        /\ pc'[w] = "down" /\ lock'[w] = NoLock /\ proc'[w] = NoEngine
        /\ refreshing'[w] = FALSE
        /\ \A v \in Workers \ {w} : /\ pc'[v] = pc[v] /\ lock'[v] = lock[v]
                                    /\ proc'[v] = proc[v] /\ refreshing'[v] = refreshing[v]
    BY <1>1, <2>1, BecomesOne DEF WorkerStates
  <2>3. ArbTypeOK'
    BY <1>1, <2>1, <2>2 DEF ArbTypeOK, LockTypeOK, lockVars
  <2>4. LocksApart' /\ KeyInv' /\ RefreshersHaveEngines'
    BY <1>1, <2>1, <2>2
    DEF ArbInv, LocksApart, InOffice, KeyInv, KeyHasTTL, RefreshersHaveEngines, lockVars
  <2>5. SeenInv'
    <3>1. UNCHANGED <<holder, engine, happened>>
      BY <1>1, <2>1 DEF lockVars
    <3> QED
      BY <2>2, <3>1, SeenKept DEF Booting, Running
  <2>6. FreshInv'
    BY <1>1, <2>1, <2>2 DEF ArbInv, FreshInv, InOffice, lockVars
  <2> QED
    BY <2>3, <2>4, <2>5, <2>6 DEF ArbInv
<1> QED
  BY <1>2, <1>3

LEMMA GoesDownInv ==
  ASSUME ArbInv, NEW w \in Workers, DeleteKey(w) \/ Crash(w)
  PROVE  ArbInv'
<1>1. ArbTypeOK /\ LockTypeOK /\ GoesDown(w) /\ pc[w] # "down" /\ UNCHANGED confirmed
  BY DEF ArbInv, ArbTypeOK, DeleteKey, Crash
<1>2. /\ acquired' = [l \in Locks |-> acquired[l] /\ l # lock[w]]
      /\ Becomes(w, "down", NoLock, NoEngine, FALSE)
  BY <1>1 DEF GoesDown
<1>3. /\ pc' \in [Workers -> WorkerStates]
      /\ lock' \in [Workers -> Locks \cup {NoLock}]
      /\ proc' \in [Workers -> Engines \cup {NoEngine}]
      /\ due' \in [Workers -> 0..REFRESH_EVERY]
      /\ refreshing' \in [Workers -> BOOLEAN]
      /\ pc'[w] = "down" /\ lock'[w] = NoLock /\ proc'[w] = NoEngine
      /\ refreshing'[w] = FALSE
      /\ \A v \in Workers \ {w} : /\ pc'[v] = pc[v] /\ lock'[v] = lock[v]
                                  /\ proc'[v] = proc[v] /\ refreshing'[v] = refreshing[v]
  BY <1>1, <1>2, BecomesOne DEF WorkerStates
<1>4. \/ /\ DeleteKey(w) /\ InOffice(w)
         /\ CasDelete(lock[w]) \/ UNCHANGED <<holder, ttl>>
      \/ Crash(w) /\ UNCHANGED <<holder, ttl, engine>>
  BY DEF DeleteKey, Crash, InOffice
<1>5. engine' \in [Engines -> {"none", "running", "terminating"}]
      /\ \A e \in Engines : Running(e)' => Running(e)
  BY <1>1 DEF DeleteKey, Crash, ArbTypeOK, Running
<1>6. /\ happened \subseteq happened' /\ happened' \subseteq {Harm(kind) : kind \in Faults}
  BY <1>1, FaultsStay DEF ArbNext, WorkerStep
<1>7. LockTypeOK' /\ KeyInv'
  <2>1. acquired' \in [Locks -> BOOLEAN]
    BY <1>2
  <2>2. CASE UNCHANGED <<holder, ttl>>
    BY <1>1, <2>1, <2>2 DEF LockTypeOK, ArbInv, KeyInv, KeyHasTTL
  <2>3. CASE InOffice(w) /\ CasDelete(lock[w])
    <3>1. lock[w] \in Locks
      BY <1>1, <2>3 DEF ArbInv, ArbTypeOK, LocksApart
    <3> QED
      BY <1>1, <2>1, <2>3, <3>1, ScriptsKeepTypes DEF ArbInv
  <2> QED
    BY <1>4, <2>2, <2>3
<1>8. ArbTypeOK'
  BY <1>3, <1>5, <1>6, <1>7 DEF ArbTypeOK
<1>9. LocksApart' /\ RefreshersHaveEngines'
  BY <1>3 DEF ArbInv, LocksApart, InOffice, RefreshersHaveEngines
<1>10. SeenInv'
  <2>1. ASSUME NEW v \in Workers, Booting(v)', holder = lock[v] PROVE holder' = lock[v]
    <3>1. v # w /\ InOffice(v)
      BY <1>3, <2>1 DEF Booting, InOffice
    <3> QED
      BY <1>4, <2>1, <3>1, OthersKeepKeys
  <2> QED
    BY <1>3, <1>5, <1>6, <2>1, SeenKept DEF Booting
<1>11. FreshInv'
  <2> SUFFICES ASSUME "stale lease" \notin happened' PROVE FreshInv'
    BY DEF FreshInv
  <2>1. DeleteKey(w) /\ InOffice(w) /\ pc[w] = "stopping"
    BY <1>4, Harms DEF Crash, Fault, DeleteKey
  <2>2. proc[w] # NoEngine
    BY <1>6, <2>1 DEF ArbInv, FreshInv
  <2>3. lock[w] \in Offline \/ CasDelete(lock[w])
    BY <2>1, <2>2, Harms DEF DeleteKey, Fault
  <2>4. holder' # NoLock => holder' = holder /\ holder # lock[w]
    BY <1>4, <2>1, <2>3 DEF CasDelete, ArbInv, KeyInv
  <2> QED
    BY <1>3, <1>6, <2>4 DEF ArbInv, FreshInv, InOffice
<1> QED
  BY <1>7, <1>8, <1>9, <1>10, <1>11 DEF ArbInv

LEMMA ExitsInv ==
  ASSUME ArbInv, NEW e \in Engines, EngineExits(e)
  PROVE  ArbInv'
<1>1. /\ ArbTypeOK /\ UNCHANGED <<lockVars, workerVars>>
      /\ engine' = [engine EXCEPT ![e] = "none"]
  BY DEF ArbInv, EngineExits, Told
<1>2. UNCHANGED <<holder, ttl, acquired, confirmed, pc, lock, proc, due, refreshing>>
  BY <1>1 DEF lockVars, workerVars
<1>3. /\ happened \subseteq happened' /\ happened' \subseteq {Harm(kind) : kind \in Faults}
  BY <1>1, FaultsStay DEF ArbNext
<1>4. /\ engine' \in [Engines -> {"none", "running", "terminating"}]
      /\ \A f \in Engines : Running(f)' => Running(f)
  BY <1>1 DEF ArbTypeOK, Running
<1>5. ArbTypeOK'
  BY <1>1, <1>2, <1>3, <1>4 DEF ArbTypeOK, LockTypeOK
<1>6. LocksApart' /\ KeyInv' /\ RefreshersHaveEngines'
  BY <1>2 DEF ArbInv, LocksApart, InOffice, KeyInv, KeyHasTTL, RefreshersHaveEngines
<1>7. SeenInv'
  BY <1>2, <1>3, <1>4, SeenKept DEF Booting
<1>8. FreshInv'
  BY <1>2, <1>3 DEF ArbInv, FreshInv, InOffice
<1> QED
  BY <1>5, <1>6, <1>7, <1>8 DEF ArbInv

\* While no worker is held up, nobody is booting in a tick.
LEMMA TimeInv ==
  ASSUME ArbInv, TimePasses
  PROVE  ArbInv'
<1>1. /\ ArbTypeOK /\ LockTypeOK /\ Tick /\ UNCHANGED <<pc, lock, proc, refreshing, engine>>
      /\ due' = [w \in Workers |-> IF refreshing[w] /\ due[w] > 0 THEN due[w] - 1 ELSE due[w]]
  BY DEF ArbInv, ArbTypeOK, TimePasses
<1>2. due' \in [Workers -> 0..REFRESH_EVERY]
  <2>1. \A w \in Workers : due[w] \in 0..REFRESH_EVERY
    BY <1>1 DEF ArbTypeOK
  <2> QED
    BY <1>1, <2>1, RefreshFacts
<1>3. /\ happened \subseteq happened' /\ happened' \subseteq {Harm(kind) : kind \in Faults}
  BY <1>1, FaultsStay DEF ArbNext
<1>4. LockTypeOK' /\ KeyInv'
  <2>1. LockTypeOK'
    BY <1>1, TickKeepsTypes
  <2>2. holder' = NoLock \/ holder' = holder
    BY <1>1 DEF Tick
  <2>3. KeyHasTTL'
    BY <1>1, TTLFacts DEF Tick, ArbInv, KeyInv, KeyHasTTL, LockTypeOK
  <2> QED
    BY <2>1, <2>2, <2>3, TTLFacts DEF ArbInv, KeyInv
<1>5. ArbTypeOK'
  BY <1>1, <1>2, <1>3, <1>4 DEF ArbTypeOK
<1>6. LocksApart' /\ RefreshersHaveEngines'
  BY <1>1 DEF ArbInv, LocksApart, InOffice, RefreshersHaveEngines
<1>7. SeenInv'
  <2> SUFFICES ASSUME "unseen engine" \notin happened' PROVE SeenInv'
    BY DEF SeenInv
  <2>1. \A w \in Workers : Prompt(w)
    BY Harms DEF TimePasses, Fault
  <2>2. \A w \in Workers : ~Booting(w)'
    BY <1>1, <2>1 DEF Booting, Prompt
  <2> QED
    BY <1>1, <1>3, <2>2, SeenKept DEF Running
<1>8. FreshInv'
  <2>1. holder' # NoLock => holder' = holder
    BY <1>1 DEF Tick
  <2> QED
    BY <1>1, <1>3, <2>1 DEF ArbInv, FreshInv, InOffice
<1> QED
  BY <1>4, <1>5, <1>6, <1>7, <1>8 DEF ArbInv

-----------------------------------------------------------------------------
(* The theorems *)

LEMMA ArbInitInv == ArbInit => ArbInv
<1> SUFFICES ASSUME ArbInit PROVE ArbInv
  OBVIOUS
<1>1. ArbTypeOK
  BY RefreshFacts, TTLFacts
  DEF ArbInit, ArbTypeOK, LockInit, LockTypeOK, WorkerStates
<1>2. LocksApart /\ RefreshersHaveEngines /\ SeenInv /\ FreshInv
  BY DEF ArbInit, LockInit, LocksApart, InOffice, RefreshersHaveEngines, SeenInv, FreshInv,
         OneEngine, Running, Booting
<1>3. KeyInv
  BY TTLFacts DEF ArbInit, LockInit, KeyInv, KeyHasTTL
<1> QED
  BY <1>1, <1>2, <1>3 DEF ArbInv

LEMMA ArbStepInv == ArbInv /\ [ArbNext]_vars => ArbInv'
<1> SUFFICES ASSUME ArbInv, [ArbNext]_vars PROVE ArbInv'
  OBVIOUS
<1>1. CASE UNCHANGED vars
  BY <1>1 DEF vars, lockVars, workerVars, ArbInv, ArbTypeOK, LockTypeOK, LocksApart, InOffice,
              KeyInv, KeyHasTTL, RefreshersHaveEngines, SeenInv, FreshInv, OneEngine, Running,
              Booting
<1>2. ASSUME NEW w \in Workers, Elect(w) PROVE ArbInv'
  BY <1>2, WinsInv, LosesInv, OfflineInv DEF Elect
<1>3. ASSUME NEW w \in Workers, WorkerStep(w) PROVE ArbInv'
  BY <1>2, <1>3, ReapInv, SpawnInv, SpawnFailsInv, RefreshInv, GoesDownInv DEF WorkerStep
<1> QED
  BY <1>1, <1>3, ShutdownInv, GoesDownInv, ExitsInv, TimeInv DEF ArbNext

THEOREM ArbInvariant == ArbSpec => []ArbInv
  BY ArbInitInv, ArbStepInv, PTL DEF ArbSpec

\* "Without this, two engines would compound": for any number of workers and
\* engines, whatever dies, cannot be spawned or does not answer, one engine runs
\* at a time that was not told to stop, as long as the scan for orphans works, no
\* worker is held up and Redis was there at boot.
THEOREM OneEngineRuns == ArbSpec => []OneEngineUnlessBlind
<1>1. ArbInv => OneEngineUnlessBlind
  BY DEF ArbInv, SeenInv, OneEngineUnlessBlind
<1> QED
  BY <1>1, ArbInvariant, PTL

\* "A clean restart never sees a stale lease": without crashes, lost commands and
\* failed spawns, the key belongs to a worker that is up.
THEOREM LeasesAreFresh == ArbSpec => []NoStaleLease
<1>1. ArbInv => NoStaleLease
  BY DEF ArbInv, ArbTypeOK, WorkerStates, FreshInv, NoStaleLease, InOffice
<1> QED
  BY <1>1, ArbInvariant, PTL

\* Nobody takes a live leader's key away, and nobody but the leader itself makes
\* it live longer, whatever went wrong and however long a worker was held up.
THEOREM OnlyOwnersTouch == ArbSpec => OnlyOwnerTouches
<1>1. ASSUME ArbInv, [ArbNext]_vars
      PROVE  [\A w \in Workers : pc[w] = "leader" /\ pc'[w] = "leader" /\ holder = lock[w] =>
                /\ holder' # lock[w] => ttl = 1 \/ (proc[w] # NoEngine /\ ~Running(proc[w]))
                /\ ttl' > ttl => due[w] = 0]_vars
  <2> SUFFICES ASSUME ArbNext, NEW w \in Workers, pc[w] = "leader", pc'[w] = "leader",
                      holder = lock[w]
               PROVE  /\ holder' # lock[w] =>
                            ttl = 1 \/ (proc[w] # NoEngine /\ ~Running(proc[w]))
                      /\ ttl' > ttl => due[w] = 0
    BY <1>1
  <2>1. LockTypeOK /\ InOffice(w) /\ holder # NoLock /\ ttl > 0 /\ ttl \in Nat /\ ttl <= TTL
    BY <1>1, TTLFacts
    DEF ArbInv, ArbTypeOK, LockTypeOK, InOffice, LocksApart, KeyInv, KeyHasTTL
  <2>2. CASE UNCHANGED <<holder, ttl>>
    BY <2>1, <2>2
  <2>3. CASE Tick
    BY <2>1, <2>3 DEF Tick
  <2>4. ASSUME NEW v \in Workers, Elect(v) PROVE UNCHANGED <<holder, ttl>>
    BY <2>1, <2>4
    DEF Elect, Wins, Loses, BootsOffline, acquire, AcquireReplyLost, SetNX, lockVars
  <2>5. ASSUME NEW v \in Workers \ {w}, InOffice(v),
               CasExpire(lock[v]) \/ CasDelete(lock[v])
        PROVE  UNCHANGED <<holder, ttl>>
    <3>1. lock[v] # lock[w]
      BY <1>1, <2>1, <2>5, OwnersAreOne DEF ArbInv
    <3> QED
      BY <2>5, <3>1 DEF CasExpire, CasDelete
  <2>6. CASE Refresh(w)
    <3>1. due[w] = 0 /\ proc[w] # NoEngine
      BY <1>1, <2>6 DEF Refresh, ArbInv, RefreshersHaveEngines
    <3>2. holder' # lock[w] => engine[proc[w]] = "none"
      BY <2>6 DEF Refresh, RefreshKey, GiveUpKey, CasExpire
    <3> QED
      BY <3>1, <3>2 DEF Running
  <2>7. ASSUME NEW v \in Workers \ {w}, Refresh(v)
        PROVE  UNCHANGED <<holder, ttl>>
    <3>1. InOffice(v)
      BY <2>7 DEF Refresh, InOffice
    <3>2. CasExpire(lock[v]) \/ CasDelete(lock[v]) \/ UNCHANGED <<holder, ttl>>
      BY <2>7 DEF Refresh, RefreshKey, GiveUpKey
    <3> QED
      BY <2>5, <3>1, <3>2
  <2>8. ASSUME NEW v \in Workers, DeleteKey(v) PROVE UNCHANGED <<holder, ttl>>
    <3>1. v # w /\ InOffice(v)
      BY <2>8 DEF DeleteKey, InOffice
    <3> QED
      BY <2>5, <2>8, <3>1 DEF DeleteKey
  <2>9. ASSUME NEW v \in Workers,
               \/ ReapOrphans(v) \/ Spawn(v) \/ SpawnFails(v) \/ Shutdown(v) \/ Crash(v)
        PROVE  UNCHANGED <<holder, ttl>>
    BY <2>9 DEF ReapOrphans, Spawn, SpawnFails, Shutdown, Crash, lockVars
  <2>10. \A e \in Engines : EngineExits(e) => UNCHANGED <<holder, ttl>>
    BY DEF EngineExits, lockVars
  <2> QED
    BY <2>2, <2>3, <2>4, <2>6, <2>7, <2>8, <2>9, <2>10 DEF ArbNext, WorkerStep, TimePasses
<1> QED
  BY <1>1, ArbInvariant, PTL DEF ArbSpec, OnlyOwnerTouches

-----------------------------------------------------------------------------
(* A lease on the host *)

\* An engine runs that did not run before only by a spawn.
LEMMA OnlySpawnsRun ==
  ASSUME ArbInv, [ArbNext]_vars, NEW e \in Engines, Running(e)', ~Running(e)
  PROVE  \E w \in Workers : Spawn(w)
<1>1. engine \in [Engines -> {"none", "running", "terminating"}]
  BY DEF ArbInv, ArbTypeOK
<1>2. ASSUME NEW w \in Workers, ReapOrphans(w) \/ Shutdown(w) \/ DeleteKey(w) PROVE FALSE
  BY <1>1, <1>2 DEF ReapOrphans, Shutdown, DeleteKey, Running
<1>3. ASSUME NEW f \in Engines, EngineExits(f) PROVE FALSE
  BY <1>1, <1>3 DEF EngineExits, Told, Running
<1>4. ASSUME UNCHANGED engine PROVE FALSE
  BY <1>4 DEF Running
<1> QED
  BY <1>2, <1>3, <1>4
  DEF ArbNext, WorkerStep, Elect, SpawnFails, Refresh, Crash, TimePasses, vars

\* What the election is for, as an abstract lease that the engine processes hold by
\* running.
RunningEngines == INSTANCE Lease WITH Locks <- Engines, leaders <- {e \in Engines : Running(e)}

\* The engine of one leader is told to stop, or ends, before the next one's starts:
\* as long as no engine goes unseen, whatever else goes wrong.
THEOREM EnginesAreLeased ==
    ArbSpec /\ []("unseen engine" \notin happened) => RunningEngines!LeaseSpec
<1> DEFINE running == {e \in Engines : Running(e)}
           seen == "unseen engine" \notin happened
<1>1. ArbInit => running = {}
  BY DEF ArbInit, Running
<1>2. ASSUME ArbInv, ArbInv', seen, seen', [ArbNext]_vars
      PROVE  [RunningEngines!Grant \/ RunningEngines!Lose]_running
  <2>1. \A e, f \in Engines : /\ Running(e) /\ Running(f) => e = f
                              /\ Running(e)' /\ Running(f)' => e = f
    BY <1>2 DEF ArbInv, SeenInv, OneEngine
  <2>2. CASE running = {}
    BY <2>1, <2>2 DEF RunningEngines!Grant
  <2>3. CASE running # {}
    <3>1. ~\E w \in Workers : Spawn(w)
      BY <1>2, <2>3 DEF ArbInv, SeenInv, Spawn
    <3>2. \A e \in Engines : Running(e)' => Running(e)
      BY <1>2, <3>1, OnlySpawnsRun
    <3>3. PICK e \in Engines : Running(e)
      BY <2>3
    <3>4. running = {e}
      BY <2>1, <3>3
    <3>5. \A f \in Engines : Running(f)' => f = e
      BY <2>1, <3>2, <3>3
    <3>6. running' = {} \/ running' = {e}
      BY <3>5
    <3> QED
      BY <3>4, <3>6 DEF RunningEngines!Lose
  <2> QED
    BY <2>2, <2>3
<1>3. ArbInit => RunningEngines!LeaseInit
  BY <1>1 DEF RunningEngines!LeaseInit
<1> HIDE DEF running
<1>4. ArbInv /\ ArbInv' /\ seen /\ seen' /\ [ArbNext]_vars
        => [RunningEngines!Grant \/ RunningEngines!Lose]_running
  BY <1>2
<1> QED
  BY <1>3, <1>4, ArbInvariant, PTL DEF ArbSpec, RunningEngines!LeaseSpec, running
=============================================================================
