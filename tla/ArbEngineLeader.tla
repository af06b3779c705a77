--------------------------- MODULE ArbEngineLeader ---------------------------
(***************************************************************************)
(* The cross-venue arb engine, a subprocess of the gunicorn worker that    *)
(* wins the RedisLock at boot (main.py, lifespan).  The winner terminates  *)
(* the engines it finds, spawns its own, and refreshes the lease with its  *)
(* own compare-and-expire script while the engine is alive; its shutdown   *)
(* stops the engine and compare-and-deletes the key.  The instance's       *)
(* acquired flag is not used after the election.  A worker that dies       *)
(* leaves its engine running.  All workers run on one host.                *)
(***************************************************************************)
EXTENDS RedisLock

CONSTANTS
    Workers,
    GUNICORN_WORKERS, \* how many workers each worker takes them to be: the
                    \* environment variable, 1 where it is not set
    Engines,        \* engine processes: a pool, of which no more run at once
    NoEngine,       \* no arb_engine_proc
    REFRESH_EVERY,  \* ticks between two refreshes: the ttl // 3 of the code
    Faults          \* what may go wrong: a subset of FaultKinds

FaultKinds ==
    {"crash",       \* a worker dies without its shutdown
     "engine",      \* an engine dies
     "spawn",       \* an engine cannot be spawned
     "scan",        \* the scan for orphans cannot run: no pgrep on the host
     "stall",       \* a worker is held up for longer than a tick
     "redis",       \* a command fails
     "offline"}     \* a worker boots without Redis

\* What a fault may do to the election.
Harm(kind) ==
    CASE kind \in {"scan", "stall", "offline"} -> "unseen engine"
      [] kind \in {"crash", "redis", "spawn"}  -> "stale lease"
      [] kind = "engine"                       -> "lost engine"

ASSUME ArbAssumption ==
    /\ GUNICORN_WORKERS \in Nat \ {0}
    /\ NoEngine \notin Engines
    /\ REFRESH_EVERY \in 1..TTL
    /\ Faults \subseteq FaultKinds

VARIABLES
    pc,             \* where each worker is in its lifespan
    lock,           \* the RedisLock whose token it won with
    proc,           \* its app.state.arb_engine_proc
    due,            \* ticks until its refresher wakes
    refreshing,     \* its refresher runs
    engine,         \* the state of every process of the pool
    happened        \* history: the harm that faults may have done so far

workerVars == <<pc, lock, proc, due, refreshing>>
vars == <<lockVars, workerVars, engine, happened>>

WorkerStates ==
    {"down",
     "elected",     \* leader, before the scan for orphans
     "reaped",      \* leader, before the spawn
     "leader",      \* booted as the leader
     "stopping",    \* the engine was told to stop, the key is not deleted yet
     "follower"}

ArbTypeOK ==
    /\ LockTypeOK
    /\ pc \in [Workers -> WorkerStates]
    /\ lock \in [Workers -> Locks \cup {NoLock}]
    /\ proc \in [Workers -> Engines \cup {NoEngine}]
    /\ due \in [Workers -> 0..REFRESH_EVERY]
    /\ refreshing \in [Workers -> BOOLEAN]
    /\ engine \in [Engines -> {"none", "running", "terminating"}]
    /\ happened \subseteq {Harm(kind) : kind \in Faults}

ArbInit ==
    /\ LockInit
    /\ pc = [w \in Workers |-> "down"]
    /\ lock = [w \in Workers |-> NoLock]
    /\ proc = [w \in Workers |-> NoEngine]
    /\ due = [w \in Workers |-> REFRESH_EVERY]
    /\ refreshing = [w \in Workers |-> FALSE]
    /\ engine = [e \in Engines |-> "none"]
    /\ happened = {}

-----------------------------------------------------------------------------

Fault(kind) == kind \in Faults /\ happened' = happened \cup {Harm(kind)}
NoFault == UNCHANGED happened

\* A token of pid, boot time and nonce that nobody has.
Unused(l) == ~acquired[l] /\ holder # l /\ \A w \in Workers : lock[w] # l

\* Unused tokens are alike: one of them, with or without a client, will do.
New(l) ==
    /\ Unused(l)
    /\ l = CHOOSE m \in Locks : Unused(m) /\ (m \in Offline <=> l \in Offline)

Becomes(w, state, l, e, refresh) ==
    /\ pc' = [pc EXCEPT ![w] = state]
    /\ lock' = [lock EXCEPT ![w] = l]
    /\ proc' = [proc EXCEPT ![w] = e]
    /\ due' = [due EXCEPT ![w] = REFRESH_EVERY]
    /\ refreshing' = [refreshing EXCEPT ![w] = refresh]

\* The worker goes away, and with it its RedisLock.
GoesDown(w) ==
    /\ acquired' = [l \in Locks |-> acquired[l] /\ l # lock[w]]
    /\ Becomes(w, "down", NoLock, NoEngine, FALSE)

Told(e, state) == [engine EXCEPT ![e] = state]

Wins(w) ==
    \E l \in Locks \ Offline :
        /\ New(l) /\ acquire(l) /\ NoFault
        /\ Becomes(w, "elected", l, NoEngine, FALSE)

\* The key is taken, or the SET fails before or after Redis executes it.
Loses(w) ==
    /\ \/ holder # NoLock /\ UNCHANGED lockVars /\ NoFault
       \/ Fault("redis") /\ UNCHANGED lockVars
       \/ Fault("redis") /\ \E l \in Locks : New(l) /\ AcquireReplyLost(l)
    /\ Becomes(w, "follower", NoLock, NoEngine, FALSE)

\* Without Redis nobody is elected but a worker that takes itself for the only one.
BootsOffline(w) ==
    /\ Fault("offline") /\ UNCHANGED lockVars
    /\ \E l \in Offline :
         /\ New(l)
         /\ IF GUNICORN_WORKERS = 1 THEN Becomes(w, "elected", l, NoEngine, FALSE)
                                    ELSE Becomes(w, "follower", NoLock, NoEngine, FALSE)

Elect(w) == pc[w] = "down" /\ (Wins(w) \/ Loses(w) \/ BootsOffline(w)) /\ UNCHANGED engine

\* (mutant) no scan for orphans.
ReapOrphans_None(w) ==
    /\ pc[w] = "elected"
    /\ UNCHANGED <<lockVars, engine, happened>>
    /\ Becomes(w, "reaped", lock[w], NoEngine, FALSE)

\* SIGTERM to every engine on the host, whosever it is; the error of a scan that
\* cannot run is logged.
ReapOrphans(w) ==
    /\ pc[w] = "elected"
    /\ \/ engine' = [e \in Engines |->
                        IF engine[e] = "running" THEN "terminating" ELSE engine[e]] /\ NoFault
       \/ UNCHANGED engine /\ Fault("scan")
    /\ Becomes(w, "reaped", lock[w], NoEngine, FALSE)
    /\ UNCHANGED lockVars

Free(e) == engine[e] = "none" /\ \A v \in Workers : proc[v] # e

Spawn(w) ==
    /\ pc[w] = "reaped"
    /\ \E e \in Engines :
         /\ Free(e) /\ e = CHOOSE f \in Engines : Free(f)
         /\ engine' = Told(e, "running")
         /\ Becomes(w, "leader", lock[w], e, lock[w] \notin Offline)
    /\ UNCHANGED <<lockVars, happened>>

\* The error of Popen is logged; the worker stays arb_is_leader.
SpawnFails(w) ==
    /\ Fault("spawn")
    /\ pc[w] = "reaped"
    /\ Becomes(w, "leader", lock[w], NoEngine, FALSE)
    /\ UNCHANGED <<lockVars, engine>>

\* (mutant) "blindly called EXPIRE on whatever key existed".
RefreshKey_Blind(w) ==
    /\ engine[proc[w]] # "none"
    /\ IF holder # NoLock
       THEN ttl' = TTL /\ UNCHANGED <<holder, refreshing>>
       ELSE refreshing' = [refreshing EXCEPT ![w] = FALSE] /\ UNCHANGED <<holder, ttl>>

\* Compare-and-expire while the engine lives; a refused one ends the refresher.
RefreshKey(w) ==
    /\ engine[proc[w]] # "none"
    /\ \/ CasExpire(lock[w]) /\ UNCHANGED refreshing
       \/ /\ holder # lock[w]
          /\ refreshing' = [refreshing EXCEPT ![w] = FALSE]
          /\ UNCHANGED <<holder, ttl>>

\* The engine is dead: compare-and-delete, and the refresher ends.
GiveUpKey(w) ==
    /\ engine[proc[w]] = "none"
    /\ \/ CasDelete(lock[w]) /\ NoFault
       \/ Fault("redis") /\ UNCHANGED <<holder, ttl>>
    /\ refreshing' = [refreshing EXCEPT ![w] = FALSE]

\* The refresher wakes.  A command that fails, before or after Redis executes it,
\* is tried again at the next wake.
Refresh(w) ==
    /\ pc[w] = "leader" /\ refreshing[w] /\ due[w] = 0
    /\ \/ RefreshKey(w) /\ NoFault
       \/ GiveUpKey(w)
       \/ /\ Fault("redis") /\ engine[proc[w]] # "none"
          /\ CasExpire(lock[w]) \/ UNCHANGED <<holder, ttl>>
          /\ UNCHANGED refreshing
    /\ due' = [due EXCEPT ![w] = REFRESH_EVERY]
    /\ UNCHANGED <<acquired, confirmed, pc, lock, proc, engine>>

\* Graceful shutdown: the refresher is cancelled, the engine told to stop ...
Shutdown(w) ==
    /\ \/ /\ pc[w] = "leader"
          /\ Becomes(w, "stopping", lock[w], proc[w], FALSE)
          /\ engine' = [e \in Engines |->
                          IF e = proc[w] /\ engine[e] = "running" THEN "terminating"
                                                                  ELSE engine[e]]
       \/ /\ pc[w] = "follower"
          /\ Becomes(w, "down", NoLock, NoEngine, FALSE)
          /\ UNCHANGED engine
    /\ UNCHANGED <<lockVars, happened>>

\* (mutant) the key is left to expire.
DeleteKey_Never(w) ==
    /\ pc[w] = "stopping"
    /\ engine' = [e \in Engines |-> IF e = proc[w] THEN "none" ELSE engine[e]]
    /\ UNCHANGED <<holder, ttl, confirmed, happened>>
    /\ GoesDown(w)

\* ... waited for, killed if need be, and the key compare-and-deleted.  A leader
\* that spawned nothing deletes nothing.
DeleteKey(w) ==
    /\ pc[w] = "stopping"
    /\ engine' = [e \in Engines |-> IF e = proc[w] THEN "none" ELSE engine[e]]
    /\ IF proc[w] = NoEngine \/ lock[w] \in Offline
       THEN UNCHANGED <<holder, ttl, happened>>
       ELSE \/ CasDelete(lock[w]) /\ NoFault
            \/ UNCHANGED <<holder, ttl>> /\ Fault("redis")
    /\ UNCHANGED confirmed
    /\ GoesDown(w)

\* The engine is not told.
Crash(w) ==
    /\ Fault("crash")
    /\ pc[w] # "down"
    /\ GoesDown(w)
    /\ UNCHANGED <<holder, ttl, confirmed, engine>>

\* An engine exits, because it was told to or by itself.
EngineExits(e) ==
    /\ \/ engine[e] = "terminating" /\ NoFault
       \/ engine[e] = "running" /\ Fault("engine")
    /\ engine' = Told(e, "none")
    /\ UNCHANGED <<lockVars, workerVars>>

\* Unless a worker may stall, it is never late by a whole tick.
Prompt(w) ==
    /\ pc[w] \notin {"elected", "reaped", "stopping"}
    /\ ~(refreshing[w] /\ due[w] = 0)

TimePasses ==
    /\ IF \A w \in Workers : Prompt(w) THEN NoFault ELSE Fault("stall")
    /\ Tick
    /\ due' = [w \in Workers |-> IF refreshing[w] /\ due[w] > 0 THEN due[w] - 1 ELSE due[w]]
    /\ UNCHANGED <<pc, lock, proc, refreshing, engine>>

WorkerStep(w) ==
    Elect(w) \/ ReapOrphans(w) \/ Spawn(w) \/ SpawnFails(w) \/ Refresh(w) \/ DeleteKey(w)

ArbNext ==
    \/ \E w \in Workers : WorkerStep(w) \/ Shutdown(w) \/ Crash(w)
    \/ \E e \in Engines : EngineExits(e)
    \/ TimePasses

ArbSpec == ArbInit /\ [][ArbNext]_vars

\* The master boots every worker that went away, a worker carries out what it has
\* begun, and an engine that was told to stop does; nothing makes a worker shut
\* down or die.
FairArbSpec ==
    /\ ArbSpec
    /\ \A w \in Workers : WF_vars(WorkerStep(w))
    /\ \A e \in Engines : WF_vars(engine[e] = "terminating" /\ EngineExits(e))
    /\ WF_vars(TimePasses)

-----------------------------------------------------------------------------
(* Properties *)

Running(e) == engine[e] = "running"

\* At most one engine runs that was not told to stop: "without this, two engines
\* would compound: the orphan stays + a fresh leader spawns its own".
OneEngine == \A e, f \in Engines : Running(e) /\ Running(f) => e = f

\* It holds whatever dies, cannot be spawned or does not answer, as long as the
\* scan for orphans works, no worker is held up, and Redis was there at boot.
OneEngineUnlessBlind == "unseen engine" \notin happened => OneEngine

\* Only the owner touches the key: it stays a live leader's until it expires, the
\* leader's engine dies or its shutdown comes, and nobody else extends it
\* ("accidentally extending a successor's lease and letting two leaders coexist"),
\* whatever went wrong and however long a worker was held up.
OnlyOwnerTouches ==
    [][\A w \in Workers : pc[w] = "leader" /\ pc'[w] = "leader" /\ holder = lock[w] =>
         /\ holder' # lock[w] => ttl = 1 \/ (proc[w] # NoEngine /\ ~Running(proc[w]))
         /\ ttl' > ttl => due[w] = 0]_vars

\* "A clean restart never sees a stale lease": without crashes and lost commands
\* the key belongs to a worker that is up, unless that worker spawned no engine.
NoStaleLease ==
    "stale lease" \notin happened /\ holder # NoLock =>
        \E w \in Workers : pc[w] \notin {"down", "follower"} /\ lock[w] = holder

\* As long as workers are only recycled an engine runs again and again.
AlwaysAnEngineAgain == [](happened = {}) => []<>(\E e \in Engines : Running(e))

=============================================================================
