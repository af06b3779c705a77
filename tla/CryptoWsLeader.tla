--------------------------- MODULE CryptoWsLeader ---------------------------
(***************************************************************************)
(* The Binance stream of the crypto engine: "with gunicorn N workers we    *)
(* only want ONE WS connection" (main.py, lifespan).  Each worker races    *)
(* once, at boot, for a RedisLock; the winner runs the engine and renews   *)
(* the lease at half its TTL, ignoring what renew() returns; its shutdown  *)
(* deletes the key without comparing the owner.  A worker that is recycled *)
(* or dies is booted again by the gunicorn master.                         *)
(*                                                                         *)
(* Each process runs without interruption between two actions; Redis and   *)
(* the other processes may act in between.                                 *)
(***************************************************************************)
EXTENDS RedisLock

CONSTANTS
    Workers,
    RENEW_EVERY,    \* ticks between two renewals: the ttl // 2 of the code
    Faults          \* what may go wrong: a subset of FaultKinds

FaultKinds ==
    {"crash",       \* a worker dies without its shutdown
     "stall",       \* a worker is held up for longer than a tick
     "redis",       \* a command fails
     "offline"}     \* a worker boots without Redis

ASSUME CryptoAssumption ==
    /\ RENEW_EVERY \in 1..TTL
    /\ Faults \subseteq FaultKinds

VARIABLES
    pc,             \* where each worker is in its lifespan
    lock,           \* its app.state.crypto_ws_lock, when it won the election
    due,            \* ticks until its renew task wakes
    happened        \* history: what has gone wrong so far

vars == <<lockVars, pc, lock, due, happened>>

WorkerStates ==
    {"down",
     "elected",     \* acquire() returned True, the engine is not started yet
     "leader",      \* the engine runs
     "stopping",    \* the engine is stopped, the key is not deleted yet
     "follower"}

CryptoTypeOK ==
    /\ LockTypeOK
    /\ pc \in [Workers -> WorkerStates]
    /\ lock \in [Workers -> Locks \cup {NoLock}]
    /\ due \in [Workers -> 0..RENEW_EVERY]
    /\ happened \subseteq Faults

CryptoInit ==
    /\ LockInit
    /\ pc = [w \in Workers |-> "down"]
    /\ lock = [w \in Workers |-> NoLock]
    /\ due = [w \in Workers |-> RENEW_EVERY]
    /\ happened = {}

-----------------------------------------------------------------------------

Fault(kind) == kind \in Faults /\ happened' = happened \cup {kind}
NoFault == UNCHANGED happened

\* The owner_id is the pid, which no other worker of the host has now.
New(l) == ~acquired[l] /\ \A w \in Workers : lock[w] # l

Becomes(w, state, l) ==
    /\ pc' = [pc EXCEPT ![w] = state]
    /\ lock' = [lock EXCEPT ![w] = l]
    /\ due' = [due EXCEPT ![w] = RENEW_EVERY]

Wins(w) ==
    \E l \in Locks :
        /\ New(l) /\ acquire(l)
        /\ Becomes(w, "elected", l)
        /\ IF l \in Offline THEN Fault("offline") ELSE NoFault

\* The key is taken, or the SET fails before or after Redis executes it.
Loses(w) ==
    /\ \/ holder # NoLock /\ UNCHANGED lockVars /\ NoFault
       \/ Fault("redis") /\ UNCHANGED lockVars
       \/ Fault("redis") /\ \E l \in Locks : New(l) /\ AcquireReplyLost(l)
    /\ Becomes(w, "follower", NoLock)

\* Boot, up to the result of the only election this worker takes part in.
Elect(w) == pc[w] = "down" /\ (Wins(w) \/ Loses(w))

StartEngine(w) ==
    /\ pc[w] = "elected"
    /\ Becomes(w, "leader", lock[w])
    /\ UNCHANGED <<lockVars, happened>>

\* The renew task wakes; whatever renew() does, it sleeps again.
Renew(w) ==
    /\ pc[w] = "leader"
    /\ due[w] = 0
    /\ LET l == lock[w]
       IN \/ renew(l) /\ NoFault
          \/ (l \in Offline \/ ~acquired[l]) /\ UNCHANGED <<lockVars, happened>>
          \/ Fault("redis") /\ (RenewReplyLost(l) \/ UNCHANGED lockVars)
    /\ due' = [due EXCEPT ![w] = RENEW_EVERY]
    /\ UNCHANGED <<pc, lock>>

\* Graceful shutdown: the renew task is cancelled and the engine stopped ...
Shutdown(w) ==
    /\ \/ pc[w] = "leader" /\ Becomes(w, "stopping", lock[w])
       \/ pc[w] = "follower" /\ Becomes(w, "down", NoLock)
    /\ UNCHANGED <<lockVars, happened>>

\* (mutant) the shutdown leaves the key to expire.
DeleteKey_Never(w) ==
    /\ pc[w] = "stopping"
    /\ acquired' = [l \in Locks |-> acquired[l] /\ l # lock[w]]
    /\ UNCHANGED <<holder, ttl, confirmed, happened>>
    /\ Becomes(w, "down", NoLock)

\* ... then client.delete(key), whoever owns it, with any error suppressed; a
\* worker that booted without Redis deletes nothing.
DeleteKey(w) ==
    /\ pc[w] = "stopping"
    /\ \/ lock[w] \notin Offline /\ holder' = NoLock /\ ttl' = 0 /\ NoFault
       \/ lock[w] \in Offline /\ UNCHANGED <<holder, ttl, happened>>
       \/ lock[w] \notin Offline /\ Fault("redis") /\ UNCHANGED <<holder, ttl>>
    /\ acquired' = [l \in Locks |-> acquired[l] /\ l # lock[w]]
    /\ UNCHANGED confirmed
    /\ Becomes(w, "down", NoLock)

Crash(w) ==
    /\ Fault("crash")
    /\ pc[w] # "down"
    /\ acquired' = [l \in Locks |-> acquired[l] /\ l # lock[w]]
    /\ UNCHANGED <<holder, ttl, confirmed>>
    /\ Becomes(w, "down", NoLock)

\* Unless a worker may stall, it is never late by a whole tick.
Prompt(w) == pc[w] \notin {"elected", "stopping"} /\ ~(pc[w] = "leader" /\ due[w] = 0)

TimePasses ==
    /\ IF \A w \in Workers : Prompt(w) THEN NoFault ELSE Fault("stall")
    /\ Tick
    /\ due' = [w \in Workers |-> IF pc[w] = "leader" /\ due[w] > 0 THEN due[w] - 1 ELSE due[w]]
    /\ UNCHANGED <<pc, lock>>

WorkerStep(w) == Elect(w) \/ StartEngine(w) \/ Renew(w) \/ DeleteKey(w)

CryptoNext ==
    \/ \E w \in Workers : WorkerStep(w) \/ Shutdown(w) \/ Crash(w)
    \/ TimePasses

CryptoSpec == CryptoInit /\ [][CryptoNext]_vars

\* The master boots every worker that went away, and a worker carries out what
\* it has begun; nothing makes a worker shut down or die.
FairCryptoSpec ==
    /\ CryptoSpec
    /\ \A w \in Workers : WF_vars(WorkerStep(w))
    /\ WF_vars(TimePasses)

-----------------------------------------------------------------------------
(* Properties *)

Streaming(w) == pc[w] = "leader"

\* Nothing went wrong but workers that died.
Calm == happened \subseteq {"crash"}

\* "We only want ONE WS connection to Binance, not N": two workers never run the
\* engine at the same time, as long as Redis answers and no worker is held up,
\* whatever dies.
OneConnectionInCalm ==
    Calm => \A v, w \in Workers : Streaming(v) /\ Streaming(w) => v = w

\* The lease outlives the engine it protects: in the same conditions the key is
\* the streaming worker's own, from the start of the engine to its stop.
LeaderHoldsKey ==
    Calm => \A w \in Workers : pc[w] \in {"leader", "stopping"} => holder = lock[w]

\* As long as workers are only recycled a worker streams again and again: the
\* deleted key lets the next boot win.
AlwaysALeaderAgain == [](happened = {}) => []<>(\E w \in Workers : Streaming(w))

=============================================================================
