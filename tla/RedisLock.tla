----------------------------- MODULE RedisLock -----------------------------
(***************************************************************************)
(* One key of redis_lock.py: RedisLock instances in several processes race *)
(* for it with SET NX EX, extend it with the compare-and-expire script and *)
(* give it up with the compare-and-delete script.                          *)
(*                                                                         *)
(* A call is one action, taken when Redis executes it; a process may be    *)
(* held up for any time before and after.  An owner_id is a hostname, a    *)
(* pid and random digits, so the instance that drew it stands for it.      *)
(* Time is counted in ticks, the unit in which the TTL is given.           *)
(***************************************************************************)
EXTENDS Integers, FiniteSets

CONSTANTS
    Locks,          \* RedisLock instances
    NoLock,         \* no value at the key
    Offline,        \* the instances built with redis_client = None
    TTL             \* ttl_s

ASSUME LockAssumption ==
    /\ NoLock \notin Locks
    /\ Offline \subseteq Locks
    /\ TTL \in Nat \ {0}

VARIABLES
    holder,         \* Redis: the value at the key
    ttl,            \* Redis: ticks until the key expires
    acquired,       \* self.acquired of each instance
    confirmed       \* history: ticks since Redis last told the instance that the
                    \* key is its own

lockVars == <<holder, ttl, acquired, confirmed>>

LockTypeOK ==
    /\ holder \in Locks \cup {NoLock}
    /\ ttl \in 0..TTL
    /\ acquired \in [Locks -> BOOLEAN]
    /\ confirmed \in [Locks -> 0..TTL]

LockInit ==
    /\ holder = NoLock
    /\ ttl = 0
    /\ acquired = [l \in Locks |-> FALSE]
    /\ confirmed = [l \in Locks |-> TTL]

-----------------------------------------------------------------------------
(* The three commands, as Redis executes them *)

SetNX(l) == holder = NoLock /\ holder' = l /\ ttl' = TTL

\* (mutant) a comparison that extends nothing.
CasExpire_Nothing(l) == holder = l /\ UNCHANGED <<holder, ttl>>

\* (mutant) EXPIRE on whatever key there is.
CasExpire_Blind(l) == holder # NoLock /\ ttl' = TTL /\ UNCHANGED holder

CasExpire(l) == holder = l /\ ttl' = TTL /\ UNCHANGED holder

CasDelete(l) ==
    IF holder = l THEN holder' = NoLock /\ ttl' = 0 ELSE UNCHANGED <<holder, ttl>>

\* The client learns that the key is its own.
Confirm(l) == confirmed' = [confirmed EXCEPT ![l] = 0]

-----------------------------------------------------------------------------

\* (mutant) SET without NX.
acquire_NoNX(l) ==
    /\ ~acquired[l]
    /\ acquired' = [acquired EXCEPT ![l] = TRUE]
    /\ holder' = l /\ ttl' = TTL
    /\ Confirm(l)

\* Without a client the instance always wins; otherwise it wins a free key.  A
\* refused or failed SET changes nothing, and neither does asking again after
\* the lock was acquired.
acquire(l) ==
    /\ ~acquired[l]
    /\ acquired' = [acquired EXCEPT ![l] = TRUE]
    /\ IF l \in Offline THEN UNCHANGED <<holder, ttl, confirmed>>
                        ELSE SetNX(l) /\ Confirm(l)

\* The SET is executed, and its reply does not arrive: acquire returns False.
AcquireReplyLost(l) ==
    /\ ~acquired[l] /\ l \notin Offline
    /\ SetNX(l)
    /\ UNCHANGED <<acquired, confirmed>>

\* (mutant) EXPIRE without comparing the owner.
renew_Blind(l) ==
    /\ acquired[l] /\ l \notin Offline
    /\ IF holder # NoLock
       THEN ttl' = TTL /\ Confirm(l) /\ UNCHANGED <<holder, acquired>>
       ELSE acquired' = [acquired EXCEPT ![l] = FALSE] /\ UNCHANGED <<holder, ttl, confirmed>>

\* A renewal that finds another owner, or none, clears acquired.
renew(l) ==
    /\ acquired[l] /\ l \notin Offline
    /\ IF holder = l
       THEN CasExpire(l) /\ Confirm(l) /\ UNCHANGED acquired
       ELSE acquired' = [acquired EXCEPT ![l] = FALSE] /\ UNCHANGED <<holder, ttl, confirmed>>

\* The script is executed and its reply does not arrive: renew returns False and
\* leaves acquired as it was.  (A request that does not arrive changes nothing.)
RenewReplyLost(l) ==
    /\ acquired[l] /\ l \notin Offline
    /\ CasExpire(l)
    /\ UNCHANGED <<acquired, confirmed>>

\* (mutant) DEL without comparing the owner.
release_Unconditional(l) ==
    /\ acquired[l]
    /\ acquired' = [acquired EXCEPT ![l] = FALSE]
    /\ holder' = NoLock /\ ttl' = 0
    /\ UNCHANGED confirmed

\* acquired is cleared whatever the answer, in the finally clause.
release(l) ==
    /\ acquired[l]
    /\ acquired' = [acquired EXCEPT ![l] = FALSE]
    /\ IF l \in Offline THEN UNCHANGED <<holder, ttl>> ELSE CasDelete(l)
    /\ UNCHANGED confirmed

\* The request of release does not arrive, or the process dies with its lock.
Abandon(l) ==
    /\ acquired[l]
    /\ acquired' = [acquired EXCEPT ![l] = FALSE]
    /\ UNCHANGED <<holder, ttl, confirmed>>

is_held_by_me(l) == acquired[l] /\ (l \in Offline \/ holder = l)

\* A tick of time; Redis removes the key when its TTL is over.
Tick ==
    /\ ttl' = IF ttl = 0 THEN 0 ELSE ttl - 1
    /\ holder' = IF ttl' = 0 THEN NoLock ELSE holder
    /\ confirmed' = [l \in Locks |-> IF confirmed[l] < TTL THEN confirmed[l] + 1 ELSE TTL]
    /\ UNCHANGED acquired

LockNext ==
    \/ \E l \in Locks : \/ acquire(l)
                        \/ AcquireReplyLost(l)
                        \/ renew(l)
                        \/ RenewReplyLost(l)
                        \/ release(l)
                        \/ Abandon(l)
    \/ Tick

LockSpec == LockInit /\ [][LockNext]_lockVars

FairLockSpec == LockSpec /\ WF_lockVars(Tick)

-----------------------------------------------------------------------------
(* Properties *)

\* The instance may act as the owner: it asked Redis less than a TTL ago.
Valid(l) == acquired[l] /\ l \notin Offline /\ confirmed[l] < TTL

\* An instance that was told less than a TTL ago that the key is its own still
\* owns it, for at least the rest of that time.
LeaseHeld ==
    \A l \in Locks : Valid(l) => is_held_by_me(l) /\ ttl + confirmed[l] >= TTL

\* Two instances never both act as the owner.
LeaseExclusive == \A l, m \in Locks : Valid(l) /\ Valid(m) => l = m

\* The lease of a dead process ends, whatever the other processes do with their
\* own instances.
OrphanLeaseEnds == \A l \in Locks : holder = l /\ ~acquired[l] ~> holder # l

\* RedisLock implements Lease.
Contract == INSTANCE Lease WITH leaders <- {l \in Locks : Valid(l)}
ImplementsLease == Contract!LeaseSpec

=============================================================================
