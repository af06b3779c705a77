--------------------------- MODULE RedisLock_proofs ---------------------------
(***************************************************************************)
(* For every set of instances and every TTL: RedisLock is type correct, an *)
(* instance that confirmed its lease less than a TTL ago owns the key, no  *)
(* two instances do, nobody touches another's key, and the whole           *)
(* implements Lease.  LockInv is inductive: the lease of an instance and   *)
(* the key in Redis age together, one tick at a time.                      *)
(***************************************************************************)
EXTENDS RedisLockCalls, TLAPS

\* The key has a value as long as it has time to live.
KeyHasTTL == holder = NoLock <=> ttl = 0

LockInv == LockTypeOK /\ KeyHasTTL /\ LeaseHeld

-----------------------------------------------------------------------------

\* The TTL is a positive number and no instance is the empty value.
LEMMA TTLFacts == TTL \in Nat /\ TTL > 0 /\ NoLock \notin Locks /\ Offline \subseteq Locks
  BY LockAssumption DEF LockAssumption

\* A step of one instance leaves the other instances' beliefs alone.
LEMMA OthersKeepTheirs ==
  ASSUME LockTypeOK, NEW l \in Locks, NEW m \in Locks, m # l,
         \/ acquire(l) \/ AcquireReplyLost(l) \/ renew(l)
         \/ RenewReplyLost(l) \/ release(l) \/ Abandon(l)
  PROVE  acquired'[m] = acquired[m] /\ confirmed'[m] = confirmed[m]
  BY DEF LockTypeOK, acquire, AcquireReplyLost, renew, RenewReplyLost, release, Abandon,
         Confirm

\* What one instance can do to the key: nothing, take it free, extend its own, or
\* remove its own.
LEMMA KeyMoves ==
  ASSUME NEW l \in Locks,
         \/ acquire(l) \/ AcquireReplyLost(l) \/ renew(l)
         \/ RenewReplyLost(l) \/ release(l) \/ Abandon(l)
  PROVE  \/ UNCHANGED <<holder, ttl>>
         \/ holder = NoLock /\ holder' = l /\ ttl' = TTL
         \/ holder = l /\ holder' = l /\ ttl' = TTL /\ acquired[l]
         \/ holder = l /\ holder' = NoLock /\ ttl' = 0 /\ acquired[l]
  BY DEF acquire, AcquireReplyLost, renew, RenewReplyLost, release, Abandon, SetNX,
         CasExpire, CasDelete

-----------------------------------------------------------------------------

\* A step of an instance keeps the types.
LEMMA InstanceKeepsTypes ==
  ASSUME LockTypeOK, NEW l \in Locks,
         \/ acquire(l) \/ AcquireReplyLost(l) \/ renew(l)
         \/ RenewReplyLost(l) \/ release(l) \/ Abandon(l)
  PROVE  LockTypeOK'
<1>1. holder' \in Locks \cup {NoLock} /\ ttl' \in 0..TTL
  BY KeyMoves, TTLFacts DEF LockTypeOK
<1>2. acquired' \in [Locks -> BOOLEAN]
  BY DEF LockTypeOK, acquire, AcquireReplyLost, renew, RenewReplyLost, release, Abandon
<1>3. confirmed' \in [Locks -> 0..TTL]
  BY TTLFacts DEF LockTypeOK, acquire, AcquireReplyLost, renew, RenewReplyLost, release,
                  Abandon, Confirm
<1> QED BY <1>1, <1>2, <1>3 DEF LockTypeOK

\* After a step of l, an instance that may act as the owner owns the key.
LEMMA InstanceKeepsLeases ==
  ASSUME LockInv, NEW l \in Locks,
         \/ acquire(l) \/ AcquireReplyLost(l) \/ renew(l)
         \/ RenewReplyLost(l) \/ release(l) \/ Abandon(l)
  PROVE  LeaseHeld'
<1> SUFFICES ASSUME NEW m \in Locks, Valid(m)'
             PROVE  holder' = m /\ ttl' + confirmed'[m] >= TTL
  BY DEF LeaseHeld, Valid, is_held_by_me
<1>1. CASE m # l
  <2>1. Valid(m)
    BY <1>1, OthersKeepTheirs DEF LockInv, Valid
  <2>2. holder = m /\ ttl + confirmed[m] >= TTL
    BY <2>1 DEF LockInv, LeaseHeld, Valid, is_held_by_me
  <2>3. holder' = m /\ ttl' = ttl
    BY <1>1, <2>2, KeyMoves, TTLFacts
  <2>4. confirmed'[m] = confirmed[m]
    BY <1>1, OthersKeepTheirs DEF LockInv
  <2> QED BY <2>2, <2>3, <2>4
<1>2. CASE m = l
  <2>1. acquired'[l] /\ l \notin Offline /\ confirmed'[l] < TTL
    BY <1>2 DEF Valid
  <2>2. CASE acquire(l)
    BY <1>2, <2>1, <2>2, TTLFacts DEF acquire, SetNX, Confirm, LockInv, LockTypeOK
  <2>3. CASE AcquireReplyLost(l)
    BY <2>1, <2>3 DEF AcquireReplyLost
  <2>4. CASE renew(l)
    BY <1>2, <2>1, <2>4, TTLFacts DEF renew, CasExpire, Confirm, LockInv, LockTypeOK
  <2>5. CASE RenewReplyLost(l)
    BY <1>2, <2>1, <2>5, TTLFacts DEF RenewReplyLost, CasExpire, LockInv, LockTypeOK
  <2>6. CASE release(l) \/ Abandon(l)
    BY <2>1, <2>6 DEF release, Abandon, LockInv, LockTypeOK
  <2> QED BY <2>2, <2>3, <2>4, <2>5, <2>6
<1> QED BY <1>1, <1>2

\* A tick keeps the types.
LEMMA TickKeepsTypes ==
  ASSUME LockTypeOK, Tick
  PROVE  LockTypeOK'
  BY TTLFacts DEF LockTypeOK, Tick

\* In a tick, a lease loses as much of its time as the key does.
LEMMA TickKeepsLeases ==
  ASSUME LockInv, Tick
  PROVE  LeaseHeld'
<1> SUFFICES ASSUME NEW m \in Locks, Valid(m)'
             PROVE  holder' = m /\ ttl' + confirmed'[m] >= TTL
  BY DEF LeaseHeld, Valid, is_held_by_me
<1>1. confirmed[m] < TTL /\ confirmed'[m] = confirmed[m] + 1
  BY TTLFacts DEF Valid, Tick, LockInv, LockTypeOK
<1>2. Valid(m)
  BY <1>1 DEF Valid, Tick
<1>3. holder = m /\ ttl + confirmed[m] >= TTL
  BY <1>2 DEF LockInv, LeaseHeld, Valid, is_held_by_me
<1>4. confirmed'[m] < TTL
  BY DEF Valid
<1> QED BY <1>1, <1>3, <1>4, TTLFacts DEF Tick, LockInv, LockTypeOK

\* LockInv is inductive.
LEMMA LockInvStep ==
  ASSUME LockInv, [LockNext]_lockVars
  PROVE  LockInv'
<1>1. CASE \E l \in Locks : \/ acquire(l) \/ AcquireReplyLost(l) \/ renew(l)
                            \/ RenewReplyLost(l) \/ release(l) \/ Abandon(l)
  <2>1. PICK l \in Locks : \/ acquire(l) \/ AcquireReplyLost(l) \/ renew(l)
                           \/ RenewReplyLost(l) \/ release(l) \/ Abandon(l)
    BY <1>1
  <2>2. LockTypeOK'
    BY <2>1, InstanceKeepsTypes DEF LockInv
  <2>3. KeyHasTTL'
    BY <2>1, KeyMoves, TTLFacts DEF LockInv, KeyHasTTL
  <2>4. LeaseHeld'
    BY <2>1, InstanceKeepsLeases
  <2> QED BY <2>2, <2>3, <2>4 DEF LockInv
<1>2. CASE Tick
  <2>1. LockTypeOK'
    BY <1>2, TickKeepsTypes DEF LockInv
  <2>2. KeyHasTTL'
    BY <1>2, TTLFacts DEF Tick, LockInv, KeyHasTTL, LockTypeOK
  <2>3. LeaseHeld'
    BY <1>2, TickKeepsLeases
  <2> QED BY <2>1, <2>2, <2>3 DEF LockInv
<1>3. CASE UNCHANGED lockVars
  BY <1>3 DEF lockVars, LockInv, LockTypeOK, KeyHasTTL, LeaseHeld, Valid, is_held_by_me
<1> QED BY <1>1, <1>2, <1>3 DEF LockNext

-----------------------------------------------------------------------------

\* The invariant behind the theorems below: RedisLock's beliefs and the key agree.
THEOREM LockInvariant == LockSpec => []LockInv
<1>1. LockInit => LockInv
  BY TTLFacts DEF LockInit, LockInv, LockTypeOK, KeyHasTTL, LeaseHeld, Valid
<1>2. LockInv /\ [LockNext]_lockVars => LockInv'
  BY LockInvStep
<1> QED BY <1>1, <1>2, PTL DEF LockSpec

\* Every variable keeps its type, in particular no key outlives ttl_s.
THEOREM LockTypeCorrect == LockSpec => []LockTypeOK
<1>1. LockInv => LockTypeOK
  BY DEF LockInv
<1> QED BY <1>1, LockInvariant, PTL

\* An instance that acquire() or renew() confirmed less than ttl_s ago still owns
\* the key, for at least the rest of that time.
THEOREM LeasesAreHeld == LockSpec => []LeaseHeld
<1>1. LockInv => LeaseHeld
  BY DEF LockInv
<1> QED BY <1>1, LockInvariant, PTL

\* Two owners of the same key are one.
LEMMA OneOwner == LeaseHeld => LeaseExclusive
  BY DEF LeaseHeld, LeaseExclusive, Valid, is_held_by_me

\* No two instances of RedisLock act as the owner at the same time.
THEOREM LeasesAreExclusive == LockSpec => []LeaseExclusive
  BY LeasesAreHeld, OneOwner, PTL

\* The history variable records the calls and changes none of them.
LEMMA CallsAreLockSteps ==
  ASSUME CallsNext
  PROVE  LockNext
  BY DEF CallsNext, KeyAges, Call, LockNext

LEMMA CallsImplementLock == CallsSpec => LockSpec
<1>1. CallsInit => LockInit
  BY DEF CallsInit
<1>2. [CallsNext]_callVars => [LockNext]_lockVars
  BY CallsAreLockSteps DEF callVars, lockVars
<1> QED BY <1>1, <1>2, PTL DEF CallsSpec, LockSpec

\* release() deletes no key but the caller's own, and renew() extends no other.
THEOREM KeysAreTheirOwners == CallsSpec => OnlyOwnerTouchesKey
<1>1. ASSUME LockInv, [CallsNext]_callVars
      PROVE  [\A l \in Locks : holder = l =>
                /\ holder' # l => caller' = l \/ (caller' = NoLock /\ ttl = 1)
                /\ ttl' > ttl => caller' = l]_callVars
  <2> SUFFICES ASSUME CallsNext, NEW l \in Locks, holder = l
               PROVE  /\ holder' # l => caller' = l \/ (caller' = NoLock /\ ttl = 1)
                      /\ ttl' > ttl => caller' = l
    BY <1>1
  <2>0. LockTypeOK /\ ttl \in 1..TTL
    BY <1>1, TTLFacts DEF LockInv, LockTypeOK, KeyHasTTL
  <2>1. CASE KeyAges
    BY <2>0, <2>1, TTLFacts DEF KeyAges, Tick
  <2>2. ASSUME NEW m \in Locks, Call(m)
        PROVE  caller' = l \/ UNCHANGED <<holder, ttl>>
    <3>1. CASE m = l
      BY <2>2, <3>1 DEF Call
    <3>2. CASE m # l
      BY <2>2, <3>2, KeyMoves, TTLFacts DEF Call
    <3> QED BY <3>1, <3>2
  <2>3. UNCHANGED <<holder, ttl>> => ~(ttl' > ttl) /\ holder' = l
    BY <2>0
  <2> QED BY <2>1, <2>2, <2>3 DEF CallsNext
<1> QED BY <1>1, CallsImplementLock, LockInvariant, PTL DEF CallsSpec, OnlyOwnerTouchesKey

-----------------------------------------------------------------------------
(* RedisLock implements Lease *)

\* The key never passes from one owner to another without being free in between.
LEMMA KeyIsFreeBetween ==
  ASSUME LockInv, LockNext, holder # NoLock, holder' # NoLock
  PROVE  holder' = holder
<1>1. CASE Tick
  BY <1>1 DEF Tick
<1>2. CASE ~Tick
  BY <1>2, KeyMoves DEF LockNext
<1> QED BY <1>1, <1>2

\* Every step of RedisLock grants a lease, ends one, or leaves the owners alone:
\* leadership goes from one instance to the next only through nobody.
THEOREM LockImplementsLease == LockSpec => ImplementsLease
<1> DEFINE owners == {l \in Locks : Valid(l)}
<1>1. LockInit => owners = {}
  BY DEF LockInit, Valid
<1>2. ASSUME LockInv, LockInv', [LockNext]_lockVars
      PROVE  \/ owners = {} /\ \E l \in Locks : owners' = {l}
             \/ owners # {} /\ owners' = {}
             \/ owners' = owners
  <2>1. CASE UNCHANGED lockVars
    BY <2>1 DEF lockVars, Valid
  <2>2. CASE LockNext
    <3>1. owners = {} \/ (holder # NoLock /\ owners = {holder})
      BY <1>2, TTLFacts DEF LockInv, LeaseHeld, Valid, is_held_by_me
    <3>2. owners' = {} \/ (holder' \in Locks /\ holder' # NoLock /\ owners' = {holder'})
      BY <1>2, TTLFacts DEF LockInv, LeaseHeld, Valid, is_held_by_me
    <3>3. holder # NoLock /\ holder' # NoLock => holder' = holder
      BY <1>2, <2>2, KeyIsFreeBetween
    <3> QED BY <3>1, <3>2, <3>3
  <2> QED BY <1>2, <2>1, <2>2
<1>3. LockInit => Contract!LeaseInit
  BY <1>1 DEF Contract!LeaseInit
<1>4. ASSUME LockInv, LockInv', [LockNext]_lockVars
      PROVE  [Contract!Grant \/ Contract!Lose]_owners
  BY <1>2, <1>4 DEF Contract!Grant, Contract!Lose
<1> QED BY <1>3, <1>4, LockInvariant, PTL DEF LockSpec, ImplementsLease, Contract!LeaseSpec
===============================================================================
