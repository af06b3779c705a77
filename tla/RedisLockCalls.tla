--------------------------- MODULE RedisLockCalls ---------------------------
(***************************************************************************)
(* RedisLock with a history variable that tells who makes the calls: the   *)
(* property that nobody touches another's key is about who did it, not     *)
(* only about what became of the key.                                      *)
(***************************************************************************)
EXTENDS RedisLock

VARIABLE caller     \* history: who made the last call; NoLock if it was time

callVars == <<lockVars, caller>>

CallsTypeOK == LockTypeOK /\ caller \in Locks \cup {NoLock}

CallsInit == LockInit /\ caller = NoLock

Call(l) ==
    /\ \/ acquire(l) \/ AcquireReplyLost(l)
       \/ renew(l) \/ RenewReplyLost(l)
       \/ release(l) \/ Abandon(l)
    /\ caller' = l

KeyAges == Tick /\ caller' = NoLock

CallsNext == KeyAges \/ \E l \in Locks : Call(l)

CallsSpec == CallsInit /\ [][CallsNext]_callVars

FairCallsSpec == CallsSpec /\ WF_callVars(KeyAges)

-----------------------------------------------------------------------------
(* Properties *)

\* "release() MUST only delete the key if we still own it" and "renew() extends the
\* TTL only when we still own the key": the key of an instance goes away by expiry or
\* by a call of that instance, and lives longer by a call of that instance; the calls
\* of all others, with a live lease or a lost one, leave it alone.
OnlyOwnerTouchesKey ==
    [][\A l \in Locks : holder = l =>
         /\ holder' # l => caller' = l \/ (caller' = NoLock /\ ttl = 1)
         /\ ttl' > ttl => caller' = l]_callVars

=============================================================================
