------------------------------- MODULE Lease -------------------------------
(***************************************************************************)
(* What a lock with a time to live promises: at most one holder at a time, *)
(* and leadership that never passes from one holder to the next without a  *)
(* moment at which nobody leads.  RedisLock implements this for the        *)
(* holders whose last grant or renewal is younger than the TTL.            *)
(***************************************************************************)
CONSTANT Locks

VARIABLE leaders        \* who may act as the leader now

LeaseInit == leaders = {}

Grant == leaders = {} /\ \E l \in Locks : leaders' = {l}

Lose == leaders # {} /\ leaders' = {}

LeaseSpec == LeaseInit /\ [][Grant \/ Lose]_leaders
=============================================================================
