----------------------------- MODULE MarketFeed -----------------------------
(***************************************************************************)
(* What the hub promises its consumers, without pollers, tasks, queues,    *)
(* reference counts and suspended removals: every session has a mailbox    *)
(* with one place per key, the newest published version of a key is put    *)
(* there for all who watch the key, and taken from there.  RealtimeHub     *)
(* implements this.                                                        *)
(***************************************************************************)
EXTENDS Naturals, FiniteSets

CONSTANTS
    Clients,
    Keys,
    Room            \* how many keys a mailbox can hold

VARIABLES
    open,           \* the sessions that are open
    watching,       \* the keys each of them watches
    mailbox,        \* what each may still take, also after it was closed
    seen,           \* the version of each key it took last, 0 before
    stored,         \* the last version published of each key, 0 once forgotten
    market          \* the newest version there is

feedVars == <<open, watching, mailbox, seen, stored, market>>

Event(k, v) == [key |-> k, ver |-> v]
Watchers(k) == {c \in Clients : k \in watching[c]}
Others(c, k) == {f \in mailbox[c] : f.key # k}
HasRoom(c, k) == Others(c, k) # mailbox[c] \/ Cardinality(mailbox[c]) < Room

FeedInit ==
    /\ open = {}
    /\ watching = [c \in Clients |-> {}]
    /\ mailbox = [c \in Clients |-> {}]
    /\ seen = [c \in Clients |-> [k \in Keys |-> 0]]
    /\ stored = [k \in Keys |-> 0]
    /\ market = [k \in Keys |-> 1]

\* An event takes the place of the pending one of its key.  A full mailbox misses
\* it; or the session is closed for being slow, at the expense of another event.
Offer(S, e) ==
    \E closing \in SUBSET {c \in S : ~HasRoom(c, e.key)} :
    \E lost \in [closing -> UNION {mailbox[c] : c \in closing}] :
        /\ open' = open \ closing
        /\ mailbox' = [c \in Clients |->
                         IF c \in S /\ HasRoom(c, e.key) THEN Others(c, e.key) \cup {e}
                         ELSE IF c \in closing THEN mailbox[c] \ {lost[c]}
                         ELSE mailbox[c]]

Begin(c) ==
    /\ c \notin open
    /\ open' = open \cup {c}
    /\ mailbox' = [mailbox EXCEPT ![c] = {}]
    /\ seen' = [seen EXCEPT ![c] = [k \in Keys |-> 0]]
    /\ UNCHANGED <<watching, stored, market>>

\* The session is gone, with what it had not taken.
Leave(c) ==
    /\ open' = open \ {c}
    /\ watching' = [watching EXCEPT ![c] = {}]
    /\ mailbox' = [mailbox EXCEPT ![c] = {}]
    /\ seen' = [seen EXCEPT ![c] = [k \in Keys |-> 0]]
    /\ UNCHANGED <<stored, market>>

\* Who begins to watch is given what is stored.
Watch(c, k) ==
    /\ c \in open /\ k \notin watching[c]
    /\ IF stored[k] # 0 THEN Offer({c}, Event(k, stored[k]))
       ELSE UNCHANGED <<open, mailbox>>
    /\ watching' = [watching EXCEPT ![c] = IF c \in open' THEN @ \cup {k} ELSE {}]
    /\ UNCHANGED <<seen, stored, market>>

\* What is stored of a key may be forgotten while nobody watches it.
Forget(k) ==
    /\ \A c \in Clients : k \notin watching'[c]
    /\ stored' = [stored EXCEPT ![k] = 0]

Unwatch(c, k) ==
    /\ watching' = [watching EXCEPT ![c] = @ \ {k}]
    /\ Forget(k) \/ UNCHANGED stored
    /\ UNCHANGED <<open, mailbox, seen, market>>

\* A version older than one that anybody has been given is never published, not even
\* when everything was forgotten in between.
Publish(k, v) ==
    /\ v > 0 /\ stored[k] <= v /\ v <= market[k]
    /\ \A c \in Clients : /\ seen[c][k] <= v
                          /\ \A f \in mailbox[c] : f.key = k => f.ver <= v
    /\ stored' = [stored EXCEPT ![k] = v]
    /\ Offer(Watchers(k), Event(k, v))
    /\ watching' = [c \in Clients |-> IF c \in open' THEN watching[c] ELSE {}]
    /\ UNCHANGED <<seen, market>>

Take(c, f) ==
    /\ f \in mailbox[c]
    /\ mailbox' = [mailbox EXCEPT ![c] = @ \ {f}]
    /\ seen' = [seen EXCEPT ![c][f.key] = f.ver]
    /\ UNCHANGED <<open, watching, stored, market>>

Stop ==
    /\ open' = {}
    /\ watching' = [c \in Clients |-> {}]
    /\ stored' = [k \in Keys |-> 0]
    /\ UNCHANGED <<mailbox, seen, market>>

Move(k) ==
    /\ market' = [market EXCEPT ![k] = @ + 1]
    /\ UNCHANGED <<open, watching, mailbox, seen, stored>>

FeedNext ==
    \/ \E c \in Clients : Begin(c) \/ Leave(c) \/ \E f \in mailbox[c] : Take(c, f)
    \/ \E c \in Clients, k \in Keys : Watch(c, k) \/ Unwatch(c, k)
    \/ \E k \in Keys : \/ Move(k)
                       \/ \E v \in 1..market[k] : Publish(k, v)
    \/ Stop

FeedSpec == FeedInit /\ [][FeedNext]_feedVars
=============================================================================
