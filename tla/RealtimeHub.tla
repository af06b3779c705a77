---------------------------- MODULE RealtimeHub ----------------------------
(***************************************************************************)
(* The in-process publish/subscribe hub behind the SSE endpoint            *)
(* (realtime/hub.py).  One asyncio task polls each watched key (a pair     *)
(* (kind, slug) of the code) and fans every answer out to the bounded      *)
(* queue of each subscriber.                                               *)
(*                                                                         *)
(* asyncio runs one coroutine at a time and the hub's critical sections    *)
(* contain no await, so every method runs atomically up to its first       *)
(* suspension; each such stretch is one action.  The suspensions are the   *)
(* upstream request and the sleep of a poller, and the "await              *)
(* task_to_cancel" that separates the keys remove_client goes through.     *)
(*                                                                         *)
(* Payloads are abstracted to the version of the upstream market they      *)
(* were sampled from; 0 stands for "no value".                             *)
(***************************************************************************)
EXTENDS Integers, Sequences, FiniteSets

CONSTANTS
    Clients,                \* cids
    Keys,                   \* (kind, slug) pairs
    Tasks, NoTask,          \* identities of poller tasks, and None
    ByeKey,                 \* the key of the final "bye" event
    QUEUE_MAXSIZE, MAX_CLIENTS, MAX_SUBS_PER_CLIENT,
    DROPPED_THRESHOLD, DROPPED_WINDOW,
    MaxVersion,             \* bound: how often a market moves
    Volatile                \* bound: the markets that move

ASSUME HubAssumption ==
    /\ NoTask \notin Tasks
    /\ ByeKey \notin Keys
    /\ IsFiniteSet(Keys)
    /\ QUEUE_MAXSIZE \in Nat \ {0}
    /\ MAX_CLIENTS \in Nat
    /\ MAX_SUBS_PER_CLIENT \in Nat
    /\ DROPPED_THRESHOLD \in Nat \ {0}
    /\ DROPPED_WINDOW \in Nat
    /\ MaxVersion \in Nat \ {0}

VARIABLES
    clients,        \* cids registered in self.clients
    subs,           \* session.subs
    queue,          \* session.queue
    closed,         \* session.closed
    dropped_at,     \* session.dropped_at, as the ages of its timestamps
    slug_subs,      \* self.slug_subs; an absent key is {}
    pollers,        \* self.pollers
    last_value,     \* self.last_value
    task,           \* the poller tasks
    removal,        \* the suspended remove_client calls
    market,         \* upstream: the current version of each market
    seen            \* history: the version each client last took from its queue

sessionVars == <<clients, subs, closed>>
registryVars == <<slug_subs, pollers, last_value>>
hubVars == <<clients, subs, queue, closed, dropped_at, slug_subs, pollers,
             last_value, task, removal, market, seen>>

Versions == 1..MaxVersion
Events == [key : Keys, ver : Versions] \cup [key : {ByeKey}, ver : {0}]
Bye == [key |-> ByeKey, ver |-> 0]

FreeTask == [pc |-> "free", key |-> ByeKey, val |-> 0]
PollerTasks == [pc : {"fetch", "sleep"}, key : Keys, val : {0}]
          \cup [pc : {"reply"}, key : Keys, val : Versions]
          \cup [pc : {"cancelled"}, key : Keys, val : 0..MaxVersion]
Poller(pc, k, v) == [pc |-> pc, key |-> k, val |-> v]
Removal(S, t) == [keys |-> S, await |-> t]
NoRemoval == Removal({}, NoTask)

HubTypeOK ==
    /\ clients \subseteq Clients
    /\ subs \in [Clients -> SUBSET Keys]
    /\ queue \in [Clients -> Seq(Events)]
    /\ closed \in [Clients -> BOOLEAN]
    /\ dropped_at \in [Clients -> Seq(0..DROPPED_WINDOW + 1)]
    /\ slug_subs \in [Keys -> SUBSET Clients]
    /\ pollers \in [Keys -> Tasks \cup {NoTask}]
    /\ last_value \in [Keys -> 0..MaxVersion]
    /\ task \in [Tasks -> PollerTasks \cup {FreeTask}]
    /\ removal \in [Clients -> [keys : SUBSET Keys, await : Tasks \cup {NoTask}]]
    /\ market \in [Keys -> Versions]
    /\ seen \in [Clients -> [Keys -> 0..MaxVersion]]

HubInit ==
    /\ clients = {}
    /\ subs = [c \in Clients |-> {}]
    /\ queue = [c \in Clients |-> <<>>]
    /\ closed = [c \in Clients |-> TRUE]
    /\ dropped_at = [c \in Clients |-> <<>>]
    /\ slug_subs = [k \in Keys |-> {}]
    /\ pollers = [k \in Keys |-> NoTask]
    /\ last_value = [k \in Keys |-> 0]
    /\ task = [t \in Tasks |-> FreeTask]
    /\ removal = [c \in Clients |-> NoRemoval]
    /\ market = [k \in Keys |-> 1]
    /\ seen = [c \in Clients |-> [k \in Keys |-> 0]]

-----------------------------------------------------------------------------
(* _enqueue and _record_drop *)

Queued(q, k) == {i \in DOMAIN q : q[i].key = k}

First(S) == CHOOSE i \in S : \A j \in S : i <= j

Overflows(c, e) ==
    /\ ~closed[c]
    /\ Queued(queue[c], e.key) = {}
    /\ Len(queue[c]) = QUEUE_MAXSIZE

\* (mutant) old drops are never trimmed.
RecentDrops_NoWindow(c) == Append(dropped_at[c], 0)

\* The drop that happens now is appended, the ones that left the window are
\* trimmed from the front.
RecentDrops(c) ==
    LET drops == Append(dropped_at[c], 0)
    IN SubSeq(drops, First({i \in DOMAIN drops : drops[i] <= DROPPED_WINDOW}), Len(drops))

TooSlow(c, e) == Overflows(c, e) /\ Len(RecentDrops(c)) >= DROPPED_THRESHOLD

\* (mutant) every event is appended.
QueueAfter_NoCoalescing(c, e) ==
    IF closed[c] \/ Len(queue[c]) = QUEUE_MAXSIZE THEN queue[c] ELSE Append(queue[c], e)

\* The queue of c after _enqueue(c, e): a pending event of the same key is
\* replaced where it stands, an overflow drops e, and the drop that crosses
\* the threshold rotates the final bye in.
QueueAfter(c, e) ==
    IF closed[c] THEN queue[c]
    ELSE IF Queued(queue[c], e.key) # {}
         THEN [queue[c] EXCEPT ![First(Queued(queue[c], e.key))] = e]
    ELSE IF Len(queue[c]) < QUEUE_MAXSIZE THEN Append(queue[c], e)
    ELSE IF TooSlow(c, e) THEN Append(Tail(queue[c]), Bye)
    ELSE queue[c]

Enqueue(S, e) ==
    /\ queue' = [c \in Clients |-> IF c \in S THEN QueueAfter(c, e) ELSE queue[c]]
    /\ dropped_at' = [c \in Clients |->
                        IF c \in S /\ Overflows(c, e) THEN RecentDrops(c)
                        ELSE dropped_at[c]]
    /\ closed' = [c \in Clients |-> closed[c] \/ (c \in S /\ TooSlow(c, e))]

-----------------------------------------------------------------------------
(* Client lifecycle and subscriptions *)

\* ClientSession(cid); a cid without a session counts as closed.
NewSession(c, isClosed) ==
    /\ subs' = [subs EXCEPT ![c] = {}]
    /\ queue' = [queue EXCEPT ![c] = <<>>]
    /\ closed' = [closed EXCEPT ![c] = isClosed]
    /\ dropped_at' = [dropped_at EXCEPT ![c] = <<>>]
    /\ seen' = [seen EXCEPT ![c] = [k \in Keys |-> 0]]

\* A cid is a fresh uuid4: it is never one the hub still works on.
create_client(c) ==
    /\ c \notin clients
    /\ removal[c] = NoRemoval
    /\ Cardinality(clients) < MAX_CLIENTS
    /\ clients' = clients \cup {c}
    /\ NewSession(c, FALSE)
    /\ UNCHANGED <<registryVars, task, removal, market>>

\* (mutant) a poller per subscription.
StartPoller_Always(k) ==
    \E t \in Tasks :
        /\ task[t].pc = "free"
        /\ task' = [task EXCEPT ![t] = Poller("fetch", k, 0)]
        /\ pollers' = [pollers EXCEPT ![k] = t]

\* The poller of k is started by its first subscriber only.
StartPoller(k) ==
    IF pollers[k] # NoTask THEN UNCHANGED <<pollers, task>>
    ELSE \E t \in Tasks :
            /\ task[t].pc = "free"
            /\ task' = [task EXCEPT ![t] = Poller("fetch", k, 0)]
            /\ pollers' = [pollers EXCEPT ![k] = t]

\* (mutant) a late subscriber waits for the next poll.
subscribe_NothingCached(c, k) ==
    /\ c \in clients
    /\ ~closed[c]
    /\ k \notin subs[c]
    /\ Cardinality(subs[c]) < MAX_SUBS_PER_CLIENT
    /\ subs' = [subs EXCEPT ![c] = @ \cup {k}]
    /\ slug_subs' = [slug_subs EXCEPT ![k] = @ \cup {c}]
    /\ StartPoller(k)
    /\ UNCHANGED <<clients, queue, closed, dropped_at, last_value, removal, market, seen>>

\* A repeated subscription returns early and changes nothing.
subscribe(c, k) ==
    /\ c \in clients
    /\ ~closed[c]
    /\ k \notin subs[c]
    /\ Cardinality(subs[c]) < MAX_SUBS_PER_CLIENT
    /\ subs' = [subs EXCEPT ![c] = @ \cup {k}]
    /\ slug_subs' = [slug_subs EXCEPT ![k] = @ \cup {c}]
    /\ StartPoller(k)
    /\ IF last_value[k] # 0
       THEN Enqueue({c}, [key |-> k, ver |-> last_value[k]])
       ELSE UNCHANGED <<queue, dropped_at, closed>>
    /\ UNCHANGED <<clients, last_value, removal, market, seen>>

\* The critical section of unsubscribe and the cancellation after it.  The last
\* subscriber takes the poller and the cached value away.
LastOne(c, k) == slug_subs[k] = {c}

\* (mutant) the cached value survives its poller.
DropSubscription_KeepsCache(c, k) ==
    /\ slug_subs' = [slug_subs EXCEPT ![k] = @ \ {c}]
    /\ IF LastOne(c, k)
       THEN /\ pollers' = [pollers EXCEPT ![k] = NoTask]
            /\ task' = [t \in Tasks |-> IF t = pollers[k]
                                        THEN [task[t] EXCEPT !.pc = "cancelled"]
                                        ELSE task[t]]
       ELSE UNCHANGED <<pollers, task>>
    /\ UNCHANGED last_value

\* (mutant) the poller is forgotten without being cancelled.
DropSubscription_NoCancel(c, k) ==
    /\ slug_subs' = [slug_subs EXCEPT ![k] = @ \ {c}]
    /\ IF LastOne(c, k)
       THEN /\ pollers' = [pollers EXCEPT ![k] = NoTask]
            /\ last_value' = [last_value EXCEPT ![k] = 0]
       ELSE UNCHANGED <<pollers, last_value>>
    /\ UNCHANGED task

\* (mutant) nobody stops the poller of an unwatched key.
DropSubscription_KeepsPoller(c, k) ==
    /\ slug_subs' = [slug_subs EXCEPT ![k] = @ \ {c}]
    /\ UNCHANGED <<pollers, last_value, task>>

DropSubscription(c, k) ==
    /\ slug_subs' = [slug_subs EXCEPT ![k] = @ \ {c}]
    /\ IF LastOne(c, k)
       THEN /\ pollers' = [pollers EXCEPT ![k] = NoTask]
            /\ last_value' = [last_value EXCEPT ![k] = 0]
            /\ task' = [t \in Tasks |-> IF t = pollers[k]
                                        THEN [task[t] EXCEPT !.pc = "cancelled"]
                                        ELSE task[t]]
       ELSE UNCHANGED <<pollers, last_value, task>>

\* Called on its own: the caller's wait for the cancelled task changes nothing.
unsubscribe(c, k) ==
    /\ c \in clients
    /\ k \in subs[c]
    /\ subs' = [subs EXCEPT ![c] = @ \ {k}]
    /\ DropSubscription(c, k)
    /\ UNCHANGED <<clients, queue, closed, dropped_at, removal, market, seen>>

\* (mutant) the list of keys is taken from the session after it was emptied.
remove_client_NoKeys(c) ==
    /\ c \in clients
    /\ clients' = clients \ {c}
    /\ NewSession(c, TRUE)
    /\ UNCHANGED <<registryVars, removal, task, market>>

\* remove_client up to its first unsubscribe.  The session object goes out of
\* scope with its queue; only its keys live on, in the list the loop runs over.
remove_client(c) ==
    /\ c \in clients
    /\ clients' = clients \ {c}
    /\ NewSession(c, TRUE)
    /\ removal' = [removal EXCEPT ![c] = Removal(subs[c], NoTask)]
    /\ UNCHANGED <<registryVars, task, market>>

\* Its loop: one unsubscribe per key, in the arbitrary order of list(set),
\* suspended on the poller that unsubscribe cancelled, if any.
RemoveKey(c, k) ==
    /\ removal[c].await = NoTask
    /\ k \in removal[c].keys
    /\ DropSubscription(c, k)
    /\ removal' = [removal EXCEPT ![c] =
                     Removal(@.keys \ {k}, IF LastOne(c, k) THEN pollers[k] ELSE NoTask)]
    /\ UNCHANGED <<clients, subs, queue, closed, dropped_at, market, seen>>

-----------------------------------------------------------------------------
(* Pollers *)

\* Upstream reads the market while it serves the request ...
UpstreamAnswers(t) ==
    /\ task[t].pc = "fetch"
    /\ task' = [task EXCEPT ![t] = Poller("reply", task[t].key, market[task[t].key])]
    /\ UNCHANGED <<sessionVars, queue, dropped_at, registryVars, removal, market, seen>>

Subscribers(k) == slug_subs[k] \cap clients

\* ... and the poller handles the answer some time later, fan-out included.
PollOk(t) ==
    LET k == task[t].key
        e == [key |-> k, ver |-> task[t].val]
    IN /\ task[t].pc = "reply"
       /\ last_value' = [last_value EXCEPT ![k] = e.ver]
       /\ Enqueue(Subscribers(k), e)
       /\ task' = [task EXCEPT ![t] = Poller("sleep", task[t].key, 0)]
       /\ UNCHANGED <<clients, subs, slug_subs, pollers, removal, market, seen>>

\* (mutant) the poller takes its cancellation for one more failed request.
PollFail_SwallowsCancel(t) ==
    /\ task[t].pc \in {"fetch", "reply", "cancelled"}
    /\ task' = [task EXCEPT ![t] = Poller("sleep", task[t].key, 0)]
    /\ UNCHANGED <<sessionVars, queue, dropped_at, registryVars, removal, market, seen>>

\* The request fails, or yields None: the poller just sleeps.
PollFail(t) ==
    /\ task[t].pc \in {"fetch", "reply"}
    /\ task' = [task EXCEPT ![t] = Poller("sleep", task[t].key, 0)]
    /\ UNCHANGED <<sessionVars, queue, dropped_at, registryVars, removal, market, seen>>

PollAgain(t) ==
    /\ task[t].pc = "sleep"
    /\ task' = [task EXCEPT ![t] = Poller("fetch", task[t].key, 0)]
    /\ UNCHANGED <<sessionVars, queue, dropped_at, registryVars, removal, market, seen>>

\* CancelledError reaches the task at its suspension point; whoever awaits it
\* is resumed.
TaskEnds(t) ==
    /\ task[t].pc = "cancelled"
    /\ task' = [task EXCEPT ![t] = FreeTask]
    /\ removal' = [c \in Clients |-> IF removal[c].await = t
                                     THEN Removal(removal[c].keys, NoTask)
                                     ELSE removal[c]]
    /\ UNCHANGED <<sessionVars, queue, dropped_at, registryVars, market, seen>>

-----------------------------------------------------------------------------
(* The consumer side of a queue, shutdown, and the environment *)

Consume(c) ==
    /\ queue[c] # <<>>
    /\ queue' = [queue EXCEPT ![c] = Tail(@)]
    /\ LET e == Head(queue[c])
       IN seen' = IF e = Bye THEN seen ELSE [seen EXCEPT ![c][e.key] = e.ver]
    /\ UNCHANGED <<sessionVars, dropped_at, registryVars, task, removal, market>>

shutdown ==
    /\ clients' = {}
    /\ closed' = [c \in Clients |-> closed[c] \/ c \in clients]
    /\ slug_subs' = [k \in Keys |-> {}]
    /\ pollers' = [k \in Keys |-> NoTask]
    /\ last_value' = [k \in Keys |-> 0]
    /\ task' = [t \in Tasks |-> IF \E k \in Keys : pollers[k] = t
                                THEN [task[t] EXCEPT !.pc = "cancelled"]
                                ELSE task[t]]
    /\ UNCHANGED <<subs, queue, dropped_at, removal, market, seen>>

MarketMoves(k) ==
    /\ k \in Volatile /\ market[k] < MaxVersion
    /\ market' = [market EXCEPT ![k] = @ + 1]
    /\ UNCHANGED <<sessionVars, queue, dropped_at, registryVars, task, removal, seen>>

\* Time passes; a drop older than the window needs no exact age.
Tick ==
    /\ \E c \in Clients : \E i \in DOMAIN dropped_at[c] :
            dropped_at[c][i] <= DROPPED_WINDOW
    /\ dropped_at' = [c \in Clients |-> [i \in DOMAIN dropped_at[c] |->
                        IF dropped_at[c][i] <= DROPPED_WINDOW
                        THEN dropped_at[c][i] + 1 ELSE dropped_at[c][i]]]
    /\ UNCHANGED <<sessionVars, queue, registryVars, task, removal, market, seen>>

-----------------------------------------------------------------------------

PollerStep ==
    \E t \in Tasks : \/ UpstreamAnswers(t)
                     \/ PollOk(t)
                     \/ PollFail(t)
                     \/ PollAgain(t)
                     \/ TaskEnds(t)

HubNext ==
    \/ \E c \in Clients : \/ create_client(c)
                          \/ remove_client(c)
                          \/ Consume(c)
    \/ \E c \in Clients, k \in Keys : \/ subscribe(c, k)
                                      \/ unsubscribe(c, k)
                                      \/ RemoveKey(c, k)
    \/ PollerStep
    \/ shutdown
    \/ Tick
    \/ \E k \in Keys : MarketMoves(k)

HubSpec == HubInit /\ [][HubNext]_hubVars

-----------------------------------------------------------------------------
(* Properties *)

Running(t) == task[t].pc \in {"fetch", "reply", "sleep"}

\* A poller is registered for a key exactly while somebody is subscribed to it,
\* and a cached value never outlives the poller that keeps it fresh: the
\* reference counting of the module docstring, kept in three dictionaries that
\* different methods update.
RefCounted ==
    \A k \in Keys :
        /\ pollers[k] # NoTask <=> slug_subs[k] # {}
        /\ last_value[k] # 0 => pollers[k] # NoTask

\* The registered poller of a key is a running task for that key, and no other
\* task runs for it: a poller that lost its registration can no longer touch the
\* cache or a queue, even when a new poller of the same key starts before the
\* old one has ended.
OnePollerPerKey ==
    /\ \A k \in Keys : pollers[k] # NoTask =>
            Running(pollers[k]) /\ task[pollers[k]].key = k
    /\ \A t \in Tasks : Running(t) => pollers[task[t].key] = t

\* session.subs and slug_subs tell the same story, except for the keys a
\* suspended remove_client has not reached yet.
SubscriptionsAgree ==
    \A c \in Clients, k \in Keys :
        /\ c \in clients /\ k \in subs[c] => c \in slug_subs[k]
        /\ c \in slug_subs[k] => \/ c \in clients /\ k \in subs[c]
                                 \/ k \in removal[c].keys

\* Coalescing leaves at most one pending event per key.
Coalesced ==
    \A c \in Clients : \A i, j \in DOMAIN queue[c] :
        queue[c][i].key = queue[c][j].key => i = j

\* A subscriber that lost nothing to overflow has the newest polled value in
\* its queue or has already taken it, whether it subscribed before or after
\* the poll and however often it left and came back.
NoMissedUpdate ==
    \A c \in clients : \A k \in subs[c] :
        last_value[k] # 0 /\ dropped_at[c] = <<>> =>
            \/ seen[c][k] = last_value[k]
            \/ \E i \in DOMAIN queue[c] :
                    queue[c][i] = [key |-> k, ver |-> last_value[k]]

\* A connection never sees a market go back to an older version, across
\* coalescing, cached first events, re-subscription and replaced pollers.
NeverBackwards ==
    [][\A c \in clients : c \in clients' =>
         \A k \in Keys : seen'[c][k] >= seen[c][k]]_hubVars

\* RealtimeHub implements MarketFeed: to its consumers the pollers, the queues and the
\* suspended removals look like mailboxes that are filled and emptied in one step, in
\* which a publication reaches everybody who watches and has room, versions never go
\* back, and what is stored is forgotten only when nobody watches.
Live(c) == c \in clients /\ ~closed[c]
EventsOf(q) == {q[i] : i \in DOMAIN q}
Promise == INSTANCE MarketFeed WITH
    Room <- QUEUE_MAXSIZE,
    open <- {c \in Clients : Live(c)},
    watching <- [c \in Clients |-> IF Live(c) THEN subs[c] ELSE {}],
    mailbox <- [c \in Clients |-> EventsOf(queue[c]) \ {Bye}],
    stored <- last_value
ImplementsFeed == Promise!FeedSpec

\* The hub closes a session when, and only when, DROPPED_THRESHOLD drops fell
\* inside one window (drops further apart never add up), and nothing is queued
\* behind the final "bye".
SlowClientsClosed ==
    \A c \in clients :
        /\ closed[c] <=> Len(dropped_at[c]) >= DROPPED_THRESHOLD
        /\ \A i, j \in DOMAIN dropped_at[c] :
               dropped_at[c][i] - dropped_at[c][j] <= DROPPED_WINDOW
        /\ \A i \in DOMAIN queue[c] :
               queue[c][i] = Bye => closed[c] /\ i = Len(queue[c])

=============================================================================
