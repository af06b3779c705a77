# Verification of predictionterminal

TLA+ models of the concurrent and distributed parts of the prediction-market
terminal, the TLC runs that check them on small instances, and TLAPS proofs of
their safety properties for every instance. All paths below are relative to
`src/api/src/pfm/` unless they begin with another directory of the repository.

* `tlc -config X.cfg M` checks a run (module and cfg are in the table of runs).
* `tlapm M_proofs.tla` checks proofs; the table of theorems says which module has which.
* `PROJECT.json` lists components, runs, the source lines of every definition,
  the hazards of the code, and for every property a mutation of the model, in
  the form of a plausible bug, that TLC finds with that property.

## 1. The system

One Docker image runs a FastAPI application under gunicorn: a master process and
several workers (`src/api/Dockerfile` 105-112), which are recycled every 5000
requests and killed when they do not answer for 90 s. Every worker executes the
same `lifespan` (`main.py`), so that work which must happen once per deployment
is given to one worker by an election in Redis. Redis is optional; without it
every part falls back to something local. Inside a worker one asyncio loop and a
thread pool share the in-process state.

| Component | State | Operations | Interacts with | What makes it correct |
|---|---|---|---|---|
| **Realtime hub** `realtime/hub.py` | `clients`, `slug_subs`, `pollers`, `last_value`; per session `queue`, `subs`, `dropped_at`, `closed` | `create_client`, `remove_client`, `subscribe`, `unsubscribe`, `_run_poller`, `_fanout`, `_enqueue`, `shutdown` | called by the stream; awaits pollers | the four dictionaries agree; one poller per watched key; the newest value reaches every subscriber; nobody sees a market go back; slow clients are closed at the threshold |
| **Terminal SSE stream** `realtime/stream.py` | one coroutine per connection | request, subscribe loop, generator, disconnect, `finally` | hub; the peer | a finished connection leaves nothing behind; a peer that leaves is noticed; within the subscription limit nothing is dropped |
| **Pollers** `realtime/pollers.py` | slug-to-token cache with negative entries, its lock | `poll_*`, `resolve_yes_token_id` | hub, CLOB, Gamma | a slug is resolved once; no cancellation keeps the lock; a subscriber catches up |
| **Redis lock** `redis_lock.py` | the key and its TTL in Redis; `acquired` and `owner_id` in each process | `acquire`, `renew`, `release`, `is_held_by_me` | Redis; both leaders below | exclusive while confirmed; only the owner touches the key; a dead owner's lease ends |
| **Crypto WS leader** `main.py` 474-546, 1425-1462 | lock, engine, renew task of each worker | boot election, renew loop, shutdown | Redis lock, Binance | one Binance connection; after recycling somebody connects again |
| **Arb engine leader** `main.py` 548-815, 1464-1500 | lock, engine process, refresher, `arb_is_leader` | election, orphan scan, spawn, refresh or give up, shutdown | Redis lock, processes of the host | one engine process; no stale lease |
| **CLOB WS leader** `main.py` 816-952 | the same, with its own `SET NX` | election, subscriber, renew | Redis, Polymarket WS | one subscriber |
| **CLOB midpoint subscriber** `crypto5min/market_fetcher.py` | token set, pending additions and removals, midpoints in the process and in Redis | replace the set, connect, drain, send, ingest, serve | Polymarket WS, Redis, rotation task | the set converges to what is wanted, within the cap; removed tokens stop being served |
| **Price mirrors** `main.py` 1098-1300 | the shared Redis key, the refresh lock, the map in each worker | read the key, take the lock, fetch, share | Redis, venues | one worker fetches at a time; staleness is bounded, and by how much; failures cost a period each |
| **Redis cache, cache pool** `cache.py`, `cache_pool.py` | L1 dictionary and expiry heap, L2 in Redis, locks per key | `get`, `set`, `delete`, `clear`, `get_or_compute*` | endpoints, threads, Redis | bounded; no value outlives its ttl by more than a promotion; one computation per miss |
| **Terminal TTL cache** `terminal/__init__.py`, `cache_utils.py` | L1 and L2 | `get`, `set` | endpoints | as above |
| **Alerts** `alerts/` | rules, events, throttle windows and digest buffers in sqlite | evaluation pass, re-arm, throttle, flush, rule changes | channels, price sources | a crossing fires once; no recorded event disappears |
| **API keys, rate limits** `auth/` | counters per minute and day | check and count | endpoints | the limit is neither exceeded nor undercut |
| **Arb discovery** `arb/` | crawl checkpoint, confirmed pairs (JSON) | crawl step, price, record | venues, files, requests and the arb leader's loop | every pair of pages is matched in the end; no confirmed pair is lost, no file broken |
| **Five-minute predictor** `crypto5min/` | sample buffer, window anchor | add sample, anchor | feeds | the anchor belongs to its window |
| Everything else | — | views, analytics, archives, front end, scripts | | see section 8 |

### Which behaviours are hard

* **Interleaving within a worker.** Hub methods are atomic up to their awaits;
  `remove_client` gives its keys back one at a time and waits for the cancelled
  poller in between, while other connections subscribe to the same keys and a
  second poller starts before the first has ended.
* **Interleaving of workers.** Election, engine start, renewal and shutdown of
  one worker run between those of another; Redis expires keys in between.
* **Interleaving of threads and processes over shared data.** Cache callers between
  L1, the heap and Redis; evaluation passes over one store; discovery steps over two
  files without a lock.
* **Failure.** Commands whose reply is lost, workers that die or stall, an
  engine that dies or outlives its worker, no Redis at boot, no `pgrep`; a process
  that dies between two transactions or two file operations.
* **Progress.** A disconnect noticed only between two reads; a lease that must
  pass on; followers that never ask again.

The hazards are listed at their lines in `PROJECT.json`, each with the
properties that would catch it or with the reason why none does.

## 2. Plan

Written, in this order (the core first: every live view of the product goes
through the hub, and every once-per-deployment job through a lease):

1. `RealtimeHub`, with its proofs; 2. `TerminalStream`, its composition with its
only caller, and `StreamPollers`, that with the poll functions; 3. `Lease`, the abstract
promise, and `RedisLock`, which implements it, with `RedisLockCalls` and its proofs;
4. `CryptoWsLeader` and 5. `ArbEngineLeader`, each the
composition of several workers with one `RedisLock` key; 6. `PriceMirror`, workers
that share a map through an expiring key and a lock nobody releases, with its
proofs.

7. `CachePool`, threads and coroutines over a bounded dictionary and a shared
second layer; 8. `AlertPass`, passes and a digest flusher over one store, with
deaths; 9. `Discovery`, steps of several threads and processes over two files;
10. `ClobSubscriber`, a set that is replaced faster than it is applied; 11. `MarketFeed`,
the abstract promise of the hub. Each of 4, 5 and 7-10 has proofs too.

Left, in this order: the CLOB election of `main.py` 816-952 (a third leader; what
is new in it is that a refused renewal ends the renewer and leaves the
subscriber running); `RateLimiter` and `WindowAnchor` (small, mostly boundary
cases). Every safety property the runs check is a theorem. Worth stating next are
abstract promises of the price mirror and of the cache, as `Lease` and `MarketFeed`
are for the lock and the hub.

## 3. Modules

| Module | Models | Uses |
|---|---|---|
| `MarketFeed` | what the hub promises: a mailbox per session with one place per key | |
| `RealtimeHub` | `realtime/hub.py` | `MarketFeed` |
| `MCRealtimeHub` | symmetry of clients, keys, tasks | `RealtimeHub` |
| `RealtimeHub_proofs` | theorems of the hub, of the stream and of the pollers | `StreamPollers` |
| `TerminalStream` | `realtime/stream.py` | `RealtimeHub` |
| `StreamPollers` | `realtime/pollers.py` under `_run_poller` | `TerminalStream` |
| `MCStreamPollers` | the one slug of the instance | `StreamPollers` |
| `Lease` | what a lock promises: at most one leader, and never a leader replaced directly by another | |
| `RedisLock` | `redis_lock.py` and the Redis commands it issues | `Lease` |
| `RedisLockCalls` | `RedisLock` with a history of who calls | `RedisLock` |
| `RedisLock_proofs` | theorems | `RedisLockCalls` |
| `CryptoWsLeader` | the crypto part of `lifespan` | `RedisLock` |
| `CryptoWsLeader_proofs` | theorems | `CryptoWsLeader`, `RedisLock_proofs`, `Lease` |
| `ArbEngineLeader` | the arb part of `lifespan` | `RedisLock` |
| `ArbEngineLeader_proofs` | theorems | `ArbEngineLeader`, `RedisLock_proofs`, `Lease` |
| `PriceMirror` | the Gamma price loop of `lifespan` (the Kalshi loop is the same) | |
| `ClobSubscriber` | `ClobMidpointSubscriber` of `crypto5min/market_fetcher.py` | |
| `Prices_proofs` | theorems of the two sources of prices | `PriceMirror`, `ClobSubscriber` |
| `CachePool` | `cache_pool.py`, over `cache.py` | |
| `MCCachePool` | symmetry of keys and threads | `CachePool` |
| `CachePool_proofs` | theorems | `CachePool` |
| `AlertPass` | `alerts/engine.py`, `alerts/storage.py`, the fan-out of `alerts/channels.py` | |
| `AlertPass_proofs` | theorems | `AlertPass` |
| `Discovery` | `arb/discovery_pipeline.py`, `arb/market_crawler.py`, `arb/confirmed_store.py` and their two callers | |
| `MCDiscovery` | the matches of the instance | `Discovery` |
| `Discovery_proofs` | theorems | `Discovery` |

### RealtimeHub

Variables have the names of the attributes. A key is a `(kind, slug)` pair, a
payload is the *version* of the market it was sampled from, so that "newest" and
"goes back" have a meaning; `market` and `seen` are the environment and a
history. `task` holds each poller's suspension point: `fetch` (request on its
way), `reply` (answered upstream, not yet handled here), `sleep`, `cancelled`
(the exception has been requested but not delivered). `removal` holds the
`remove_client` calls that are suspended between two keys.

An action is the stretch of a coroutine up to its next suspension:
`create_client`, `subscribe` (which enqueues the cached value), `unsubscribe`,
`remove_client` followed by one `RemoveKey` per key, `UpstreamAnswers`, `PollOk`
(cache and fan-out), `PollFail`, `PollAgain`, `TaskEnds`, `shutdown`. `_enqueue` is
the operator `QueueAfter`: coalesce where the event stands, append, or drop;
`RecentDrops` is `_record_drop` with its window.

The code takes an uncontended `asyncio.Lock`, which does not suspend; the hub's
critical sections contain no await, so the lock is never found taken.

### MarketFeed

What a consumer may rely on, with nothing of how the hub does it: no pollers, no
queues, no reference counts. A session watches keys and has a mailbox with one place
per key. `Publish` puts a version into the mailbox of everybody who watches the key,
and only a version no older than what anybody has been given; `Offer` leaves out who
has no room, or closes the session. `Watch` gives what is stored, `Forget` needs that
nobody watches. `RealtimeHub` implements it (`ImplementsFeed`) with the events of a
queue as the mailbox and `subs` of the live sessions as what is watched; a poll that
succeeds is a `Publish`, and the steps of a suspended removal, of requests and of
cancelled tasks are stutters or `Unwatch`.

### TerminalStream

`conn` is the place of each connection's coroutine, from the request to the end
of the `finally` clause. Every await is a place where others run. `AbandonResponse`
is the server cancelling a response whose body was not iterated yet: an async
generator that was not started has no `finally` to run.

### StreamPollers

In the hub's model a request is answered or fails. `StreamPollers` has what lies
between a poller's wake-up and its answer: `token` is `_TOKEN_CACHE`, with the sentinel of
a slug that did not resolve, and `place` says where in its poll function each task is:
waiting for the process-wide `_TOKEN_CACHE_LOCK`, holding it in the request to Gamma,
or with the CLOB. `FirstLook` and `SecondLook` are the looks before and after the lock,
which is granted in turn and released by a cancellation (`Cancelled`) when that is
delivered. Every end of the Gamma request is an action: a token (`GammaKnows`), any HTTP
error, timeout or payload without one, stored as unresolvable (`GammaFails`), and a payload
of a shape the code does not expect, whose error passes the cache (`GammaRaises`).
Several kinds share a slug (`SlugOf`), hence a place in the cache. Every step is one of
`TerminalStream` or none, so that its theorems hold here. A tick full of nulls, which
`poll_tick` returns when all three of its requests fail, is taken for no answer, as it
says nothing of the market.

### Lease and RedisLock

`holder` and `ttl` are the key in Redis, `acquired` the attribute. The instance
stands for its `owner_id`, which is unique. Each Lua script and each `SET NX` is
one action at the moment Redis executes it; `AcquireReplyLost` and
`RenewReplyLost` are the calls whose reply does not come back. `confirmed` is a
history, the ticks since Redis last said that the key is the instance's own; an
instance is *valid* while that is less than the TTL. `Lease` is implemented with
the set of valid instances as its leaders. `RedisLockCalls` records who makes each call,
for `OnlyOwnerTouchesKey` is about who did it: what a foreign call does to a key cannot
be told from what the key becomes.

### CryptoWsLeader, ArbEngineLeader

A worker is a state machine over the lines of `lifespan`: boot and election,
start of the engine, periodic renewal, shutdown in two steps (stop the engine,
delete the key), death. The gunicorn master boots what went away. One tick is the
renewal period: `ttl // 2` for crypto (TTL 2, one tick), `ttl // 3` for arb (TTL 3,
one tick). What can go wrong is a constant, `Faults`; `happened` remembers what
did, so that one run states what holds after which faults. A worker is late by a
whole tick only if `"stall"` is among the faults.

The two differ in the code, and in the models: the crypto renewal ignores what
`renew` returned and its shutdown deletes the key whoever owns it; the arb
refresher uses its own compare-and-expire, ends when refused, gives the lease
back when its engine is dead, and the shutdown compares before it deletes. Arb
engines are processes with a life of their own (`running`, `terminating`, `none`)
that survive the death of their worker; the next leader's scan terminates every
engine it finds.

### PriceMirror

`cached`, `cachedTtl` and `lockTtl` are the two keys in Redis, `pc` the place in the
loop, `stale` the age of the map a worker shows (or the time it has had none). A map
is represented by its age alone, so that staleness is a number the properties can
bound. The refresh lock is a `RedisLock` instance that is thrown away at once, so
only its expiry matters. `Faults` and the budget `MaxFaults` say what may go wrong and
how often; the bound on staleness grows with the faults that have happened.

### ClobSubscriber

`subscribed`, `adding`, `removing` and `wake` are the attributes; `sending` is the
message on its way, `server` the list the other side pushes, `late` the tokens of a
replaced list whose messages are still in flight, `wanted` a history. The actions
are the stretches between two awaits of the rotation task (`Rotate`, with
`replace_tokens`, `add_tokens` and `remove_tokens`), the consumer (`Connect`), the
mutation loop (`Mutate`, `Sent`) and the receive loop (`ingest_message`), and what
the world does (`Disconnect`, `LateEnds`, `Grows`). Which tokens a trim or the cap
keeps is a choice, as the code takes them from a set in its iteration order. A
midpoint is fresh or old, in the process and in Redis, and `Served` is what
`fetch_clob_midpoint` answers without REST.

### CachePool

`l1` and `heap` are the dictionary and the heap, `l2` the age of the value Redis has
for each key, `degraded` the flag, `call` where each caller is between the steps of
`get`, `set`, `delete`, `clear` and `get_or_compute`: first look, Redis, promotion,
lock, second look, `fn()`, store. Every touch of L1 is one action, as it is under
`self._lock`; Redis commands are others, and anybody may run in between. `Popped`
says which heap entries eviction takes without saying in which order equal ones
come. A value is its age: whether it is stale, how stale, and who computed it is
all the properties need. Threads and coroutines differ in the lock they take.

### AlertPass

`row` is the table of rules, `channel` the row of the throttle table. `pass` is what
an evaluation has read and not yet acted on; every transaction of the store is an
action: `RecordEvent` and `MarkFired`, the two of a firing, `Rearm`, `Deliver`
(throttle and send), `FlushBuffer` and, after its commit, `SendDigest`. Rules are
saved, switched, deleted and prices move between any two. A digest whose channel has no
live type or no target (`addressed`) is thrown away (`DiscardDigest`). `Crash` takes the
passes and the digest in hand. `missing`, `last` and `mishaps` are histories.

### Discovery

`ckpt`, `file` and `tmp` are the contents of the checkpoint, of the store and of the
temporary files, one per process; `thread` is how far each thread is in its step:
crawl, save the checkpoint, price what was matched, load the store, write the
temporary file, rename it. Opening, writing and renaming are separate actions, and
a write that started on a file which has changed since may leave a mixture
(`Torn`). A position of the checkpoint may hold a cursor that Kalshi has dropped (`dead`,
`CursorExpires`): every sweep from there fails (`CrawlDone` needs a live one), and only a
sweep that succeeds would write another. A match has a rank, and `Best` are the
`MAX_PRICED_CANDIDATES` that are priced; `Arbs` are the matches that may be arbitrages. `overlaps` is a history of steps that had the store loaded at the same
time, in one process or in two.

## 4. Runs

| Run | Module, cfg | Checks | Bounds, and why they are enough |
|---|---|---|---|
| `hub_registry` | `MCRealtimeHub`, `RealtimeHub.cfg` | `RefCounted`, `OnePollerPerKey`, `SubscriptionsAgree`, `ImplementsFeed`, `NoMissedUpdate`, `NeverBackwards` | Keys do not interact except in a queue, so one key with two clients; three tasks let two cancelled pollers and a live one overlap; three versions separate older, cached and newest |
| `hub_overflow` | `MCRealtimeHub`, `RealtimeHub_overflow.cfg` | `SlowClientsClosed` | One slot and two keys overflow; threshold 2 and window 1 give drops that add up and drops that do not |
| `stream` | `TerminalStream`, `TerminalStream.cfg` | `NoTraceLeft`, `DisconnectCleansUp`, `ReleasedPollersStop` | Two connections on one key: the one leaves while the other arrives. One version, as the properties are not about values |
| `stream_delivery` | `MCStreamPollers`, `StreamPollers.cfg` | `NeverDrops`, `ResolvedOnce`, `SubscriberCatchesUp` | Two keys and two slots, the case the limit of subscriptions guarantees; one of the markets moves (`Volatile`), the other is the one that might push its events out. Both keys are of one slug, so that two pollers meet in the cache and at its lock |
| `lock` | `RedisLockCalls`, `RedisLock.cfg` | `LeaseHeld`, `OnlyOwnerTouchesKey`, `ImplementsLease`, `OrphanLeaseEnds` | An owner, a successor and a third; one instance without a client; TTL 4 leaves room for ages strictly inside the lease |
| `crypto` | `CryptoWsLeader`, `CryptoWsLeader.cfg` | `OneConnectionInCalm`, `LeaderHoldsKey`, `AlwaysALeaderAgain` | Two workers race; three tokens online, so that an orphan lease, an old and a new leader coexist; every fault |
| `arb` | `ArbEngineLeader`, `ArbEngineLeader.cfg` | `OneEngineUnlessBlind`, `NoStaleLease`, `OnlyOwnerTouches`, `AlwaysAnEngineAgain` | Two workers, two engine processes, two tokens online (a third would need a third live worker or a second orphan lease of the same key), one offline; every fault |
| `prices` | `PriceMirror`, `PriceMirror.cfg` | `OneFetcher`, `StalenessBounded`, `StalenessRecovers` | Three workers: one holds the lock, one waits, one sleeps. A period of two ticks and a life of five, no multiple of it, put the workers out of phase; the bound is tight there (one tick less fails) |
| `clob` | `ClobSubscriber`, `ClobSubscriber.cfg` | `OnlyWanted`, `InStep`, `Converges`, `GhostsFade` | Three tokens over a cap of two: the cap and the trim both bite, and a token can leave and come back while another takes its place. Midpoints are independent of each other, so one token has one |
| `cache` | `MCCachePool`, `CachePool.cfg` | `L1Bounded`, `CachedAgeBounded`, `SingleFlight` | Two keys over one entry evict each other; two threads race. Coroutines are to each other what threads are, and share nothing with them but L1 and L2, so that two threads race in the same ways. A ttl of three and a promotion of two let a promoted entry outlive its original, and a second promotion come too late |
| `alerts` | `AlertPass`, `AlertPass.cfg` | `Accounted`, `OneEventPerCrossing`, `SilencedByEvent` | One crossing rule (two rules would meet in the throttle, which two passes fill with one, and when one is deleted under a pass, which the properties except), two passes, one death, and one event a minute, so that the second is buffered; three undelivered events before no pass starts. A cooldown of two ticks is longer than the throttle window |
| `discovery` | `MCDiscovery`, `Discovery.cfg` | `StoreWhole`, `KeepsEverything`, `EveryArbRecorded` | The loop, a request in its process and one in another worker: both kinds of overlap. Two and three pages, the smallest laps that are coprime and both more than one; two arbitrages, so that one can be lost when the other is recorded, and a better match on the pages of the second, which a step of two pages may meet with both; two candidates are priced, so that one of three is left out; one request and one death anywhere |

Bounds that are not in the code: `MaxFaults`, `MAX_MISSING`, `MAX_REQUESTS`,
`MAX_CRASHES`, `MaxVersion` and `Volatile` (how often which
market moves), the pools `Tasks`, `Engines` and `Locks` (a new task, process or
token is taken from those not in use; the action waits when there is none).
Symmetry is used only in runs without liveness. The limits `MAX_SUBS_PER_CLIENT`,
`MAX_CLIENTS` and `QUEUE_MAXSIZE` are the code's constants, made small but kept in
their order. Type invariants are not among the checks of the runs: they are proved.

What the passing runs show, where it is not obvious:

* The hub's registry is right under every interleaving of its awaits, including
  a subscriber that arrives between the release of the last subscription and the
  end of the cancelled poller, and a shutdown in the middle of a removal.
* The hub is a feed of mailboxes: coalescing in a queue, polls that overlap, values
  cached for who comes later and removals that give up one key at a time are not
  visible to a consumer, but for events missed when there is no room.
* The overflow machinery is never used by the stream: with no more keys than
  queue slots, coalescing alone bounds the queue.
* Exclusivity of the lock is a statement about confirmed leases. `acquired`
  alone promises nothing: it stays set when a renewal fails.
* The crypto stream is unique as long as nothing but deaths and recycling
  happens. A stall, a failed command or a boot without Redis each breaks it.
* The arb engine tolerates more, deaths and lost commands included, because the
  scan kills whatever is left; it depends on the scan and on punctuality.
* A worker's prices may be as old as the life of the shared key and one period
  less a tick, and every failure adds a period: an outage of upstream of *n* fetches,
  a restart in the middle of a fetch, a lost `SET NX`. Nothing adds more, although
  the lock is never released.
* The event of the mutation loop is cleared before the set is sent, so that a change
  during the send wakes the loop again; clearing it afterwards would lose the change.
* However fast the token set is replaced, what is still to be applied is wanted; the
  converse fails for a token that is dropped and wanted again before the change was
  applied, and for a trimmed one, which is why `Converges` takes another rotation.
* A promotion from Redis may bring a deleted or overwritten value back into L1, but
  for 30 s more than its ttl at most; and eviction, which walks a heap full of entries
  that are no more, always finds the live one.
* The two transactions of a firing need no common one: a death between them costs a
  second event, never a silent rule (`SilencedByEvent`). In the opposite order, or if
  a re-arm stored the time, a rule would be silenced without an event.
* The token cache and its lock lose no poller: whichever kind resolves a slug, and
  whoever is cancelled in the lock or in the request, the others go on. What a
  subscriber depends on is that the first resolution of its slug succeeds.
* The checkpoint may move on before the work is done, because the crawl is periodic:
  what a death loses is met again on a later lap, if the laps are coprime, the match
  has a place among those priced, and Kalshi still knows the cursor.

### Fairness

* `SchedulerFairness` (stream): a coroutine that can run is run, and a requested
  cancellation is delivered. This is asyncio's loop. Requests, disconnects,
  shutdown and market moves have none.
* `FairPollersSpec`: what the loop can run is run, as above; a sleep ends; a request to
  Gamma does not for ever end with a payload of an unexpected shape, and a CLOB that is
  asked for ever answers again (strong fairness). Gamma's requests may fail for ever
  in the ways the code catches: then the slug is unresolvable, which
  `SubscriberCatchesUp` names.
* `FairCallsSpec` (lock): time passes.
* `FairMirrorSpec`: time passes, and a request ends, with its timeout at the latest.
* `FairClobSpec`: the rotation that finds the same tokens again comes for ever, the
  mutation loop runs when woken, a send ends, messages in flight end, time passes.
  No connection is made to succeed or to last: `Converges` is about one that does.
* The alerts have none: nothing in the application schedules a pass or a flush.
* `FairDiscoverySpec`: the loops tick, a step goes on, and a crawl that is repeated
  for ever from a cursor Kalshi knows succeeds for ever again (strong fairness, for the
  loop only). Nothing makes a request come.
* The leaders: time passes, and a worker goes on with what it has begun, with its
  boot (the master replaces what went away) and with its periodic work. Nothing
  makes a worker shut down or die, and a dead engine is not made to come back.

## 5. Seen while modelling

Behaviour that differs from what the code's comments or documents say, or that the
properties had to be stated around. None has a run of its own: each is a state or a
fault of the model that the properties name.

* `remove_client` is called only from the `finally` of a generator
  (`realtime/stream.py:196`). If the peer leaves before the response body is
  iterated, the session and its pollers stay, against `realtime/hub.py` 19-21. This
  is the place `abandoned` of a connection, which `NoTraceLeft` and
  `ReleasedPollersStop` except.
* The crypto renew task ignores a refused renewal (`main.py:531`), and at `ttl // 2`
  one failed renewal is enough for a second stream, against `main.py` 478-480:
  `OneConnectionInCalm` is about runs in which commands do not fail.
* "A follower picks up on its next renewal tick" (`main.py` 523-525), but a follower
  has none; if the crashed leader's replacement boots within the TTL, nobody leads
  until some worker is recycled. `AlwaysALeaderAgain` is about runs without deaths.
* Prices are said to be refreshed every 60 s (`terminal/watchlist.py` 396-397,
  `main.py:2431`, `DEPLOYMENT.md:50`); every 60 s the loop only reads the shared key,
  which lives for 300 s (`main.py:1115`): `StalenessBounded` has both in its bound. The
  bound needs a period no longer than the life of the key (`KeyOutlivesPeriod`).
* The fallback without Redis asks `GUNICORN_WORKERS`, default 1 (`main.py:628`), where
  the image starts four workers by default (`src/api/Dockerfile:106`) and
  `docker-compose.yml:64` turns the autostart on and leaves the variable unset: if
  Redis does not answer at boot, every worker spawns an engine. This is the fault
  `"offline"` with `GUNICORN_WORKERS = 1`, and `OneEngineUnlessBlind` excludes it.
* `arb_is_leader` is read once, at boot (`main.py:1382`): a leader whose engine died and
  who gave its lease back keeps its discovery loop, and the next leader starts
  another, against `fly.toml` 70-71.
* When Redis stops answering after the boot, `RedisLock.acquire` answers no, and
  the branch of the price loop that means to fetch directly (`main.py` 1134-1135) is
  never taken: no worker gets new prices until Redis is back. The volumes are set
  in the worker that fetched only (1181); the others show prices without them.
* The crypto shutdown deletes the key by name (`main.py:1449`), where the lock's
  docstring wants the owner compared. While nothing but deaths happened the stopping
  worker owns that key (`LeaderHoldsKey`); after a stall it is a successor's.
* When the arb engine dies the refresher releases the lease "so another worker
  takes over" (`main.py:743`), yet followers do not ask again, and boot is the
  only election; an engine comes back with the next recycled worker.
* The scan for orphans uses `pgrep`, which `python:3.12-slim` does not contain;
  its error is taken for "no orphans" (`main.py` 661-663). This is the fault
  `"scan"`, and `OneEngineUnlessBlind` excludes it.
* `fly.toml` 52-55 says that without Redis every worker spawns an engine; the code
  spawns only where `GUNICORN_WORKERS` is 1. The comment in `main.py` 617-621 speaks
  of an implementation that is no longer there.
* "Repeated calls walk the whole universe" (`strategies_arb_router.py` 1439-1441 and
  1514-1515): the two listings are walked in step, and pages are matched only if one
  step crawls both. If the lengths of the laps have a common divisor, some pairs of
  pages never meet: `EveryArbRecorded` is about coprime laps.
* Two discovery steps that record at the same time overwrite each other's entries,
  since each rewrites the whole file from its own copy (`arb/confirmed_store.py`
  159-165, 222-224); in one process they share the temporary file, which is named by
  the pid, and can break the store. `KeepsEverything` and `StoreWhole` except them.
* "Repeated calls walk the whole universe" has two more exceptions. Of the matches of a
  step the `MAX_PRICED_CANDIDATES` (50) best are priced, and every lap meets the same
  ones. A Kalshi cursor that has expired makes every sweep fail
  (`arb/market_crawler.py:466`), as the checkpoint that holds it is replaced by a
  successful sweep only; nothing but a request that loaded an older one, a torn file or
  a hand ends that. `EveryArbRecorded` names both.
* A slug whose first resolution fails, for whatever reason, is dead for every kind and
  every connection of the worker as long as it lives (`realtime/pollers.py:79`), where
  the hub means to "never let a transient upstream error kill the task" (`realtime/hub.py`
  202-203): the task lives and polls nothing. `SubscriberCatchesUp` excepts such a slug.
* `CachePool._l2_set` catches `PicklingError`, `TypeError` and `AttributeError` only: the
  `RuntimeError` of `_encode_l2` (production without an HMAC secret) escapes `set` and
  `get_or_compute`, after L1 was written. `CachePool.delete` does not reach L2 with the
  repository's own `RedisCache`, which has no `delete`.
* Two overlapping evaluation passes record one crossing twice; `OneEventPerCrossing`
  excepts them. Nothing in the application but tests calls `evaluate_all` or
  `flush_pending_digests`; `fanout` is called, without the throttle, by the dry run of a
  rule (`alerts/router.py:196`), which records nothing.
* A digest whose channel has no live type or target is reported as delivered
  (`alerts/channels.py:559`) and its events are gone, against "buffered ... instead of
  being dropped": `Accounted` excepts it.
* `flush_pending_digests` empties the buffers and commits before the caller has sent
  anything (`alerts/storage.py:460`): a death there loses the digest, which `Accounted`
  excepts.
* A token that is dropped and wanted again before the pending changes were applied is
  lost until the next rotation: in `replace_tokens` (`crypto5min/market_fetcher.py:684`)
  the present set is computed as `subscribed | (adding - removing)`, and the drain
  applies removals last.

## 6. Proofs

Every proof is for all values of the constants that satisfy the named
assumptions (`HubAssumption`, `SlugAssumption`, `LockAssumption`, `CryptoAssumption`, `ArbAssumption`,
`MirrorAssumption`, `ClobAssumption`, `CacheAssumption`, `AlertAssumption`,
`DiscoveryAssumption`): any number of clients, workers, keys, rules, threads and pages.
All are what the code's own constants and constructors guarantee. Some theorems have
a premise besides:

* `RenewsInTime`, `RENEW_EVERY < TTL` (`ttl // 2` in the code), for the crypto leader;
* `KeyOutlivesPeriod`, `REFRESH <= TTL` (60 s and 300 s), for the staleness of prices,
  which is false without it: the lock then holds everybody off an expired key;
* `SlotsSuffice`, `MAX_SUBS_PER_CLIENT <= QUEUE_MAXSIZE` (60 and 256), for `NeverDrops`;
* the two refinements of the leaders are about behaviours in which certain faults never
  happen: `[]Calm` (nothing but deaths) for crypto, and for arb that no engine goes
  unseen by a scan. With those faults there really are two streams and two engines
  (section 5); runs without them are most of the behaviours of either model.

| Module | Theorem | States |
|---|---|---|
| `RealtimeHub_proofs` | `HubInvariant`, `HubTypeCorrect` | `HubInv` is an invariant of `HubSpec`; `HubTypeOK` |
| | `PollersAreRefCounted`, `PollersAreUnique` | `RefCounted`, `OnePollerPerKey` |
| | `SubscriptionsStayInStep`, `EventsAreCoalesced` | `SubscriptionsAgree`; `Coalesced`, one event per key in a queue |
| | `NoUpdateIsMissed`, `TimeNeverGoesBack` | `NoMissedUpdate`, the action property `NeverBackwards` |
| | `OnlySlowClientsAreClosed` | `SlowClientsClosed` |
| | `HubImplementsFeed` | `ImplementsFeed`: `RealtimeHub` refines `MarketFeed` |
| | `StreamImplementsHub` | `StreamSpec => HubSpec`: all of the above hold of the stream |
| | `ConnectionsLeaveNoTrace`, `StreamsNeverDrop` | `NoTraceLeft`, `NeverDrops` |
| | `PollersImplementStream` | `PollersSpec => StreamSpec` |
| | `TokensAreResolvedOnce` | the action property `ResolvedOnce` |
| `RedisLock_proofs` | `LockInvariant`, `LockTypeCorrect`, `LeasesAreHeld`, `LeasesAreExclusive` | `LockInv`, `LockTypeOK`, `LeaseHeld`, `LeaseExclusive` |
| | `KeysAreTheirOwners`, `LockImplementsLease` | the action property `OnlyOwnerTouchesKey` of `CallsSpec`; `RedisLock` refines `Lease` |
| `CryptoWsLeader_proofs` | `CryptoInvariant`, `LeadersHoldTheKey`, `OneWorkerStreams` | `CryptoInv`, `LeaderHoldsKey`, `OneConnectionInCalm` |
| | `CalmWorkersUseTheLock`, `StreamsAreLeased` | `[]Calm` implies `LockSpec`, and the streams refine `Lease` |
| `ArbEngineLeader_proofs` | `ArbInvariant`, `OneEngineRuns`, `LeasesAreFresh` | `ArbInv`, `OneEngineUnlessBlind`, `NoStaleLease` |
| | `OnlyOwnersTouch` | the action property `OnlyOwnerTouches` |
| | `EnginesAreLeased` | the running engines refine `Lease` |
| `Prices_proofs` | `MirrorInvariant`, `MirrorTypeCorrect`, `OneWorkerFetches` | `MirrorInv`, `MirrorTypeOK`, `OneFetcher` |
| | `StalenessStaysBounded` | `StalenessBounded` |
| | `SubscriptionsAreCapped`, `OnlyWantedIsApplied`, `NoWakeUpIsLost` | `ClobTypeOK`, `OnlyWanted`, `InStep` |
| `CachePool_proofs` | `CacheInvariant`, `CacheTypeCorrect`, `L1StaysBounded` | `CacheInv`, `CacheTypeOK`, `L1Bounded` |
| | `CachedValuesExpire`, `FlightsAreSingle` | `CachedAgeBounded`, `SingleFlight` |
| `AlertPass_proofs` | `AlertInvariant`, `AlertTypeCorrect` | `AlertInv`, `AlertTypeOK` |
| | `EventsAreAccounted`, `CrossingsFireOnce` | `Accounted`, `OneEventPerCrossing` |
| | `RulesAreSilencedByEvents` | `SilencedByEvent` |
| `Discovery_proofs` | `DiscoveryTypeCorrect`, `StoreIsWhole` | `DiscoveryTypeOK`, `StoreWhole` |
| | `NothingIsLost` | the action property `KeepsEverything` |

Most properties are not inductive as they stand. What has to be added says why the
code is right, and is laid out below for each component.

**Hub.** `HubInv == HubTypeOK /\ RefCounted /\ OnePollerPerKey`. None of the three is
inductive alone. When the last subscriber leaves, the cancelled task must be a
poller of that key or the task's record loses its type: that is
`OnePollerPerKey`. A poller may store an answer only because it is registered,
or a cached value would exist for a key without poller, against `RefCounted`:
again `OnePollerPerKey`, in its second half. And a started task is the only one
of its key because the key had no poller, hence no running task. The proof has
one step per action; what an action does to the registry and to the sessions is
split in two (`RegistryOK`, `SessionsOK`), and the lemmas `SubscriptionKeepsRegistry`,
`DropKeepsRegistry` and `TaskMoves` serve all actions that share a stretch of code.
`FirstIsLeast` (the least element exists) rests on the well-foundedness of the
naturals. The other theorems take `HubTypeOK` from there and add one invariant each:

* `SubsInv`: the two sides of a subscription agree, and a client that is in `clients`
  has no removal under way; or a session that took over the name would inherit the
  keys of the removal.
* `QueuesOK`: with coalescing, the bound of the queue, and no bye in a queue that is
  open: what coalescing replaces is a market's event, never the bye.
* `UpdatesInv`: pending event or taken value of a subscribed key is the stored one,
  where nothing was dropped. It needs `SubsInv` (the fan-out reaches everybody who
  subscribes) and `QueuesOK` (an event that is coalesced leaves no older one behind).
* `TimeInv`: for every key the versions are in order, along the way a value takes:
  taken, queued, stored, answered, current. That a key has one answer on its way at
  most is `OnePollerPerKey`: a poller that was cancelled delivers none.
* `SlowInv`: the drops in `dropped_at` are in order and within the window, and a
  session is closed with the drop that fills it. The bye is last because a closed
  session is given nothing any more.

**Feed.** `HubImplementsFeed` uses all of it. An open, coalesced queue is a mailbox with
as many events as its length (`QueueIsBox`), hence full when the mailbox is
(`RoomIsRoom`), and `QueueAfter` on it is what `Offer` allows (`QueueAfterBox`). `TimeInv`
gives the guard of `Publish`: what a poller stores is no older than anything given.
`SubsInv` makes the subscribers of the fan-out the watchers of the feed, and with
`RefCounted` what is forgotten is watched by nobody.

**Stream.** `StreamImplementsHub` shows that every step of a connection is a step of
the hub or none, from `PlacesOK` alone. `TraceInv` relates the place of a connection to
what it owns: a session from admission until its `finally` clause, a removal in that
clause only. `RoomyInv`: every pending event is of a key that is subscribed to, so
that coalescing leaves at most one slot per subscription used; this holds since the
stream never unsubscribes before it removes the session.

**Pollers.** `PollersImplementStream` maps every step of a poll function to a step of a
poller task or none. `TokenInv`: one task at most is in the request to Gamma, and its
slug is still unknown; it was at the second look, and whoever could have stored an answer
since needed the lock. A task that was cancelled in the request holds the lock until its
cancellation is delivered, and does not change its key.

**Lock.** `LockInv == LockTypeOK /\ KeyHasTTL /\ LeaseHeld`. The argument is one of
ages: a confirmation sets the age to 0 and the remaining time to TTL, a tick
adds one to the first and takes one from the second at most, so `ttl +
confirmed >= TTL` while the lease is valid; the key cannot have expired, and
nobody else could take or delete it. `KeyHasTTL` (no key without time to live) is
what makes "not expired" mean "still there". Exclusivity follows since the key
has one value. For the refinement, a direct change of leader would need a
confirmation by one instance in the step in which another is valid, that is,
owns the key (`KeyIsFreeBetween`). `OnlyOwnerTouchesKey` needs the invariant in its first
half (a key that is not free is not acquired) and the comparison of the scripts in its
second; the calls with their callers are steps of the lock (`CallsImplementLock`).

**Mirror.** `MirrorInv == MirrorTypeOK /\ FetcherHoldsLock /\ OneFetcher`. `OneFetcher` says
nothing of the lock, and a second worker is kept out by the lock alone:
`FetcherHoldsLock` adds that the lock of a fetching worker has its full life
ahead, because it was set in this very tick and time passes only when nobody
fetches or somebody is late.

`StalenessInv` is an argument of debts, paid from the slack of one period per fault.
A worker that sleeps will be older when it wakes (`stale + Asleep`); a map in Redis
is older than it should be by the time its fetch took; and when the lock outlives
the map with nobody fetching (`DeadLock`, after a death or an upstream failure), every
worker will be older by what is left of the lock. Without the third part the
invariant holds in the run and is not inductive.

**Crypto leader.** `CryptoInv`: every lock instance belongs to one worker
(`LocksApart`), and as long as nothing but deaths happened who is in office owns the
key, with its whole TTL ahead after the election and with more time than its renew
task sleeps while it leads (`ttl > due`). This is where `RenewsInTime` is needed, and
why one lost renewal breaks it.

**Arb leader.** `ArbInv` has two parts, each under the faults it excludes. `SeenInv`: a
booting worker owns the key, so that two never boot at once, and after its scan no
engine runs; hence the one it spawns is the only one. `FreshInv`: the key belongs to a
worker in office, and a leader has spawned an engine, hence has a refresher or a
shutdown that will give the key back. Both rest on `KeyHasTTL` of the lock and on
`LocksApart`.

**Leaders as leases.** `StreamsAreLeased`: while calm, the deletion by name removes the
worker's own key and no renewal is late, so that workers do with the key what
`RedisLock` does; a streaming worker owns the key, and its successor can only have been
elected after that key was gone. `EnginesAreLeased` rests on the scan instead: between
two engines there is a boot at which none runs.

**Subscriber.** `ClobInv == ClobTypeOK /\ OnlyWanted`: what is applied is within the cap
because it is wanted, and what is wanted was capped. `StepInv`: the event is set
whenever a change is pending; while it is clear, the set on its way, or the set that
arrived last, is the set kept. The trim of `add_tokens` changes the set kept only in a
call that sets the event as well.

**Cache.** `CacheInv`: the facts about L1 are inductive together (the heap knows every
live entry, so eviction ends with room; a promoted value is younger than its ttl).
The calls need `CallOK` (who computes holds the lock, a value on its way up is younger
than the ttl) and that two callers of one kind never hold the lock of one key.

**Discovery.** `WholeInv`: while no two threads of one process had the store loaded at
once, a thread that writes has the temporary file to itself, empty until it is
written. `KeepInv`: while no two threads at all had, the one that has loaded the store
knows every entry of the file, so what it renames into place contains them.

**Alerts.** `CountInv`: what passes, buffer and digest hold never exceeds `missing`, the
events recorded and not sent, so that a digest can be subtracted from it after any
death or deletion. The passes are finitely many, so that what they hold can be counted
when one of them moves. `CrossInv` follows a rule from event to event: one pass runs at a
time, every row knows its last event (which is at least as long ago as the row says, and an armed row
has been beyond the hysteresis since) unless a pass is between the two transactions of
the firing, and what a pass has read and not yet acted on is still true. `SilentInv` does without the
assumption that nothing was cut short: it asks less of a row, that the event it speaks of
exists and is no older than the row says, and the like of what a pass is going to write.

Only model-checked: all liveness properties, as the prover treats neither fairness
nor `ENABLED` (`DisconnectCleansUp`, `ReleasedPollersStop`, `SubscriberCatchesUp`,
`OrphanLeaseEnds`, `AlwaysALeaderAgain`, `AlwaysAnEngineAgain`, `StalenessRecovers`,
`Converges`, `GhostsFade`, `EveryArbRecorded`).

## 7. Abstractions

* Data: payloads are versions, ages or page numbers, keys and tokens model values,
  SSE frames and the parsing of `subs` are left out (a list is a set of keys within the limit).
* Time: ticks of the length in which the TTL is given; the drop window likewise.
* Redis is one server, and does not lose acknowledged keys. A command is atomic.
* Ages stop counting where nothing depends on them any more (a cooldown that is over,
  an entry that expired); midpoints are fresh or old.
* Matching, pricing and alert conditions are a choice of the environment: which pages
  hold a pair that is an arbitrage now, where the price of a rule is.
* One ttl for all entries of the cache, and one channel for all alerts: entries and
  channels do not interact otherwise.
* One sqlite connection under its lock: several processes on one alerts database are
  not modelled.
* Workers share one host, which the orphan scan presumes.
* The gunicorn master is only its effect: a worker that is down boots again.
* A process is not interrupted between two actions; where the code awaits or
  runs a command, there are two actions.

## 8. Not modelled

The modelled code is the part of the repository that keeps state, waits or
communicates. It is a small part: most lines are stateless analytics, parsers, views
and scripts. What section 2 leaves for later is out only for now. The others stay
out:

* analytics (`strategies.py`, `factors.py`, `regression_core.py`, `signals.py`,
  `quant/`, `vol/`, `pricing/`, the predictor, the order-book engine, the decay
  statistics): stateless floating-point functions, out of TLC's reach;
* `sources/`, `archive/`: HTTP clients, parsers and files written offline;
* the views of `terminal/` and the admin, health and metrics routers: computed per
  request, no state but the caches;
* the front end, the stand-alone arb scanner (a process that runs, exits or is
  killed, for `ArbEngineLeader`), scripts, monitoring and documentation.
