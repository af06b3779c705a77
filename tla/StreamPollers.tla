---------------------------- MODULE StreamPollers ----------------------------
(***************************************************************************)
(* The poll functions of realtime/pollers.py under the stream: what a      *)
(* poller task of the hub does between its wake-up and its answer.  The    *)
(* slug is resolved to a token id, which is kept in a process-wide cache   *)
(* and fetched from Gamma under a process-wide asyncio.Lock; then the CLOB *)
(* is asked about the token.  A failed resolution is remembered like a     *)
(* successful one, until the process ends.                                 *)
(*                                                                         *)
(* A poller runs without interruption up to its next request, its next     *)
(* sleep, or a lock that is taken; each such stretch is one action.        *)
(***************************************************************************)
EXTENDS TerminalStream

CONSTANTS
    Slugs,
    SlugOf          \* the slug of a key; its kind does not matter to the cache

ASSUME SlugAssumption == SlugOf \in [Keys -> Slugs]

VARIABLES
    token,          \* _TOKEN_CACHE: "unknown" has no entry, "unresolvable" is the sentinel
    place           \* where in its poll function each task is

pollVars == <<streamVars, token, place>>

Places ==
    {"start",       \* not started yet, asleep, or no task
     "lock",        \* waiting for _TOKEN_CACHE_LOCK
     "gamma",       \* holding it, in the request to Gamma
     "clob"}        \* in the requests to the CLOB, or with their answer

PollersTypeOK ==
    /\ StreamTypeOK
    /\ token \in [Slugs -> {"unknown", "known", "unresolvable"}]
    /\ place \in [Tasks -> Places]

PollersInit ==
    /\ StreamInit
    /\ token = [s \in Slugs |-> "unknown"]
    /\ place = [t \in Tasks |-> "start"]

-----------------------------------------------------------------------------
(* resolve_yes_token_id *)

connVars == <<conn, want, gone>>

SlugOfTask(t) == SlugOf[task[t].key]
At(t, p) == task[t].pc = "fetch" /\ place[t] = p
MovesTo(t, p) == place' = [place EXCEPT ![t] = p]

\* A look into the cache: the token, None, or on to the next place.
LookUp(t, next) ==
    /\ \/ token[SlugOfTask(t)] = "known" /\ MovesTo(t, "clob") /\ UNCHANGED hubVars
       \/ token[SlugOfTask(t)] = "unresolvable" /\ MovesTo(t, "start") /\ PollFail(t)
       \/ token[SlugOfTask(t)] = "unknown" /\ MovesTo(t, next) /\ UNCHANGED hubVars
    /\ UNCHANGED <<connVars, token>>

\* A cancelled task holds the lock until its CancelledError leaves the "async with".
Locked == \E t \in Tasks : place[t] = "gamma"

\* asyncio.Lock is granted in turn: at once if nobody holds it or waits for it.
Turn == IF Locked \/ \E t \in Tasks : At(t, "lock") THEN "lock" ELSE "gamma"

\* The first poll of a task.
FirstLook(t) == At(t, "start") /\ LookUp(t, Turn)

\* (mutant) no second look: the task that waited asks Gamma again.
SecondLook_None(t) ==
    /\ At(t, "lock") /\ ~Locked
    /\ MovesTo(t, "gamma")
    /\ UNCHANGED <<hubVars, connVars, token>>

\* "Double-check after acquiring lock", when it was not free at once.
SecondLook(t) == At(t, "lock") /\ ~Locked /\ LookUp(t, "gamma")

GammaKnows(t) ==
    /\ At(t, "gamma")
    /\ token' = [token EXCEPT ![SlugOfTask(t)] = "known"]
    /\ MovesTo(t, "clob")
    /\ UNCHANGED <<hubVars, connVars>>

\* Any HTTP error, a timeout of Gamma included, and any payload without a token.
GammaFails(t) ==
    /\ At(t, "gamma")
    /\ token' = [token EXCEPT ![SlugOfTask(t)] = "unresolvable"]
    /\ MovesTo(t, "start") /\ PollFail(t)
    /\ UNCHANGED connVars

\* A payload of an unexpected shape: the error leaves the cache as it was.
GammaRaises(t) ==
    /\ At(t, "gamma")
    /\ MovesTo(t, "start") /\ PollFail(t)
    /\ UNCHANGED <<connVars, token>>

-----------------------------------------------------------------------------
(* The requests to the CLOB, and the rest of the poller loop *)

ClobAnswers(t) == place[t] = "clob" /\ UpstreamAnswers(t) /\ UNCHANGED <<connVars, token, place>>

\* The answer is not None, and is fanned out.
PollEnds(t) == PollOk(t) /\ MovesTo(t, "start") /\ UNCHANGED <<connVars, token>>

\* None, or an error.  (A tick is not None when its requests fail: it is an event
\* full of nulls.  As it tells nothing of the market it is left out.)
ClobFails(t) ==
    /\ place[t] = "clob" /\ PollFail(t)
    /\ MovesTo(t, "start")
    /\ UNCHANGED <<connVars, token>>

\* The sleep is over, and the next poll looks into the cache; that of a slug which
\* is unresolvable is over as well, and changes nothing.
WakesUp(t) ==
    /\ PollAgain(t)
    /\ token[SlugOfTask(t)] # "unresolvable"
    /\ MovesTo(t, IF token[SlugOfTask(t)] = "known" THEN "clob" ELSE Turn)
    /\ UNCHANGED <<connVars, token>>

\* (mutant) the lock is not released by a cancellation.
Cancelled_KeepsLock(t) ==
    TaskEnds(t) /\ UNCHANGED <<connVars, token, place>>

\* The cancellation reaches the task wherever it is; the lock is released, and
\* nothing is stored.
Cancelled(t) == TaskEnds(t) /\ MovesTo(t, "start") /\ UNCHANGED <<connVars, token>>

PollFunction(t) ==
    \/ FirstLook(t) \/ SecondLook(t)
    \/ GammaKnows(t) \/ GammaFails(t) \/ GammaRaises(t)
    \/ ClobAnswers(t) \/ PollEnds(t) \/ ClobFails(t)
    \/ WakesUp(t) \/ Cancelled(t)

\* What the connections do, a shutdown and the markets do not touch the tasks'
\* places: a task that is cancelled goes on holding what it holds.
Others ==
    /\ \/ \E c \in Clients : \/ \E S \in SUBSET Keys : Request(c, S)
                             \/ ConnectionStep(c)
                             \/ AbandonResponse(c)
                             \/ Disconnect(c)
       \/ (shutdown \/ Tick \/ \E k \in Keys : MarketMoves(k)) /\ UNCHANGED connVars
    /\ UNCHANGED <<token, place>>

PollersNext == Others \/ \E t \in Tasks : PollFunction(t)

PollersSpec == PollersInit /\ [][PollersNext]_pollVars

\* asyncio runs what can run, requests time out, and sleeps end.  A venue that is
\* asked for ever is not for ever the same kind of broken: Gamma does not always send
\* payloads of an unexpected shape, and the CLOB answers again.  Nothing is assumed
\* of how Gamma's requests end otherwise: they may all fail.
FairPollersSpec ==
    /\ PollersSpec
    /\ \A c \in Clients : WF_pollVars(ConnectionStep(c) /\ UNCHANGED <<token, place>>)
    /\ \A t \in Tasks :
        /\ WF_pollVars(FirstLook(t) \/ SecondLook(t) \/ WakesUp(t) \/ Cancelled(t))
        /\ SF_pollVars(GammaKnows(t) \/ GammaFails(t))
        /\ SF_pollVars(ClobAnswers(t)) /\ SF_pollVars(PollEnds(t))

-----------------------------------------------------------------------------
(* Properties *)

\* "Slug->token resolution is invariant for the market's lifetime": what one kind's
\* poller has found out about a slug is never overwritten by that of another kind,
\* which asked for the same slug meanwhile and may have got another answer.
ResolvedOnce ==
    [][\A s \in Slugs : token[s] # "unknown" => token'[s] = token[s]]_pollVars

\* c has not taken the present version of k's market.
Behind(c, k) == Streaming(c) /\ k \in subs[c] /\ seen[c][k] < market[k]

\* Every subscriber that stays catches up with its market once that rests, unless a
\* resolution of its slug has failed: one failure, transient as it may be, silences
\* the slug for every kind and every connection as long as the process lives.
SubscriberCatchesUp ==
    \A c \in Clients, k \in Keys :
        Behind(c, k) ~> ~Behind(c, k) \/ token[SlugOf[k]] = "unresolvable"

=============================================================================
