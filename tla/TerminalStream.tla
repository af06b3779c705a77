--------------------------- MODULE TerminalStream ---------------------------
(***************************************************************************)
(* GET /terminal/stream (realtime/stream.py) on top of the hub: the only   *)
(* caller the hub has in the program.  A connection subscribes to a fixed  *)
(* list of keys, drains its queue from a generator, and is removed by the  *)
(* finally clause of that generator.                                       *)
(*                                                                         *)
(* Every await of the endpoint is taken as a point where other coroutines  *)
(* may run, also those (the hub's uncontended lock) that do not suspend.   *)
(***************************************************************************)
EXTENDS RealtimeHub

VARIABLES
    conn,       \* where each connection's coroutine stands
    want,       \* the keys of its query string it has not subscribed to yet
    gone        \* whether its peer has disconnected

streamVars == <<hubVars, conn, want, gone>>

ConnStates ==
    {"idle",         \* no request
     "subscribing",  \* in the loop over sub_list
     "accepted",     \* StreamingResponse returned, generator not started
     "loop",         \* in _generate, about to test for disconnect / closed
     "waiting",      \* in wait_for(queue.get())
     "closing",      \* in the finally clause: hub.remove_client
     "abandoned"}    \* the generator was never started

StreamTypeOK ==
    /\ HubTypeOK
    /\ conn \in [Clients -> ConnStates]
    /\ want \in [Clients -> SUBSET Keys]
    /\ gone \in [Clients -> BOOLEAN]

StreamInit ==
    /\ HubInit
    /\ conn = [c \in Clients |-> "idle"]
    /\ want = [c \in Clients |-> {}]
    /\ gone = [c \in Clients |-> FALSE]

Goto(c, s) == conn' = [conn EXCEPT ![c] = s]

\* The connection is over: nothing remains of its coroutine.
Over(c) ==
    /\ Goto(c, "idle")
    /\ want' = [want EXCEPT ![c] = {}]
    /\ gone' = [gone EXCEPT ![c] = FALSE]

-----------------------------------------------------------------------------

\* A request with a list of 1..MAX_SUBS_PER_CLIENT distinct keys; any other list
\* is refused with 400, and a full hub with 503, before anything changes.
Request(c, S) ==
    /\ conn[c] = "idle"
    /\ S # {}
    /\ Cardinality(S) <= MAX_SUBS_PER_CLIENT
    /\ create_client(c)
    /\ Goto(c, "subscribing")
    /\ want' = [want EXCEPT ![c] = S]
    /\ UNCHANGED gone

SubscribeNext(c) ==
    /\ conn[c] = "subscribing"
    /\ \E k \in want[c] :
         /\ subscribe(c, k)
         /\ want' = [want EXCEPT ![c] = @ \ {k}]
    /\ UNCHANGED <<conn, gone>>

\* subscribe raises (only a shutdown can have taken the session away): the
\* remove_client of the handler finds no session, and the answer is 400.
SubscribeRaises(c) ==
    /\ conn[c] = "subscribing"
    /\ want[c] # {}
    /\ c \notin clients
    /\ Over(c)
    /\ UNCHANGED hubVars

Accept(c) ==
    /\ conn[c] = "subscribing"
    /\ want[c] = {}
    /\ Goto(c, "accepted")
    /\ UNCHANGED <<hubVars, want, gone>>

\* The generator starts: "ready" is sent if the session still exists.
StartGenerator(c) ==
    /\ conn[c] = "accepted"
    /\ IF c \in clients THEN Goto(c, "loop") /\ UNCHANGED <<want, gone>> ELSE Over(c)
    /\ UNCHANGED hubVars

\* The peer is gone and the server cancels the response before it has iterated
\* the body: the generator never runs, so neither does its finally clause.
AbandonResponse(c) ==
    /\ conn[c] = "accepted"
    /\ gone[c]
    /\ Goto(c, "abandoned")
    /\ UNCHANGED <<hubVars, want, gone>>

Poll(c) ==
    /\ conn[c] = "loop"
    /\ ~gone[c]
    /\ ~closed[c]
    /\ Goto(c, "waiting")
    /\ UNCHANGED <<hubVars, want, gone>>

\* An event is sent; "bye" ends the loop like a disconnect does.
Emit(c) ==
    /\ conn[c] = "waiting"
    /\ Consume(c)
    /\ Goto(c, IF Head(queue[c]) = Bye THEN "closing" ELSE "loop")
    /\ UNCHANGED <<want, gone>>

\* QUEUE_GET_TIMEOUT_S without an event.
GetTimesOut(c) ==
    /\ conn[c] = "waiting"
    /\ queue[c] = <<>>
    /\ Goto(c, "loop")
    /\ UNCHANGED <<hubVars, want, gone>>

\* (mutant) the generator has no finally clause.
LeaveLoop_NoFinally(c) ==
    /\ \/ conn[c] = "loop" /\ (gone[c] \/ closed[c])
       \/ conn[c] = "waiting" /\ gone[c]
    /\ Over(c)
    /\ UNCHANGED hubVars

\* The loop ends: the session was closed, or the disconnect was noticed, at the
\* test or by the cancellation of an await.
LeaveLoop(c) ==
    /\ \/ conn[c] = "loop" /\ (gone[c] \/ closed[c])
       \/ conn[c] = "waiting" /\ gone[c]
    /\ Goto(c, "closing")
    /\ UNCHANGED <<hubVars, want, gone>>

\* finally: remove_client, which returns at once when there is no session.
Finally(c) ==
    /\ conn[c] = "closing"
    /\ remove_client(c)
    /\ UNCHANGED <<conn, want, gone>>

RemoveNext(c) == (\E k \in Keys : RemoveKey(c, k)) /\ UNCHANGED <<conn, want, gone>>

Finished(c) ==
    /\ conn[c] = "closing"
    /\ c \notin clients
    /\ removal[c] = NoRemoval
    /\ Over(c)
    /\ UNCHANGED hubVars

Disconnect(c) ==
    /\ conn[c] \notin {"idle", "closing", "abandoned"}
    /\ ~gone[c]
    /\ gone' = [gone EXCEPT ![c] = TRUE]
    /\ UNCHANGED <<hubVars, conn, want>>

ConnectionStep(c) ==
    \/ SubscribeNext(c)
    \/ SubscribeRaises(c)
    \/ Accept(c)
    \/ StartGenerator(c)
    \/ Poll(c)
    \/ Emit(c)
    \/ GetTimesOut(c)
    \/ LeaveLoop(c)
    \/ Finally(c)
    \/ RemoveNext(c)
    \/ Finished(c)

HubStep ==
    /\ PollerStep \/ shutdown \/ Tick \/ \E k \in Keys : MarketMoves(k)
    /\ UNCHANGED <<conn, want, gone>>

StreamNext ==
    \/ \E c \in Clients : \/ \E S \in SUBSET Keys : Request(c, S)
                          \/ ConnectionStep(c)
                          \/ AbandonResponse(c)
                          \/ Disconnect(c)
    \/ HubStep

StreamSpec == StreamInit /\ [][StreamNext]_streamVars

-----------------------------------------------------------------------------
(* Properties *)

Streaming(c) == conn[c] \in {"loop", "waiting"}
Open(c) == Streaming(c) \/ conn[c] \in {"subscribing", "accepted"}

\* With no more subscriptions than queue slots, coalescing keeps every queue
\* within its bound: the drop counter never moves and no "bye" is ever queued.
\* The overflow protection of the hub is never needed by its only caller.
NeverDrops ==
    \A c \in Clients :
        /\ dropped_at[c] = <<>>
        /\ Len(queue[c]) <= Cardinality(subs[c])

\* A connection that is over has left no session, no subscription and no removal
\* behind, however it ended.
NoTraceLeft ==
    \A c \in Clients : conn[c] = "idle" =>
        /\ c \notin clients
        /\ \A k \in Keys : c \notin slug_subs[k]
        /\ removal[c] = NoRemoval

\* asyncio schedules every coroutine that can run, and delivers cancellations.
SchedulerFairness ==
    /\ \A c \in Clients : WF_streamVars(ConnectionStep(c))
    /\ \A t \in Tasks : WF_streamVars(HubStep /\ TaskEnds(t))

ScheduledStreamSpec == StreamSpec /\ SchedulerFairness

\* A streaming connection whose peer leaves, or which the hub closes, is cleaned
\* up, whatever other connections subscribe to meanwhile.
DisconnectCleansUp ==
    \A c \in Clients : Streaming(c) /\ (gone[c] \/ closed[c]) ~> conn[c] = "idle"

\* Nobody is watching k: no open connection has subscribed, or will, to it.
Unwatched(k) == \A c \in Clients : Open(c) => k \notin subs[c] \cup want[c]

\* "so we don't keep hitting Polymarket for a slug nobody's watching": a key that
\* nobody watches loses its poller unless somebody comes to watch it, or an
\* abandoned response, whose session is never removed, holds on to it.
ReleasedPollersStop ==
    \A k \in Keys :
        Unwatched(k) ~> \/ pollers[k] = NoTask
                       \/ ~Unwatched(k)
                       \/ \E c \in Clients : conn[c] = "abandoned" /\ k \in subs[c]

=============================================================================
