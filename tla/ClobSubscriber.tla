--------------------------- MODULE ClobSubscriber ---------------------------
(***************************************************************************)
(* ClobMidpointSubscriber of crypto5min/market_fetcher.py: one WebSocket   *)
(* to the Polymarket CLOB, the set of tokens it is subscribed to, and the  *)
(* midpoints it keeps in the process and shares through Redis.             *)
(*                                                                         *)
(* The event loop interleaves the rotation task, which replaces the set,   *)
(* the consumer task, which connects and applies what is pending, and its  *)
(* receive and mutation loops; each runs undisturbed from one await to the *)
(* next.  A midpoint is how old it is: within CLOB_WS_FRESH_WINDOW_S or    *)
(* not.  CLOB_WS_REDIS_TTL_S is longer than that window.                   *)
(***************************************************************************)
EXTENDS Integers, FiniteSets

CONSTANTS
    Tokens,     \* token ids
    Priced,     \* the tokens whose midpoints this instance follows
    MAX_SUBS,   \* max_subscriptions
    Off         \* no payload is being sent

ASSUME ClobAssumption ==
    /\ IsFiniteSet(Tokens)
    /\ Priced \subseteq Tokens
    /\ MAX_SUBS \in Nat \ {0}
    /\ \A T \in SUBSET Tokens : T # Off

VARIABLES
    subscribed, \* _subscribed
    adding,     \* _pending_add
    removing,   \* _pending_remove
    wake,       \* _mutation_event
    conn,       \* the consumer task: what it does with its connection
    sending,    \* the set in the Market message being sent, or Off
    server,     \* what the server pushes on this connection
    late,       \* tokens of a replaced set that still have messages in flight
    leader,     \* the age of _midpoints[t], if there is one
    shared,     \* the age of the midpoint of t in Redis, if there is one
    wanted      \* history: the set given last, within the cap

subs == <<subscribed, adding, removing, wake>>
wire == <<conn, sending, server, late>>
clobVars == <<subs, wire, leader, shared, wanted>>

ConnStates ==
    {"off",         \* no consumer task: before start(), after stop()
     "idle",        \* connecting, or waiting out the backoff
     "greeting",    \* connected, the first Market message is on its way
     "open"}        \* _recv_loop and _mutation_loop run

Ages == {"none", "fresh", "old"}

Small(T) == Cardinality(T) <= MAX_SUBS

\* Typing; the sets that were sent or given are within the cap.
ClobTypeOK ==
    /\ subscribed \in SUBSET Tokens /\ Small(subscribed)
    /\ adding \in SUBSET Tokens
    /\ removing \in SUBSET Tokens
    /\ wake \in BOOLEAN
    /\ conn \in ConnStates
    /\ sending \in {Off} \cup SUBSET Tokens /\ (sending # Off => Small(sending))
    /\ server \in SUBSET Tokens /\ Small(server)
    /\ late \in SUBSET Priced
    /\ leader \in [Priced -> Ages]
    /\ shared \in [Priced -> Ages]
    /\ wanted \in SUBSET Tokens /\ Small(wanted)

\* main.py seeds the set before it starts the subscriber, with the eight tokens
\* of one discovery: within the cap.
ClobInit ==
    /\ wanted \in {W \in SUBSET Tokens : Small(W)}
    /\ adding = wanted
    /\ wake = (wanted # {})
    /\ subscribed = {} /\ removing = {}
    /\ conn = "off" /\ sending = Off /\ server = {} /\ late = {}
    /\ leader = [t \in Priced |-> "none"]
    /\ shared = [t \in Priced |-> "none"]

-----------------------------------------------------------------------------
(* The set of tokens *)

\* What add_tokens leaves of _subscribed to admit the new tokens: any part of it
\* that makes room ("oldest" is an arbitrary choice from a set).
Trimmed(new) ==
    IF new = {} \/ Cardinality(subscribed) + Cardinality(new) <= MAX_SUBS
    THEN {subscribed}
    ELSE {keep \in SUBSET subscribed :
            Cardinality(keep) =
                IF Cardinality(new) >= MAX_SUBS THEN 0 ELSE MAX_SUBS - Cardinality(new)}

\* (mutant) replace_tokens compares with the applied set only.
Current_Applied == subscribed

\* What replace_tokens takes for the present set: - binds tighter than |.
Current == subscribed \cup (adding \ removing)

\* (mutant) a runaway caller is not capped.
Capped_Not(W) == {W}

\* The cap of replace_tokens: any max_subs of the tokens.
Capped(W) == IF Small(W) THEN {W} ELSE {X \in SUBSET W : Cardinality(X) = MAX_SUBS}

Forget(T) == leader' = [t \in Priced |-> IF t \in T THEN "none" ELSE leader[t]]

\* add_tokens(wanted - current), then remove_tokens(current - wanted).
replace_tokens(W) ==
    LET add == W \ Current
        remove == Current \ W
    IN  /\ subscribed' \in Trimmed(add)
        /\ adding' = adding \cup add
        /\ removing' = removing \cup remove
        /\ wake' = (wake \/ add # {} \/ remove # {})
        /\ Forget(remove)

\* A tick of the rotation task.  A discovery that failed is an empty set.
Rotate(got) ==
    /\ conn # "off"
    /\ \E W \in Capped(got) : replace_tokens(W) /\ wanted' = W
    /\ UNCHANGED <<wire, shared>>

\* (mutant) the removals are applied and not cleared.
Drain_KeepsRemovals ==
    /\ subscribed' = (subscribed \cup adding) \ removing
    /\ adding' = {}
    /\ UNCHANGED removing

\* Additions first: a token in both pending sets is dropped.
Drain ==
    /\ subscribed' = (subscribed \cup adding) \ removing
    /\ adding' = {}
    /\ removing' = {}

-----------------------------------------------------------------------------
(* The connection *)

start ==
    /\ conn = "off" /\ conn' = "idle"
    /\ UNCHANGED <<subs, sending, server, late, leader, shared, wanted>>

Hangup == sending' = Off /\ server' = {} /\ late' = {}

\* Both tasks are cancelled, wherever they are; the event is left set.
stop ==
    /\ conn # "off" /\ conn' = "off"
    /\ Hangup
    /\ wake' = TRUE
    /\ UNCHANGED <<subscribed, adding, removing, leader, shared, wanted>>

\* The connection is made: pending changes are applied before the first message,
\* which an empty set does not send.  The event stays as it was.
Connect ==
    /\ conn = "idle"
    /\ Drain
    /\ IF subscribed' = {}
       THEN conn' = "open" /\ UNCHANGED sending
       ELSE conn' = "greeting" /\ sending' = subscribed'
    /\ UNCHANGED <<wake, server, late, leader, shared, wanted>>

\* The mutation loop wakes up, applies what is pending and sends the whole set.
Mutate ==
    /\ conn = "open" /\ sending = Off /\ wake
    /\ wake' = FALSE
    /\ Drain
    /\ Forget(removing)
    /\ sending' = subscribed'
    /\ UNCHANGED <<conn, server, late, shared, wanted>>

\* (mutant) the event is cleared after the send, not before.
Sent_ClearsEvent ==
    /\ sending # Off
    /\ conn' = "open"
    /\ sending' = Off
    /\ server' = sending
    /\ wake' = FALSE
    /\ late' = late \cup ((server \ sending) \cap Priced)
    /\ UNCHANGED <<subscribed, adding, removing, leader, shared, wanted>>

\* The message arrives and replaces the server's list.
Sent ==
    /\ sending # Off
    /\ conn' = "open"
    /\ sending' = Off
    /\ server' = sending
    /\ late' = late \cup ((server \ sending) \cap Priced)
    /\ UNCHANGED <<subs, leader, shared, wanted>>

\* A send fails, the server closes, a ping times out: the consumer connects again.
Disconnect ==
    /\ conn \in {"greeting", "open"} /\ conn' = "idle"
    /\ Hangup
    /\ UNCHANGED <<subs, leader, shared, wanted>>

-----------------------------------------------------------------------------
(* The midpoints *)

\* One message with prices of the tokens ts; publishing them to Redis stops at the
\* first command that fails.
ingest_message(ts, published) ==
    /\ conn = "open"
    /\ ts # {} /\ ts \subseteq (server \cap Priced) \cup late
    /\ published \subseteq ts
    /\ leader' = [t \in Priced |-> IF t \in ts THEN "fresh" ELSE leader[t]]
    /\ shared' = [t \in Priced |-> IF t \in published THEN "fresh" ELSE shared[t]]
    /\ UNCHANGED <<subs, wire, wanted>>

\* The last messages of a replaced set have arrived.
LateEnds ==
    /\ late # {} /\ late' = {}
    /\ UNCHANGED <<subs, conn, sending, server, leader, shared, wanted>>

\* Time passes for one midpoint.  The copy in Redis is never the younger one.
Grows(t) ==
    /\ \/ /\ shared[t] = "fresh" /\ shared' = [shared EXCEPT ![t] = "old"]
          /\ UNCHANGED leader
       \/ /\ shared[t] = "old" /\ shared' = [shared EXCEPT ![t] = "none"]
          /\ UNCHANGED leader
       \/ /\ leader[t] = "fresh" /\ shared[t] # "fresh"
          /\ leader' = [leader EXCEPT ![t] = "old"]
          /\ UNCHANGED shared
    /\ UNCHANGED <<subs, wire, wanted>>

\* (mutant) any midpoint the process holds is served.
get_midpoint_AnyAge(t) == leader[t] # "none"

\* The process serves the midpoint it holds while it is fresh.
get_midpoint(t) == leader[t] = "fresh"

\* fetch_clob_midpoint answers from this process or from Redis, before it asks
\* the REST endpoint.
Served(t) == get_midpoint(t) \/ shared[t] = "fresh"

ClobNext ==
    \/ \E got \in SUBSET Tokens : Rotate(got)
    \/ start \/ stop \/ Connect \/ Mutate \/ Sent \/ Disconnect \/ LateEnds
    \/ \E ts \in SUBSET Priced : \E published \in SUBSET ts : ingest_message(ts, published)
    \/ \E t \in Priced : Grows(t)

ClobSpec == ClobInit /\ [][ClobNext]_clobVars

\* A rotation comes every minute and may find the same tokens again; the mutation
\* loop runs when it is woken, a send ends, messages in flight are few, and time
\* passes.  Nothing makes a connection succeed or last.
FairClobSpec ==
    /\ ClobSpec
    /\ \A W \in SUBSET Tokens : WF_clobVars(wanted = W /\ Rotate(W))
    /\ WF_clobVars(Mutate) /\ WF_clobVars(Sent) /\ WF_clobVars(LateEnds)
    /\ \A t \in Priced : WF_clobVars(Grows(t))

-----------------------------------------------------------------------------
(* Properties *)

\* "Set the subscription set to exactly token_ids", the half that always holds:
\* however often the set is replaced between two applications of the pending
\* changes, and whatever was trimmed, what will be applied is wanted; and neither the
\* set kept nor the server's ever exceeds max_subscriptions, whatever the caller asks for.
OnlyWanted ==
    /\ (subscribed \cup adding) \ removing \subseteq wanted
    /\ Small(subscribed) /\ Small(server)

\* No wake-up is lost: while the mutation loop waits for its event on an open connection,
\* no change is pending and the server pushes the set kept, although the set may be
\* replaced, and trimmed, while a message is on its way or the consumer connects.
InStep ==
    conn = "open" /\ sending = Off /\ ~wake =>
        adding = {} /\ removing = {} /\ server = subscribed

\* The other half needs a rotation more: a token dropped and wanted again before
\* the change was applied, or trimmed, is lost until then.  Over a connection that
\* lasts, the server ends up pushing exactly a set that stays wanted.
Converges ==
    \A W \in SUBSET Tokens : <>[](wanted = W /\ conn = "open") => <>[](server = W)

\* "A follower's Redis read doesn't keep serving them": a late message brings the
\* midpoint of a removed token back, and nothing deletes it again; all the same it
\* is served no more after a while, by the leader or through Redis.
GhostsFade == \A t \in Priced : <>[](t \notin wanted) => <>[]~Served(t)

=============================================================================
