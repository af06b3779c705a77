----------------------------- MODULE AlertPass ------------------------------
(***************************************************************************)
(* Alert rules of alerts/: a pass of evaluate_all reads the enabled rules  *)
(* of the sqlite store once, records an event for each that fires and      *)
(* marks the rule, and its caller fans the events out to a channel, which  *)
(* is throttled: what exceeds its limit is buffered for a digest.          *)
(*                                                                         *)
(* Every method of AlertStore is one transaction under the lock of the     *)
(* store; passes, rule changes and the digest flusher are threads of one   *)
(* process and interleave between them.  A pass takes less than a tick, so *)
(* that its ctx["now"] is the present tick.  A price is where it lies:     *)
(* "above" the threshold, "below" it by the hysteresis or more, or in the  *)
(* "band" between; a tick is the 60 s of the throttle window.              *)
(***************************************************************************)
EXTENDS Integers, FiniteSets, Functions

CONSTANTS
    CrossRules,     \* rules of kind price_cross, with edge trigger and hysteresis
    LevelRules,     \* rules of the other kinds: a condition and a cooldown
    Passes,         \* threads that run evaluate_all
    COOLDOWN,       \* cooldown_seconds, in ticks
    MAX_PER_MINUTE, \* of one channel
    MAX_MISSING     \* bound: undelivered events after which no pass starts

Rules == CrossRules \cup LevelRules

ASSUME AlertAssumption ==
    /\ CrossRules \cap LevelRules = {}
    /\ COOLDOWN \in Nat \ {0}
    /\ MAX_PER_MINUTE \in Nat \ {0}

VARIABLES
    row,        \* alert_rules: the stored rules
    zone,       \* where the price of each rule is now
    pass,       \* what each thread is doing
    channel,    \* channel_throttle: the row of the channel
    digest,     \* events of the digest being sent
    missing,    \* history: events recorded and not sent, alone or in a digest
    last,       \* history: what happened since the last event of a rule
    mishaps     \* history: what has gone wrong

vars == <<row, zone, pass, channel, digest, missing, last, mishaps>>

Zones == {"above", "band", "below"}
Never == COOLDOWN           \* NULL in last_fired_at: as good as long ago

NewRule == [enabled |-> TRUE, state |-> "armed", age |-> Never]
NoEvent == [cleared |-> TRUE, told |-> FALSE, age |-> COOLDOWN]
NoPass == [step |-> "idle", todo |-> <<>>, out |-> 0]

OfSomeRules(S) == UNION {[D -> S] : D \in SUBSET Rules}

\* deleted, reused: a rule was deleted under a pass, or its name given to a new rule.
\* discarded: a digest was thrown away.
Mishaps == {"crash", "overlap", "deleted", "reused", "discarded"}

\* todo: the rules a pass still has to act on.  out: how many events it has
\* recorded and not yet handed to the channel.  addressed: the channel has a live
\* type and a target.  cleared, told: the price has been beyond the hysteresis since
\* the last event of the rule; the rule has had an event since it was last armed.
AlertTypeOK ==
    /\ row \in OfSomeRules([enabled : BOOLEAN, state : {"armed", "fired"}, age : 0..COOLDOWN])
    /\ zone \in [Rules -> Zones]
    /\ pass \in [Passes ->
          [step : {"idle", "run", "deliver"},
           todo : OfSomeRules([act : {"fire", "mark", "rearm"}, age : 0..COOLDOWN]),
           out : Nat]]
    /\ channel \in [count : 0..MAX_PER_MINUTE, buffer : Nat, old : BOOLEAN, quiet : BOOLEAN,
                    addressed : BOOLEAN]
    /\ digest \in Nat /\ missing \in Nat
    /\ last \in [Rules -> [cleared : BOOLEAN, told : BOOLEAN, age : 0..COOLDOWN]]
    /\ mishaps \subseteq Mishaps

AlertInit ==
    /\ row = [r \in Rules |-> NewRule]
    /\ zone = [r \in Rules |-> "band"]
    /\ pass = [p \in Passes |-> NoPass]
    /\ channel \in {[count |-> 0, buffer |-> 0, old |-> TRUE, quiet |-> TRUE, addressed |-> b] :
                     b \in BOOLEAN}
    /\ digest = 0 /\ missing = 0
    /\ last = [r \in Rules |-> NoEvent]
    /\ mishaps = {}

-----------------------------------------------------------------------------
(* evaluate_all *)

\* evaluate_rule, on the row and the price the pass starts with.
Fires(r) ==
    /\ row[r].age = COOLDOWN
    /\ zone[r] = "above"
    /\ r \in CrossRules => row[r].state # "fired"

\* (mutant) the hysteresis is forgotten.
Rearms_NoHysteresis(r) ==
    r \in CrossRules /\ row[r].state = "fired" /\ zone[r] # "above"

\* The re-arm branch: the cooldown does not matter.
Rearms(r) == r \in CrossRules /\ row[r].state = "fired" /\ zone[r] = "below"

ToDo ==
    LET acts == {r \in DOMAIN row : row[r].enabled /\ (Fires(r) \/ Rearms(r))}
    IN  [r \in acts |-> [act |-> IF Fires(r) THEN "fire" ELSE "rearm", age |-> row[r].age]]

Runs(p) == pass[p].step = "run"
Todo(p) == pass[p].todo
Acts(p) == {Todo(p)[r].act : r \in DOMAIN Todo(p)}

\* A pass with nothing to act on changes nothing.
Start(p) ==
    /\ pass[p].step = "idle"
    /\ missing < MAX_MISSING
    /\ DOMAIN ToDo # {}
    /\ pass' = [pass EXCEPT ![p] = [step |-> "run", todo |-> ToDo, out |-> 0]]
    /\ mishaps' = mishaps \cup (IF \E q \in Passes : Runs(q) THEN {"overlap"} ELSE {})
    /\ UNCHANGED <<row, zone, channel, digest, missing, last>>

\* record_event, the first of the two transactions of a firing.
RecordEvent(p, r) ==
    /\ Runs(p) /\ "mark" \notin Acts(p)
    /\ r \in DOMAIN Todo(p) \cap DOMAIN row /\ Todo(p)[r].act = "fire"
    /\ pass' = [pass EXCEPT ![p].todo[r].act = "mark"]
    /\ missing' = missing + 1
    /\ last' = [last EXCEPT ![r] = [cleared |-> zone[r] = "below", told |-> TRUE, age |-> 0]]
    /\ UNCHANGED <<row, zone, channel, digest, mishaps>>

\* The rule is gone: record_event raises, and the pass ends without returning the
\* events it has recorded before.
RecordRaises(p, r) ==
    /\ Runs(p) /\ "mark" \notin Acts(p)
    /\ r \in DOMAIN Todo(p) \ DOMAIN row /\ Todo(p)[r].act = "fire"
    /\ pass' = [pass EXCEPT ![p] = NoPass]
    /\ mishaps' = mishaps \cup {"deleted"}
    /\ UNCHANGED <<row, zone, channel, digest, missing, last>>

\* The UPDATE of a row that is gone changes nothing.
update_fire_state(r, age, state) ==
    row' = IF r \in DOMAIN row
           THEN [row EXCEPT ![r].age = age, ![r].state = state] ELSE row

Done(p, r, out) ==
    LET rest == Restrict(Todo(p), DOMAIN Todo(p) \ {r})
    IN  pass' = [pass EXCEPT ![p] =
                   IF DOMAIN rest # {} THEN [step |-> "run", todo |-> rest, out |-> out]
                   ELSE IF out = 0 THEN NoPass
                   ELSE [NoPass EXCEPT !.step = "deliver", !.out = out]]

\* The second transaction of a firing.
MarkFired(p, r) ==
    /\ Runs(p) /\ r \in DOMAIN Todo(p) /\ Todo(p)[r].act = "mark"
    /\ update_fire_state(r, 0, "fired")
    /\ Done(p, r, pass[p].out + 1)
    /\ UNCHANGED <<zone, channel, digest, missing, last, mishaps>>

\* (mutant) a re-arm stores the present time.
Rearm_Now(p, r) ==
    /\ Runs(p) /\ "mark" \notin Acts(p)
    /\ r \in DOMAIN Todo(p) /\ Todo(p)[r].act = "rearm"
    /\ update_fire_state(r, 0, "armed")
    /\ Done(p, r, pass[p].out)
    /\ last' = [last EXCEPT ![r].told = FALSE]
    /\ UNCHANGED <<zone, channel, digest, missing, mishaps>>

\* A re-arm writes back the last_fired_at the pass has read.
Rearm(p, r) ==
    /\ Runs(p) /\ "mark" \notin Acts(p)
    /\ r \in DOMAIN Todo(p) /\ Todo(p)[r].act = "rearm"
    /\ update_fire_state(r, Todo(p)[r].age, "armed")
    /\ Done(p, r, pass[p].out)
    /\ last' = [last EXCEPT ![r].told = FALSE]
    /\ UNCHANGED <<zone, channel, digest, missing, mishaps>>

-----------------------------------------------------------------------------
(* The channel *)

\* (mutant) the new window starts with an empty buffer.
Throttled_NewRow ==
    IF channel.old THEN [channel EXCEPT !.count = 1, !.buffer = 0]
    ELSE IF channel.count < MAX_PER_MINUTE THEN [channel EXCEPT !.count = @ + 1]
    ELSE [channel EXCEPT !.buffer = @ + 1]

\* throttle_check_and_record: a window that is over is replaced and the buffer
\* kept; in a full one the event is buffered.
Throttled ==
    IF channel.old THEN [channel EXCEPT !.count = 1]
    ELSE IF channel.count < MAX_PER_MINUTE THEN [channel EXCEPT !.count = @ + 1]
    ELSE [channel EXCEPT !.buffer = @ + 1]

\* fanout of one event: it is sent, whatever the other side answers, unless it was
\* buffered.
Deliver(p) ==
    /\ pass[p].step = "deliver"
    /\ channel' = [Throttled EXCEPT !.old = FALSE, !.quiet = FALSE]
    /\ missing' = IF channel.old \/ channel.count < MAX_PER_MINUTE THEN missing - 1 ELSE missing
    /\ pass' = [pass EXCEPT ![p] =
                   IF pass[p].out = 1 THEN NoPass ELSE [pass[p] EXCEPT !.out = @ - 1]]
    /\ UNCHANGED <<row, zone, digest, last, mishaps>>

\* flush_pending_digests of the store: the buffer of a channel that has been quiet
\* is emptied and committed ...
FlushBuffer ==
    /\ digest = 0 /\ channel.buffer > 0 /\ channel.quiet
    /\ digest' = channel.buffer
    /\ channel' = [channel EXCEPT !.count = 0, !.buffer = 0, !.old = FALSE, !.quiet = FALSE]
    /\ UNCHANGED <<row, zone, pass, missing, last, mishaps>>

\* ... and its caller sends one digest of the events, whatever the other side
\* answers, ...
SendDigest ==
    /\ digest > 0 /\ channel.addressed
    /\ digest' = 0
    /\ missing' = missing - digest
    /\ UNCHANGED <<row, zone, pass, channel, last, mishaps>>

\* ... or, without a target, reports it as delivered and throws it away.
DiscardDigest ==
    /\ digest > 0 /\ ~channel.addressed
    /\ digest' = 0
    /\ mishaps' = mishaps \cup {"discarded"}
    /\ UNCHANGED <<row, zone, pass, channel, missing, last>>

-----------------------------------------------------------------------------
(* The rest of the world *)

\* save_rule under a new id, which the user may choose: the name of a rule a pass is
\* about to mark or re-arm as well.  A rule that exists keeps its state.
save_rule(r) ==
    /\ r \notin DOMAIN row
    /\ row' = [q \in DOMAIN row \cup {r} |-> IF q = r THEN NewRule ELSE row[q]]
    /\ last' = [last EXCEPT ![r] = NoEvent]
    /\ mishaps' = mishaps \cup
         (IF \E p \in Passes : r \in DOMAIN Todo(p) /\ Todo(p)[r].act # "fire" THEN {"reused"} ELSE {})
    /\ UNCHANGED <<zone, pass, channel, digest, missing>>

patch_rule(r) ==
    /\ r \in DOMAIN row
    /\ row' = [row EXCEPT ![r].enabled = ~@]
    /\ UNCHANGED <<zone, pass, channel, digest, missing, last, mishaps>>

delete_rule(r) ==
    /\ r \in DOMAIN row
    /\ row' = Restrict(row, DOMAIN row \ {r})
    /\ UNCHANGED <<zone, pass, channel, digest, missing, last, mishaps>>

PriceMoves(r, z) ==
    /\ zone' = [zone EXCEPT ![r] = z]
    /\ last' = [last EXCEPT ![r].cleared = @ \/ z = "below"]
    /\ UNCHANGED <<row, pass, channel, digest, missing, mishaps>>

Later(age) == IF age = COOLDOWN THEN age ELSE age + 1

TimePasses ==
    /\ \A p \in Passes : ~Runs(p)
    /\ row' = [r \in DOMAIN row |-> [row[r] EXCEPT !.age = Later(@)]]
    /\ last' = [r \in Rules |-> [last[r] EXCEPT !.age = Later(@)]]
    /\ channel' = [channel EXCEPT !.old = TRUE, !.quiet = TRUE]
    /\ UNCHANGED <<zone, pass, digest, missing, mishaps>>

\* The process dies, once: the passes and what they have not delivered are gone.
Crash ==
    /\ "crash" \notin mishaps /\ mishaps' = mishaps \cup {"crash"}
    /\ pass' = [p \in Passes |-> NoPass]
    /\ digest' = 0
    /\ UNCHANGED <<row, zone, channel, missing, last>>

PassStep(p) ==
    \/ \E r \in Rules : RecordEvent(p, r) \/ RecordRaises(p, r) \/ MarkFired(p, r) \/ Rearm(p, r)
    \/ Deliver(p)

AlertNext ==
    \/ \E p \in Passes : Start(p) \/ PassStep(p)
    \/ \E r \in Rules : save_rule(r) \/ patch_rule(r) \/ delete_rule(r)
    \/ \E r \in Rules, z \in Zones : PriceMoves(r, z)
    \/ FlushBuffer \/ SendDigest \/ DiscardDigest \/ TimePasses \/ Crash

AlertSpec == AlertInit /\ [][AlertNext]_vars

-----------------------------------------------------------------------------
(* Properties *)

Recorded(r) == \E p \in Passes : RecordEvent(p, r)

\* "Only fire on the transition" and "don't fire if we recently fired": when passes
\* do not overlap and none was cut short, two events of a rule are a cooldown
\* apart, and those of a price rule have a price beyond the hysteresis in between.
OneEventPerCrossing ==
    [][\A r \in Rules :
         Recorded(r) /\ mishaps \cap {"crash", "overlap"} = {} =>
             last[r].age = COOLDOWN /\ (r \in CrossRules => last[r].cleared)]_vars

\* The events that a pass has recorded and whose rule it has not marked yet, and
\* those it is going to hand to the channel.
Marked(p, r) == r \in DOMAIN Todo(p) /\ Todo(p)[r].act = "mark"
Marking == {e \in Passes \X Rules : Marked(e[1], e[2])}
InHand == UNION {{p} \X (1..pass[p].out) : p \in Passes}

\* "Excess events are buffered ... instead of being dropped": every recorded event
\* that was not sent is in the hands of a pass, in the buffer or in the digest,
\* unless the process died, a rule was deleted under a pass or a digest had no target.
Accounted ==
    mishaps \cap {"crash", "deleted", "discarded"} = {} =>
        missing = channel.buffer + digest + Cardinality(Marking) + Cardinality(InHand)

\* A rule is silenced by an event only: wherever the process may die, between the two
\* transactions of a firing or before a re-arm, a stored rule is marked as fired only
\* if an event was recorded since it was last armed, and its cooldown is over at
\* the latest a cooldown after its last event.  Passes that overlap, or a new rule
\* under the name of one that a pass is still going to write, undo this.
SilencedByEvent ==
    mishaps \cap {"overlap", "reused"} = {} =>
        \A r \in DOMAIN row :
            /\ row[r].state = "fired" => last[r].told
            /\ row[r].age < COOLDOWN => last[r].age <= row[r].age

=============================================================================
