------------------------- MODULE RealtimeHub_proofs -------------------------
(***************************************************************************)
(* Theorems about the hub, for every set of clients, keys and tasks and    *)
(* every value of its limits; and, at the end, about the stream, its only  *)
(* caller, which takes every invariant of the hub with it, and about the   *)
(* poll functions its pollers run.                                         *)
(***************************************************************************)
EXTENDS StreamPollers, SequenceTheorems, FiniteSetTheorems, WellFoundedInduction, TLAPS

-----------------------------------------------------------------------------
(* Facts about the operators *)

\* First picks a member, the least one, of a non-empty set of naturals.
LEMMA FirstIsLeast ==
    ASSUME NEW S, S \subseteq Nat, S # {}
    PROVE  First(S) \in S /\ \A j \in S : First(S) <= j
<1>1. PICK i \in S : \A j \in S : <<j, i>> \notin OpToRel(<, Nat)
  BY NatLessThanWellFounded, WFMin, Zenon
<1>2. \A j \in S : ~(j < i)
  BY <1>1, Zenon DEF OpToRel
<1>3. \A j \in S : i <= j
  BY <1>2
<1>4. QED
  BY <1>3 DEF First

\* _record_drop keeps the list of drop times well formed.
LEMMA RecentDropsType ==
    ASSUME HubAssumption, NEW c \in Clients,
           dropped_at \in [Clients -> Seq(0..DROPPED_WINDOW + 1)]
    PROVE  RecentDrops(c) \in Seq(0..DROPPED_WINDOW + 1)
<1> DEFINE drops == Append(dropped_at[c], 0)
           fresh == {i \in DOMAIN drops : drops[i] <= DROPPED_WINDOW}
<1>1. 0 \in 0..DROPPED_WINDOW + 1
  BY DEF HubAssumption
<1>2. drops \in Seq(0..DROPPED_WINDOW + 1)
  BY <1>1
<1>3. drops[Len(drops)] = 0 /\ Len(drops) \in DOMAIN drops
  BY <1>1
<1>4. Len(drops) \in fresh
  BY <1>3 DEF HubAssumption
<1>5. fresh \subseteq Nat /\ fresh # {}
  BY <1>2, <1>4
<1>6. First(fresh) \in DOMAIN drops
  BY <1>5, FirstIsLeast
<1>9. /\ First(fresh) \in Int /\ Len(drops) \in Int
      /\ \A i \in First(fresh)..Len(drops) : drops[i] \in 0..DROPPED_WINDOW + 1
  <2> HIDE DEF drops, fresh
  <2>1. Len(drops) \in Nat /\ First(fresh) \in 1..Len(drops)
    BY <1>2, <1>6
  <2>2. QED
    BY <1>2, <2>1
<1>7. SubSeq(drops, First(fresh), Len(drops)) \in Seq(0..DROPPED_WINDOW + 1)
  BY <1>9, SubSeqProperties
<1>8. QED
  BY <1>7 DEF RecentDrops

\* Writing a sequence at any place leaves it a sequence of the same length.
LEMMA ReplaceInSeq ==
    ASSUME NEW S, NEW q \in Seq(S), NEW i, NEW e \in S
    PROVE  [q EXCEPT ![i] = e] \in Seq(S) /\ Len([q EXCEPT ![i] = e]) = Len(q)
<1>1. CASE i \in 1..Len(q)
  BY <1>1, ExceptSeq
<1>2. CASE i \notin 1..Len(q)
  <2>1. [q EXCEPT ![i] = e] = q
    BY <1>2
  <2>2. QED
    BY <2>1
<1>3. QED
  BY <1>1, <1>2

LEMMA QueueAfterType ==
    ASSUME HubAssumption, NEW c \in Clients, NEW e \in Events,
           queue \in [Clients -> Seq(Events)]
    PROVE  QueueAfter(c, e) \in Seq(Events)
<1> DEFINE q == queue[c]
           i == First(Queued(q, e.key))
<1>1. q \in Seq(Events)
  OBVIOUS
<1>2. [q EXCEPT ![i] = e] \in Seq(Events)
  BY <1>1, ReplaceInSeq, Zenon
<1>3. Append(q, e) \in Seq(Events)
  BY <1>1
<1>4. CASE q = <<>>
  BY <1>1, <1>2, <1>3, <1>4 DEF QueueAfter, HubAssumption
<1>5. CASE q # <<>>
  <2>1. Bye \in Events
    BY DEF Bye, Events
  <2>2. Append(Tail(q), Bye) \in Seq(Events)
    BY <1>1, <1>5, <2>1
  <2>3. QED
    BY <1>1, <1>2, <1>3, <2>2 DEF QueueAfter
<1>6. QED
  BY <1>4, <1>5

LEMMA EnqueueType ==
    ASSUME HubAssumption, HubTypeOK, NEW S, NEW e \in Events, Enqueue(S, e)
    PROVE  /\ queue' \in [Clients -> Seq(Events)]
           /\ dropped_at' \in [Clients -> Seq(0..DROPPED_WINDOW + 1)]
           /\ closed' \in [Clients -> BOOLEAN]
<1>1. queue' \in [Clients -> Seq(Events)]
  BY QueueAfterType DEF Enqueue, HubTypeOK
<1>2. dropped_at' \in [Clients -> Seq(0..DROPPED_WINDOW + 1)]
  BY RecentDropsType DEF Enqueue, HubTypeOK
<1>3. closed' \in [Clients -> BOOLEAN]
  BY DEF Enqueue, HubTypeOK
<1>4. QED
  BY <1>1, <1>2, <1>3

-----------------------------------------------------------------------------
(* The inductive invariant.  Types alone are not inductive: that the task which *)
(* a removal cancels is a poller, and that the poller which stores an answer is *)
(* registered, needs the agreement of pollers, slug_subs, last_value and task.  *)

HubInv == HubTypeOK /\ RefCounted /\ OnePollerPerKey

\* The part of HubInv that only the registry and the tasks can disturb.
RegistryOK ==
    /\ slug_subs \in [Keys -> SUBSET Clients]
    /\ pollers \in [Keys -> Tasks \cup {NoTask}]
    /\ last_value \in [Keys -> 0..MaxVersion]
    /\ task \in [Tasks -> PollerTasks \cup {FreeTask}]
    /\ RefCounted
    /\ OnePollerPerKey

\* The rest of the type invariant.
SessionsOK ==
    /\ clients \subseteq Clients
    /\ subs \in [Clients -> SUBSET Keys]
    /\ queue \in [Clients -> Seq(Events)]
    /\ closed \in [Clients -> BOOLEAN]
    /\ dropped_at \in [Clients -> Seq(0..DROPPED_WINDOW + 1)]
    /\ removal \in [Clients -> [keys : SUBSET Keys, await : Tasks \cup {NoTask}]]
    /\ market \in [Keys -> Versions]
    /\ seen \in [Clients -> [Keys -> 0..MaxVersion]]

LEMMA HubInvSplit == HubInv <=> RegistryOK /\ SessionsOK
BY DEF HubInv, HubTypeOK, RegistryOK, SessionsOK

\* What a record of a task says about its task.
LEMMA TaskShape ==
    ASSUME HubAssumption, RegistryOK, NEW t \in Tasks
    PROVE  /\ task[t].pc \in {"free", "fetch", "reply", "sleep", "cancelled"}
           /\ task[t].pc = "free" => task[t] = FreeTask
           /\ task[t].pc # "free" => task[t] \in PollerTasks /\ task[t].key \in Keys
           /\ task[t].pc \in {"fetch", "sleep"} => task[t].val = 0
           /\ task[t].pc = "reply" => task[t].val \in Versions
           /\ task[t].val \in 0..MaxVersion
<1>1. task[t] \in PollerTasks \/ task[t] = FreeTask
  BY DEF RegistryOK
<1>2. CASE task[t] = FreeTask
  BY <1>2 DEF FreeTask, HubAssumption
<1>3. CASE task[t] \in PollerTasks
  BY <1>3 DEF PollerTasks, Versions, HubAssumption
<1>4. QED
  BY <1>1, <1>2, <1>3

\* Any task can be turned into one of these records for a key.
LEMMA PollerRecords ==
    ASSUME HubAssumption, NEW k \in Keys
    PROVE  /\ Poller("fetch", k, 0) \in PollerTasks
           /\ Poller("sleep", k, 0) \in PollerTasks
           /\ \A v \in Versions : Poller("reply", k, v) \in PollerTasks
           /\ \A v \in 0..MaxVersion :
                 Poller("cancelled", k, v) \in PollerTasks
BY DEF Poller, PollerTasks, HubAssumption

\* A task moves from one running state to another and nothing else happens.
LEMMA TaskMoves ==
    ASSUME HubAssumption, RegistryOK, NEW t \in Tasks, Running(t),
           NEW pc \in {"fetch", "reply", "sleep"}, NEW v,
           Poller(pc, task[t].key, v) \in PollerTasks,
           task' = [task EXCEPT ![t] = Poller(pc, task[t].key, v)],
           UNCHANGED registryVars
    PROVE  RegistryOK'
<1>1. task' \in [Tasks -> PollerTasks \cup {FreeTask}]
  BY DEF RegistryOK
<1>2. RefCounted'
  BY DEF RegistryOK, RefCounted, registryVars
<1>3. task[t].key \in Keys
  BY TaskShape DEF Running
<1>4. OnePollerPerKey'
  BY <1>3 DEF RegistryOK, OnePollerPerKey, Running, Poller, registryVars, HubAssumption
<1>5. QED
  BY <1>1, <1>2, <1>4 DEF RegistryOK, registryVars

\* A new subscriber of k, with the poller it starts if k has none.
LEMMA SubscriptionKeepsRegistry ==
    ASSUME HubAssumption, RegistryOK, NEW c \in Clients, NEW k \in Keys,
           slug_subs' = [slug_subs EXCEPT ![k] = @ \cup {c}],
           StartPoller(k), UNCHANGED last_value
    PROVE  RegistryOK'
<1>1. CASE pollers[k] # NoTask
  BY <1>1 DEF StartPoller, RegistryOK, RefCounted, OnePollerPerKey, Running
<1>2. CASE pollers[k] = NoTask
  <2>1. PICK t \in Tasks :
            /\ task[t].pc = "free"
            /\ task' = [task EXCEPT ![t] = Poller("fetch", k, 0)]
            /\ pollers' = [pollers EXCEPT ![k] = t]
    BY <1>2 DEF StartPoller
  <2>2. task' \in [Tasks -> PollerTasks \cup {FreeTask}]
    BY <2>1, PollerRecords DEF RegistryOK
  <2>3. RefCounted'
    BY <2>1 DEF RegistryOK, RefCounted, HubAssumption
  <2>4. \A j \in Keys : pollers[j] # t
    BY <2>1 DEF RegistryOK, OnePollerPerKey, Running, HubAssumption
  <2>5. OnePollerPerKey'
    <3>1. ASSUME NEW j \in Keys, pollers'[j] # NoTask
          PROVE  Running(pollers[j])' /\ task'[pollers'[j]].key = j
      BY <2>1, <2>4, <3>1 DEF RegistryOK, OnePollerPerKey, Running, Poller
    <3>2. ASSUME NEW u \in Tasks, Running(u)'
          PROVE  pollers'[task'[u].key] = u
      <4>1. CASE u = t
        BY <2>1, <4>1 DEF RegistryOK, Poller
      <4>2. CASE u # t
        <5>1. Running(u) /\ task'[u] = task[u]
          BY <2>1, <3>2, <4>2 DEF RegistryOK, Running
        <5>2. pollers[task[u].key] = u /\ task[u].key \in Keys
          BY <5>1, TaskShape DEF RegistryOK, OnePollerPerKey, Running
        <5>3. QED
          BY <2>1, <5>1, <5>2, <1>2 DEF RegistryOK, HubAssumption
      <4>3. QED
        BY <4>1, <4>2
    <3>3. QED
      BY <3>1, <3>2 DEF OnePollerPerKey
  <2>6. QED
    BY <2>1, <2>2, <2>3, <2>5 DEF RegistryOK
<1>3. QED
  BY <1>1, <1>2

\* A subscriber of k leaves; the last one takes the poller and the value away.
LEMMA DropKeepsRegistry ==
    ASSUME HubAssumption, RegistryOK, NEW c \in Clients, NEW k \in Keys,
           DropSubscription(c, k)
    PROVE  RegistryOK'
<1>1. slug_subs' \in [Keys -> SUBSET Clients]
  BY DEF DropSubscription, RegistryOK
<1>2. CASE ~LastOne(c, k)
  BY <1>1, <1>2 DEF DropSubscription, LastOne, RegistryOK, RefCounted, OnePollerPerKey, Running
<1>3. CASE LastOne(c, k)
  <2>1. /\ pollers' = [pollers EXCEPT ![k] = NoTask]
        /\ last_value' = [last_value EXCEPT ![k] = 0]
        /\ task' = [t \in Tasks |-> IF t = pollers[k]
                                    THEN [task[t] EXCEPT !.pc = "cancelled"]
                                    ELSE task[t]]
    BY <1>3 DEF DropSubscription
  <2>2. pollers[k] \in Tasks /\ Running(pollers[k]) /\ task[pollers[k]].key = k
    BY <1>3 DEF LastOne, RegistryOK, RefCounted, OnePollerPerKey
  <2>3. [task[pollers[k]] EXCEPT !.pc = "cancelled"] \in PollerTasks
    BY <2>2, TaskShape DEF Running, PollerTasks
  <2>4. task' \in [Tasks -> PollerTasks \cup {FreeTask}]
    BY <2>1, <2>3 DEF RegistryOK
  <2>5. /\ pollers' \in [Keys -> Tasks \cup {NoTask}]
        /\ last_value' \in [Keys -> 0..MaxVersion]
    BY <2>1 DEF RegistryOK, HubAssumption
  <2>6. RefCounted'
    BY <1>3, <2>1 DEF DropSubscription, LastOne, RegistryOK, RefCounted
  <2>7. OnePollerPerKey'
    <3>1. ASSUME NEW j \in Keys, pollers'[j] # NoTask
          PROVE  Running(pollers[j])' /\ task'[pollers'[j]].key = j
      <4>1. j # k /\ pollers'[j] = pollers[j]
        BY <2>1, <3>1 DEF RegistryOK
      <4>2. Running(pollers[j]) /\ task[pollers[j]].key = j /\ pollers[j] \in Tasks
        BY <3>1, <4>1 DEF RegistryOK, OnePollerPerKey
      <4>3. pollers[j] # pollers[k]
        BY <2>2, <4>1, <4>2
      <4>4. QED
        BY <2>1, <4>1, <4>2, <4>3 DEF Running
    <3>2. ASSUME NEW u \in Tasks, Running(u)'
          PROVE  pollers'[task'[u].key] = u
      <4>1. u # pollers[k] /\ task'[u] = task[u]
        <5>1. CASE u = pollers[k]
          <6>1. task'[u].pc = "cancelled"
            BY <2>1, <2>2, <5>1, TaskShape DEF Running, PollerTasks
          <6>2. QED
            BY <3>2, <6>1 DEF Running
        <5>2. CASE u # pollers[k]
          BY <2>1, <5>2
        <5>3. QED
          BY <5>1, <5>2
      <4>2. pollers[task[u].key] = u /\ task[u].key \in Keys
        BY <3>2, <4>1, TaskShape DEF RegistryOK, OnePollerPerKey, Running
      <4>3. task[u].key # k
        BY <4>1, <4>2
      <4>4. QED
        BY <2>1, <4>1, <4>2, <4>3 DEF RegistryOK
    <3>3. QED
      BY <3>1, <3>2 DEF OnePollerPerKey
  <2>8. QED
    BY <1>1, <2>4, <2>5, <2>6, <2>7 DEF RegistryOK
<1>4. QED
  BY <1>2, <1>3

LEMMA NewSessionType ==
    ASSUME HubAssumption, SessionsOK, NEW c \in Clients, NEW b \in BOOLEAN,
           NewSession(c, b)
    PROVE  /\ subs' \in [Clients -> SUBSET Keys]
           /\ queue' \in [Clients -> Seq(Events)]
           /\ closed' \in [Clients -> BOOLEAN]
           /\ dropped_at' \in [Clients -> Seq(0..DROPPED_WINDOW + 1)]
           /\ seen' \in [Clients -> [Keys -> 0..MaxVersion]]
<1>1. [k \in Keys |-> 0] \in [Keys -> 0..MaxVersion] /\ <<>> \in Seq(Events)
  BY DEF HubAssumption
<1>2. QED
  BY <1>1 DEF NewSession, SessionsOK

\* Every step of the hub keeps the invariant.
LEMMA HubInvStep ==
    ASSUME HubAssumption, HubInv, [HubNext]_hubVars
    PROVE  HubInv'
<1> USE HubAssumption DEF sessionVars, registryVars
<1> RegistryOK /\ SessionsOK
  BY HubInvSplit
<1> SUFFICES RegistryOK' /\ SessionsOK'
  BY DEF HubInv, HubTypeOK, RegistryOK, SessionsOK
\* Sessions, queues and the environment: the registry is left alone.
<1>a. ASSUME UNCHANGED <<slug_subs, pollers, last_value, task>>
      PROVE  RegistryOK'
  BY <1>a DEF RegistryOK, RefCounted, OnePollerPerKey, Running
<1>1. ASSUME NEW c \in Clients, create_client(c)
      PROVE  RegistryOK' /\ SessionsOK'
  BY <1>1, <1>a, NewSessionType DEF create_client, SessionsOK
<1>2. ASSUME NEW c \in Clients, remove_client(c)
      PROVE  RegistryOK' /\ SessionsOK'
  <2>1. removal' \in [Clients -> [keys : SUBSET Keys, await : Tasks \cup {NoTask}]]
    BY <1>2 DEF remove_client, SessionsOK, Removal
  <2>2. QED
    BY <1>2, <1>a, <2>1, NewSessionType DEF remove_client, SessionsOK
<1>3. ASSUME NEW c \in Clients, Consume(c)
      PROVE  RegistryOK' /\ SessionsOK'
  <2>1. Head(queue[c]) \in Events /\ Tail(queue[c]) \in Seq(Events)
    BY <1>3 DEF Consume, SessionsOK
  <2>2. Head(queue[c]) # Bye =>
          Head(queue[c]).key \in Keys /\ Head(queue[c]).ver \in 0..MaxVersion
    BY <2>1 DEF Events, Bye, Versions, HubAssumption
  <2>3. seen' \in [Clients -> [Keys -> 0..MaxVersion]]
    BY <1>3, <2>2 DEF Consume, SessionsOK
  <2>4. QED
    BY <1>3, <1>a, <2>1, <2>3 DEF Consume, SessionsOK
<1>4. ASSUME NEW c \in Clients, NEW k \in Keys, subscribe(c, k)
      PROVE  RegistryOK' /\ SessionsOK'
  <2>1. RegistryOK'
    BY <1>4, SubscriptionKeepsRegistry DEF subscribe
  <2>2. /\ queue' \in [Clients -> Seq(Events)]
        /\ dropped_at' \in [Clients -> Seq(0..DROPPED_WINDOW + 1)]
        /\ closed' \in [Clients -> BOOLEAN]
    <3>1. CASE last_value[k] = 0
      BY <1>4, <3>1 DEF subscribe, SessionsOK
    <3>2. CASE last_value[k] # 0
      <4>1. [key |-> k, ver |-> last_value[k]] \in Events
        BY <3>2 DEF Events, Versions, RegistryOK, HubAssumption
      <4>2. QED
        BY <1>4, <3>2, <4>1, EnqueueType DEF subscribe, HubInv
    <3>3. QED
      BY <3>1, <3>2
  <2>3. QED
    BY <1>4, <2>1, <2>2 DEF subscribe, SessionsOK
<1>5. ASSUME NEW c \in Clients, NEW k \in Keys, unsubscribe(c, k)
      PROVE  RegistryOK' /\ SessionsOK'
  BY <1>5, DropKeepsRegistry DEF unsubscribe, SessionsOK
<1>6. ASSUME NEW c \in Clients, NEW k \in Keys, RemoveKey(c, k)
      PROVE  RegistryOK' /\ SessionsOK'
  <2>1. RegistryOK'
    BY <1>6, DropKeepsRegistry DEF RemoveKey
  <2>2. (IF LastOne(c, k) THEN pollers[k] ELSE NoTask) \in Tasks \cup {NoTask}
    BY DEF RegistryOK
  <2>3. removal' \in [Clients -> [keys : SUBSET Keys, await : Tasks \cup {NoTask}]]
    BY <1>6, <2>2 DEF RemoveKey, SessionsOK, Removal
  <2>4. QED
    BY <1>6, <2>1, <2>3 DEF RemoveKey, SessionsOK
\* The life of a poller.
<1>7. ASSUME NEW t \in Tasks, UpstreamAnswers(t)
      PROVE  RegistryOK' /\ SessionsOK'
  <2>1. Running(t) /\ task[t].key \in Keys
    BY <1>7, TaskShape DEF UpstreamAnswers, Running
  <2>2. /\ task' = [task EXCEPT ![t] =
                      Poller("reply", task[t].key, market[task[t].key])]
        /\ Poller("reply", task[t].key, market[task[t].key]) \in PollerTasks
    BY <1>7, <2>1, TaskShape, PollerRecords DEF UpstreamAnswers, SessionsOK
  <2>3. RegistryOK'
    BY <1>7, <2>1, <2>2, TaskMoves DEF UpstreamAnswers
  <2>4. QED
    BY <1>7, <2>3 DEF UpstreamAnswers, SessionsOK
<1>8. ASSUME NEW t \in Tasks, PollOk(t)
      PROVE  RegistryOK' /\ SessionsOK'
  <2> DEFINE k == task[t].key
             e == [key |-> k, ver |-> task[t].val]
  <2>1. Running(t) /\ k \in Keys /\ task[t].val \in Versions
    BY <1>8, TaskShape DEF PollOk, Running
  <2>2. Poller("sleep", k, 0) \in PollerTasks
    BY <2>1, PollerRecords
  <2>3. pollers[k] = t
    BY <2>1 DEF RegistryOK, OnePollerPerKey
  <2>4. /\ last_value' = [last_value EXCEPT ![k] = task[t].val]
        /\ task' = [task EXCEPT ![t] = Poller("sleep", k, 0)]
        /\ UNCHANGED <<slug_subs, pollers>>
    BY <1>8 DEF PollOk
  <2>5. RefCounted'
    BY <2>1, <2>3, <2>4 DEF RegistryOK, RefCounted, HubAssumption
  <2>6. OnePollerPerKey'
    BY <2>1, <2>3, <2>4 DEF RegistryOK, OnePollerPerKey, Running, Poller
  <2>7. RegistryOK'
    BY <2>1, <2>2, <2>4, <2>5, <2>6 DEF RegistryOK, Versions
  <2>8. e \in Events /\ Enqueue(Subscribers(k), e)
    BY <1>8, <2>1 DEF PollOk, Events
  <2>9. /\ queue' \in [Clients -> Seq(Events)]
        /\ dropped_at' \in [Clients -> Seq(0..DROPPED_WINDOW + 1)]
        /\ closed' \in [Clients -> BOOLEAN]
    BY <2>8, EnqueueType DEF HubInv
  <2>10. QED
    BY <1>8, <2>7, <2>9 DEF PollOk, SessionsOK
<1>9. ASSUME NEW t \in Tasks, PollFail(t)
      PROVE  RegistryOK' /\ SessionsOK'
  <2>1. Running(t) /\ task[t].key \in Keys
    BY <1>9, TaskShape DEF PollFail, Running
  <2>2. /\ task' = [task EXCEPT ![t] = Poller("sleep", task[t].key, 0)]
        /\ Poller("sleep", task[t].key, 0) \in PollerTasks
    BY <1>9, <2>1, TaskShape, PollerRecords DEF PollFail
  <2>3. RegistryOK'
    BY <1>9, <2>1, <2>2, TaskMoves DEF PollFail
  <2>4. QED
    BY <1>9, <2>3 DEF PollFail, SessionsOK
<1>10. ASSUME NEW t \in Tasks, PollAgain(t)
       PROVE  RegistryOK' /\ SessionsOK'
  <2>1. Running(t) /\ task[t].key \in Keys
    BY <1>10, TaskShape DEF PollAgain, Running
  <2>2. /\ task' = [task EXCEPT ![t] = Poller("fetch", task[t].key, 0)]
        /\ Poller("fetch", task[t].key, 0) \in PollerTasks
    BY <1>10, <2>1, TaskShape, PollerRecords DEF PollAgain
  <2>3. RegistryOK'
    BY <1>10, <2>1, <2>2, TaskMoves DEF PollAgain
  <2>4. QED
    BY <1>10, <2>3 DEF PollAgain, SessionsOK
<1>11. ASSUME NEW t \in Tasks, TaskEnds(t)
       PROVE  RegistryOK' /\ SessionsOK'
  <2>a. removal' \in [Clients -> [keys : SUBSET Keys, await : Tasks \cup {NoTask}]]
    <3>1. \A c \in Clients : Removal(removal[c].keys, NoTask)
                                \in [keys : SUBSET Keys, await : Tasks \cup {NoTask}]
      BY DEF SessionsOK, Removal
    <3>2. QED
      BY <1>11, <3>1 DEF TaskEnds, SessionsOK
  <2>1. /\ task' \in [Tasks -> PollerTasks \cup {FreeTask}]
        /\ \A u \in Tasks : Running(u)' => u # t /\ task'[u] = task[u] /\ Running(u)
    BY <1>11 DEF TaskEnds, RegistryOK, Running, FreeTask
  <2>2. ~Running(t)
    BY <1>11 DEF TaskEnds, Running
  <2>3. RefCounted'
    BY <1>11 DEF TaskEnds, RefCounted, RegistryOK
  <2>4. OnePollerPerKey'
    BY <1>11, <2>1, <2>2 DEF TaskEnds, OnePollerPerKey, RegistryOK, Running
  <2>5. RegistryOK'
    BY <1>11, <2>1, <2>3, <2>4 DEF TaskEnds, RegistryOK
  <2>6. QED
    BY <1>11, <2>a, <2>5 DEF TaskEnds, SessionsOK
<1>12. CASE shutdown
  <2>1. \A t \in Tasks : (\E k \in Keys : pollers[k] = t) =>
            [task[t] EXCEPT !.pc = "cancelled"] \in PollerTasks
    BY TaskShape DEF RegistryOK, OnePollerPerKey, Running, PollerTasks, HubAssumption
  <2>2. /\ slug_subs' \in [Keys -> SUBSET Clients]
        /\ pollers' \in [Keys -> Tasks \cup {NoTask}]
        /\ last_value' \in [Keys -> 0..MaxVersion]
        /\ RefCounted'
    BY <1>12 DEF shutdown, RefCounted, HubAssumption
  <2>3. task' \in [Tasks -> PollerTasks \cup {FreeTask}]
    BY <1>12, <2>1 DEF shutdown, RegistryOK
  <2>4. \A t \in Tasks : ~Running(t)'
    <3> TAKE t \in Tasks
    <3>1. CASE \E k \in Keys : pollers[k] = t
      <4>1. task'[t].pc = "cancelled"
        BY <1>12, <3>1, TaskShape DEF shutdown, RegistryOK, OnePollerPerKey, Running, PollerTasks, HubAssumption
      <4>2. QED
        BY <4>1 DEF Running
    <3>2. CASE ~\E k \in Keys : pollers[k] = t
      <4>1. ~Running(t)
        BY <3>2, TaskShape DEF RegistryOK, OnePollerPerKey, Running
      <4>2. QED
        BY <1>12, <3>2, <4>1 DEF shutdown, Running
    <3>3. QED
      BY <3>1, <3>2
  <2>5. OnePollerPerKey'
    BY <1>12, <2>4 DEF shutdown, OnePollerPerKey
  <2>6. RegistryOK'
    BY <2>2, <2>3, <2>5 DEF RegistryOK
  <2>7. QED
    BY <1>12, <2>6 DEF shutdown, SessionsOK
<1>13. ASSUME NEW k \in Keys, MarketMoves(k)
       PROVE  RegistryOK' /\ SessionsOK'
  BY <1>13, <1>a DEF MarketMoves, SessionsOK, Versions, HubAssumption
<1>14. CASE Tick
  <2>1. \A c \in Clients : \A i \in DOMAIN dropped_at[c] :
            dropped_at[c][i] \in 0..DROPPED_WINDOW + 1
    BY DEF SessionsOK
  <2>2. ASSUME NEW c \in Clients
        PROVE  dropped_at'[c] \in Seq(0..DROPPED_WINDOW + 1)
    <3>1. /\ dropped_at'[c] = [i \in 1..Len(dropped_at[c]) |->
                                 IF dropped_at[c][i] <= DROPPED_WINDOW
                                 THEN dropped_at[c][i] + 1 ELSE dropped_at[c][i]]
          /\ Len(dropped_at[c]) \in Nat
      BY <1>14 DEF Tick, SessionsOK
    <3>2. \A i \in 1..Len(dropped_at[c]) :
            (IF dropped_at[c][i] <= DROPPED_WINDOW
             THEN dropped_at[c][i] + 1 ELSE dropped_at[c][i]) \in 0..DROPPED_WINDOW + 1
      BY <2>1 DEF SessionsOK, HubAssumption
    <3>3. QED
      BY <3>1, <3>2
  <2>3. QED
    BY <1>14, <1>a, <2>2 DEF Tick, SessionsOK
<1>15. CASE UNCHANGED hubVars
  BY <1>15, <1>a DEF hubVars, SessionsOK
<1>16. QED
  BY <1>1, <1>2, <1>3, <1>4, <1>5, <1>6, <1>7, <1>8, <1>9, <1>10, <1>11, <1>12,
     <1>13, <1>14, <1>15 DEF HubNext, PollerStep

\* The hub's dictionaries agree: a key has a registered poller exactly while it
\* has subscribers, that poller is the one task that runs for the key, and a
\* cached value never outlives it.
THEOREM HubInvariant == HubSpec => []HubInv
<1>1. HubInit => HubInv
  BY HubAssumption DEF HubInit, HubInv, HubTypeOK, RefCounted, OnePollerPerKey, Running,
     FreeTask, NoRemoval, Removal, Versions, HubAssumption
<1>2. HubInv /\ [HubNext]_hubVars => HubInv'
  BY HubAssumption, HubInvStep
<1>3. QED
  BY <1>1, <1>2, PTL DEF HubSpec

\* Every variable of the hub keeps its type.
THEOREM HubTypeCorrect == HubSpec => []HubTypeOK
<1>1. HubInv => HubTypeOK
  BY DEF HubInv
<1>2. QED
  BY <1>1, HubInvariant, PTL

\* A poller is registered exactly while its key is watched.
THEOREM PollersAreRefCounted == HubSpec => []RefCounted
<1>1. HubInv => RefCounted
  BY DEF HubInv
<1>2. QED
  BY <1>1, HubInvariant, PTL

\* At most one task polls a key, and it is the registered one.
THEOREM PollersAreUnique == HubSpec => []OnePollerPerKey
<1>1. HubInv => OnePollerPerKey
  BY DEF HubInv
<1>2. QED
  BY <1>1, HubInvariant, PTL

-----------------------------------------------------------------------------
(* Subscriptions.  That session.subs and slug_subs agree is inductive only with *)
(* the fact that a cid in use is not one that a suspended remove_client still   *)
(* works on: otherwise the new session would inherit its keys.                  *)

SubsInv ==
    /\ SubscriptionsAgree
    /\ \A c \in clients : removal[c].keys = {}

LEMMA SubsInvStep ==
    ASSUME HubTypeOK, SubsInv, [HubNext]_hubVars
    PROVE  SubsInv'
<1> USE DEF SubsInv, SubscriptionsAgree, HubTypeOK, sessionVars, registryVars
<1>a. ASSUME UNCHANGED <<clients, subs, slug_subs, removal>>
      PROVE  SubsInv'
  BY <1>a
<1>1. ASSUME NEW c \in Clients, create_client(c)
      PROVE  SubsInv'
  <2>1. removal[c].keys = {}
    BY <1>1 DEF create_client, NoRemoval, Removal
  <2>2. QED
    BY <1>1, <2>1 DEF create_client, NewSession
<1>2. ASSUME NEW c \in Clients, remove_client(c)
      PROVE  SubsInv'
  BY <1>2 DEF remove_client, NewSession, Removal
<1>3. ASSUME NEW c \in Clients, Consume(c)
      PROVE  SubsInv'
  BY <1>3, <1>a DEF Consume
<1>4. ASSUME NEW c \in Clients, NEW k \in Keys, subscribe(c, k)
      PROVE  SubsInv'
  BY <1>4 DEF subscribe
<1>5. ASSUME NEW c \in Clients, NEW k \in Keys, unsubscribe(c, k)
      PROVE  SubsInv'
  BY <1>5 DEF unsubscribe, DropSubscription
<1>6. ASSUME NEW c \in Clients, NEW k \in Keys, RemoveKey(c, k)
      PROVE  SubsInv'
  <2>1. c \notin clients
    BY <1>6 DEF RemoveKey
  <2>2. \A d \in Clients : /\ removal'[d].keys = removal[d].keys \ (IF d = c THEN {k} ELSE {})
    BY <1>6 DEF RemoveKey, Removal
  <2>3. /\ clients' = clients /\ subs' = subs
        /\ slug_subs' = [slug_subs EXCEPT ![k] = @ \ {c}]
    BY <1>6 DEF RemoveKey, DropSubscription
  <2>4. QED
    BY <2>1, <2>2, <2>3
<1>7. ASSUME NEW t \in Tasks,
             UpstreamAnswers(t) \/ PollOk(t) \/ PollFail(t) \/ PollAgain(t)
      PROVE  SubsInv'
  BY <1>7, <1>a DEF UpstreamAnswers, PollOk, PollFail, PollAgain
<1>8. ASSUME NEW t \in Tasks, TaskEnds(t)
      PROVE  SubsInv'
  <2>1. \A d \in Clients : removal'[d].keys = removal[d].keys
    BY <1>8 DEF TaskEnds, Removal
  <2>2. QED
    BY <1>8, <2>1 DEF TaskEnds
<1>9. CASE shutdown
  BY <1>9 DEF shutdown
<1>10. CASE Tick \/ \E k \in Keys : MarketMoves(k)
  BY <1>10, <1>a DEF Tick, MarketMoves
<1>11. CASE UNCHANGED hubVars
  BY <1>11, <1>a DEF hubVars
<1>12. QED
  BY <1>1, <1>2, <1>3, <1>4, <1>5, <1>6, <1>7, <1>8, <1>9, <1>10, <1>11 DEF HubNext, PollerStep

LEMMA SubsInvariant == HubSpec => []SubsInv
<1>1. HubInit => SubsInv
  BY DEF HubInit, SubsInv, SubscriptionsAgree
<1>2. HubTypeOK /\ SubsInv /\ [HubNext]_hubVars => SubsInv'
  BY SubsInvStep
<1>3. QED
  BY <1>1, <1>2, HubTypeCorrect, PTL DEF HubSpec

\* For any number of clients and keys, and however many removals are suspended:
\* what a session believes it is subscribed to is what the hub serves it.
THEOREM SubscriptionsStayInStep == HubSpec => []SubscriptionsAgree
<1>1. SubsInv => SubscriptionsAgree
  BY DEF SubsInv
<1>2. QED
  BY <1>1, SubsInvariant, PTL

-----------------------------------------------------------------------------
(* Queues.  The final bye has a key of its own, and is unique because it closes *)
(* the session and a closed session is given nothing more.  It fits into a full *)
(* queue because it takes the place of the oldest event.                        *)

\* Rotating an element into a sequence moves all others one place forward.
LEMMA RotateInSeq ==
    ASSUME NEW S, NEW q \in Seq(S), q # <<>>, NEW e \in S
    PROVE  /\ DOMAIN Append(Tail(q), e) = 1..Len(q) /\ Len(Append(Tail(q), e)) = Len(q)
           /\ Append(Tail(q), e)[Len(q)] = e
           /\ \A j \in 1..Len(q) - 1 :
                 j + 1 \in 1..Len(q) /\ Append(Tail(q), e)[j] = q[j + 1]
<1>1. /\ Tail(q) \in Seq(S) /\ Len(Tail(q)) = Len(q) - 1 /\ Len(q) \in Nat \ {0}
      /\ \A j \in 1..Len(q) - 1 : Tail(q)[j] = q[j + 1]
  OBVIOUS
<1> DEFINE t == Tail(q)
<1> HIDE DEF t
<1>2. /\ DOMAIN Append(t, e) = 1..Len(t) + 1 /\ Append(t, e)[Len(t) + 1] = e
      /\ Len(Append(t, e)) = Len(t) + 1
      /\ \A j \in 1..Len(t) : Append(t, e)[j] = t[j]
  BY <1>1 DEF t
<1>3. \A j \in 1..Len(q) - 1 : j + 1 \in 1..Len(q)
  BY <1>1
<1>4. Len(t) = Len(q) - 1 /\ Len(t) + 1 = Len(q)
  BY <1>1 DEF t
<1>5. QED
  BY <1>1, <1>2, <1>3, <1>4 DEF t

QueueOK(q, isClosed) ==
    /\ \A i, j \in DOMAIN q : q[i].key = q[j].key => i = j
    /\ isClosed \/ \A i \in DOMAIN q : q[i].key # ByeKey
    /\ Len(q) <= QUEUE_MAXSIZE

QueuesOK == \A c \in Clients : QueueOK(queue[c], closed[c])

\* An event enters a queue as its key's only one.
LEMMA QueueAfterOK ==
    ASSUME HubAssumption, HubTypeOK, NEW c \in Clients, NEW e \in Events, e.key \in Keys,
           QueueOK(queue[c], closed[c])
    PROVE  QueueOK(QueueAfter(c, e), closed[c] \/ TooSlow(c, e))
<1> DEFINE q == queue[c]
           pending == Queued(q, e.key)
           i == First(pending)
<1>1. /\ q \in Seq(Events) /\ Len(q) \in Nat /\ DOMAIN q = 1..Len(q)
      /\ closed[c] \in BOOLEAN /\ e.key # ByeKey /\ QueueOK(q, closed[c])
  BY DEF HubTypeOK, HubAssumption
<1> HIDE DEF q
<1>2. CASE closed[c] = TRUE
  BY <1>1, <1>2 DEF QueueAfter, QueueOK, q
<1>3. CASE closed[c] = FALSE /\ pending # {}
  <2>1. i \in pending /\ i \in DOMAIN q /\ q[i].key = e.key
    <3>1. pending \subseteq Nat /\ pending # {}
      BY <1>1, <1>3 DEF Queued, q
    <3>2. i \in pending
      BY <3>1, FirstIsLeast
    <3>3. QED
      BY <3>2 DEF Queued, q
  <2> DEFINE r == [q EXCEPT ![i] = e]
  <2>2. r = QueueAfter(c, e)
    BY <1>1, <1>3 DEF QueueAfter, q
  <2>3. /\ DOMAIN r = DOMAIN q /\ \A j \in DOMAIN q : r[j].key = q[j].key
        /\ Len(r) = Len(q)
    BY <1>1, <2>1, ReplaceInSeq
  <2> HIDE DEF r, i
  <2>4. QueueOK(r, FALSE)
    BY <1>1, <1>3, <2>3 DEF QueueOK
  <2>5. QED
    BY <2>2, <2>4 DEF QueueOK
<1>4. CASE closed[c] = FALSE /\ pending = {} /\ Len(q) < QUEUE_MAXSIZE
  <2>1. QueueAfter(c, e) = Append(q, e)
    BY <1>1, <1>4 DEF QueueAfter, q
  <2>2. \A j \in DOMAIN q : q[j].key # e.key
    BY <1>4 DEF Queued
  <2>3. QueueOK(Append(q, e), FALSE)
    BY <1>1, <1>4, <2>2 DEF QueueOK, HubAssumption
  <2>4. QED
    BY <2>1, <2>3 DEF QueueOK
<1>5. CASE closed[c] = FALSE /\ pending = {} /\ ~(Len(q) < QUEUE_MAXSIZE) /\ TooSlow(c, e)
  <2>1. QueueAfter(c, e) = Append(Tail(q), Bye)
    BY <1>1, <1>5 DEF QueueAfter, q
  <2>2. q # <<>> /\ Bye \in Events /\ Bye.key = ByeKey
    BY <1>1, <1>5 DEF HubAssumption, Bye, Events
  <2> DEFINE r == Append(Tail(q), Bye)
  <2>3. /\ DOMAIN r = 1..Len(q) /\ r[Len(q)] = Bye /\ Len(r) = Len(q)
        /\ \A j \in 1..Len(q) - 1 : j + 1 \in 1..Len(q) /\ r[j] = q[j + 1]
    BY <1>1, <2>2, RotateInSeq
  <2>4. \A j \in DOMAIN q : q[j].key # ByeKey
    BY <1>1, <1>5 DEF QueueOK
  <2>5. \A j, l \in DOMAIN q : q[j].key = q[l].key => j = l
    BY <1>1 DEF QueueOK
  <2>6. Len(q) \in Nat /\ DOMAIN q = 1..Len(q)
    BY <1>1
  <2> HIDE DEF r
  <2>8. ASSUME NEW j \in DOMAIN r, NEW l \in DOMAIN r, r[j].key = r[l].key
        PROVE  j = l
    <3>1. \A m \in DOMAIN r : m # Len(q) => m \in 1..Len(q) - 1
      BY <2>3, <2>6
    <3>2. \A m \in DOMAIN r : m # Len(q) => r[m].key # ByeKey
      BY <2>3, <2>4, <2>6, <3>1
    <3>3. CASE j = Len(q) \/ l = Len(q)
      BY <2>2, <2>3, <2>8, <3>2, <3>3
    <3>4. CASE j # Len(q) /\ l # Len(q)
      <4>1. /\ j \in Int /\ l \in Int /\ j + 1 \in DOMAIN q /\ l + 1 \in DOMAIN q
            /\ q[j + 1].key = q[l + 1].key
        BY <2>3, <2>6, <2>8, <3>1, <3>4
      <4>2. j + 1 = l + 1
        BY <2>5, <4>1
      <4>3. QED
        BY <4>1, <4>2
    <3>5. QED
      BY <3>3, <3>4
  <2>9. QueueOK(r, TRUE)
    BY <1>1, <2>3, <2>8 DEF QueueOK
  <2>10. QED
    BY <1>5, <2>1, <2>9 DEF QueueOK, r
<1>6. CASE closed[c] = FALSE /\ pending = {} /\ ~(Len(q) < QUEUE_MAXSIZE) /\ ~TooSlow(c, e)
  <2>1. QueueAfter(c, e) = q
    BY <1>1, <1>6 DEF QueueAfter, q
  <2>2. QED
    BY <1>1, <1>6, <2>1 DEF QueueOK
<1>7. QED
  BY <1>1, <1>2, <1>3, <1>4, <1>5, <1>6

LEMMA EnqueueOK ==
    ASSUME HubAssumption, HubTypeOK, QueuesOK, NEW S, NEW e \in Events, e.key \in Keys,
           Enqueue(S, e)
    PROVE  QueuesOK'
<1> SUFFICES ASSUME NEW c \in Clients
             PROVE  QueueOK(queue'[c], closed'[c])
  BY DEF QueuesOK
<1>1. /\ queue'[c] = IF c \in S THEN QueueAfter(c, e) ELSE queue[c]
      /\ closed'[c] = (closed[c] \/ (c \in S /\ TooSlow(c, e)))
      /\ closed[c] \in BOOLEAN
  BY DEF Enqueue, HubTypeOK
<1>2. QueueOK(queue[c], closed[c])
  BY DEF QueuesOK
<1>3. CASE c \in S
  BY <1>1, <1>2, <1>3, QueueAfterOK
<1>4. CASE c \notin S
  BY <1>1, <1>2, <1>4 DEF QueueOK
<1>5. QED
  BY <1>3, <1>4

LEMMA NewSessionOK ==
    ASSUME HubTypeOK, QueuesOK, NEW c \in Clients, NEW b \in BOOLEAN, NewSession(c, b)
    PROVE  QueuesOK'
<1> SUFFICES ASSUME NEW d \in Clients
             PROVE  QueueOK(queue'[d], closed'[d])
  BY DEF QueuesOK
<1>1. CASE d = c
  <2>1. queue'[d] = <<>>
    BY <1>1 DEF NewSession, HubTypeOK
  <2>2. QED
    BY <2>1, HubAssumption DEF QueueOK, HubAssumption
<1>2. CASE d # c
  BY <1>2 DEF NewSession, HubTypeOK, QueuesOK
<1>3. QED
  BY <1>1, <1>2

LEMMA QueuesOKStep ==
    ASSUME HubAssumption, HubTypeOK, QueuesOK, [HubNext]_hubVars
    PROVE  QueuesOK'
<1> USE DEF sessionVars, registryVars
<1>a. ASSUME UNCHANGED <<queue, closed>>
      PROVE  QueuesOK'
  BY <1>a DEF QueuesOK
<1>1. ASSUME NEW c \in Clients, create_client(c) \/ remove_client(c)
      PROVE  QueuesOK'
  BY <1>1, NewSessionOK DEF create_client, remove_client
<1>2. ASSUME NEW c \in Clients, NEW k \in Keys, subscribe(c, k)
      PROVE  QueuesOK'
  <2>1. CASE last_value[k] = 0
    BY <1>2, <1>a, <2>1 DEF subscribe
  <2>2. CASE last_value[k] # 0
    <3>1. [key |-> k, ver |-> last_value[k]] \in Events
      BY <2>2 DEF Events, Versions, HubTypeOK, HubAssumption
    <3>2. QED
      BY <1>2, <2>2, <3>1, EnqueueOK DEF subscribe
  <2>3. QED
    BY <2>1, <2>2
<1>3. ASSUME NEW t \in Tasks, PollOk(t)
      PROVE  QueuesOK'
  <2>1. task[t].key \in Keys /\ task[t].val \in Versions
    <3>1. task[t] \in PollerTasks \cup {FreeTask} /\ task[t].pc = "reply"
      BY <1>3 DEF PollOk, HubTypeOK
    <3>2. QED
      BY <3>1 DEF PollerTasks, FreeTask
  <2>2. [key |-> task[t].key, ver |-> task[t].val] \in Events
    BY <2>1 DEF Events
  <2>3. QED
    BY <1>3, <2>1, <2>2, EnqueueOK DEF PollOk
<1>4. ASSUME NEW c \in Clients, Consume(c)
      PROVE  QueuesOK'
  <2> SUFFICES ASSUME NEW d \in Clients
               PROVE  QueueOK(queue'[d], closed'[d])
    BY DEF QueuesOK
  <2>1. closed' = closed /\ QueueOK(queue[d], closed[d])
    BY <1>4 DEF Consume, QueuesOK
  <2>2. CASE d # c
    BY <1>4, <2>1, <2>2 DEF Consume, HubTypeOK
  <2>3. CASE d = c
    <3> DEFINE q == queue[c]
    <3>1. q \in Seq(Events) /\ q # <<>> /\ queue'[d] = Tail(q)
      BY <1>4, <2>3 DEF Consume, HubTypeOK
    <3> HIDE DEF q
    <3>2. /\ Len(q) \in Nat /\ DOMAIN q = 1..Len(q) /\ DOMAIN Tail(q) = 1..Len(q) - 1
          /\ \A j \in 1..Len(q) - 1 : Tail(q)[j] = q[j + 1]
          /\ Len(Tail(q)) = Len(q) - 1
      BY <3>1
    <3>5. /\ \A i, j \in DOMAIN q : q[i].key = q[j].key => i = j
          /\ closed[d] \/ \A i \in DOMAIN q : q[i].key # ByeKey
          /\ Len(q) <= QUEUE_MAXSIZE /\ QUEUE_MAXSIZE \in Nat
      BY <2>1, <2>3 DEF QueueOK, q, HubAssumption
    <3>6. \A j \in 1..Len(q) - 1 : j + 1 \in 1..Len(q) /\ Tail(q)[j] = q[j + 1]
      BY <3>2
    <3>7. \A i, j \in DOMAIN Tail(q) : Tail(q)[i].key = Tail(q)[j].key => i = j
      BY <3>2, <3>5, <3>6
    <3>8. closed[d] \/ \A i \in DOMAIN Tail(q) : Tail(q)[i].key # ByeKey
      BY <3>2, <3>5, <3>6
    <3>9. Len(Tail(q)) <= QUEUE_MAXSIZE
      BY <3>2, <3>5
    <3>3. QueueOK(Tail(q), closed[d])
      BY <3>7, <3>8, <3>9 DEF QueueOK
    <3>4. QED
      BY <2>1, <3>1, <3>3
  <2>4. QED
    BY <2>2, <2>3
<1>5. CASE shutdown
  <2> SUFFICES ASSUME NEW d \in Clients
               PROVE  QueueOK(queue'[d], closed'[d])
    BY DEF QueuesOK
  <2>1. queue' = queue /\ closed'[d] = (closed[d] \/ d \in clients)
    BY <1>5 DEF shutdown
  <2>2. QED
    BY <2>1 DEF QueuesOK, QueueOK
<1>6. ASSUME NEW c \in Clients, NEW k \in Keys, unsubscribe(c, k) \/ RemoveKey(c, k)
      PROVE  QueuesOK'
  BY <1>6, <1>a DEF unsubscribe, RemoveKey
<1>7. ASSUME NEW t \in Tasks,
             UpstreamAnswers(t) \/ PollFail(t) \/ PollAgain(t) \/ TaskEnds(t)
      PROVE  QueuesOK'
  BY <1>7, <1>a DEF UpstreamAnswers, PollFail, PollAgain, TaskEnds
<1>8. CASE Tick \/ \E k \in Keys : MarketMoves(k)
  BY <1>8, <1>a DEF Tick, MarketMoves
<1>9. CASE UNCHANGED hubVars
  BY <1>9, <1>a DEF hubVars
<1>10. QED
  BY <1>1, <1>2, <1>3, <1>4, <1>5, <1>6, <1>7, <1>8, <1>9 DEF HubNext, PollerStep

LEMMA QueuesInvariant == HubSpec => []QueuesOK
<1>1. HubInit => QueuesOK
  BY HubAssumption DEF HubInit, QueuesOK, QueueOK, HubAssumption
<1>2. HubTypeOK /\ QueuesOK /\ [HubNext]_hubVars => QueuesOK'
  BY HubAssumption, QueuesOKStep
<1>3. QED
  BY <1>1, <1>2, HubTypeCorrect, PTL DEF HubSpec

\* For any size of the queues: a key has one pending event at most, the final bye
\* included.
THEOREM EventsAreCoalesced == HubSpec => []Coalesced
<1>1. QueuesOK => Coalesced
  BY DEF QueuesOK, QueueOK, Coalesced
<1>2. QED
  BY <1>1, QueuesInvariant, PTL

-----------------------------------------------------------------------------
(* Updates.  A subscriber that has lost nothing holds no outdated event of a    *)
(* key it watches, which is what makes the event it takes next the newest one.  *)

\* What is pending once e has found room.
With(events, e) == {e} \cup {f \in events : f.key # e.key}

UpToDate(events, taken, k, v) ==
    /\ \A f \in events : f.key = k => f.ver = v
    /\ taken = v \/ \E f \in events : f.key = k

UpdatesInv ==
    \A c \in clients :
        /\ closed[c] = FALSE \/ dropped_at[c] # <<>>
        /\ dropped_at[c] = <<>> =>
             \A k \in subs[c] : last_value[k] # 0 =>
                UpToDate(EventsOf(queue[c]), seen[c][k], k, last_value[k])

\* An event that finds room takes the place of the pending one of its key.
LEMMA QueueAfterHolds ==
    ASSUME HubAssumption, HubTypeOK, NEW c \in Clients, NEW e \in Events, e.key \in Keys,
           QueueOK(queue[c], closed[c]), closed[c] = FALSE, ~Overflows(c, e)
    PROVE  EventsOf(QueueAfter(c, e)) = With(EventsOf(queue[c]), e)
<1> DEFINE q == queue[c]
           pending == Queued(q, e.key)
           i == First(pending)
<1>1. q \in Seq(Events) /\ Len(q) \in Nat /\ DOMAIN q = 1..Len(q)
  BY DEF HubTypeOK
<1>2. Len(q) < QUEUE_MAXSIZE \/ Len(q) = QUEUE_MAXSIZE
  BY <1>1 DEF HubAssumption, QueueOK
<1>3. CASE pending # {}
  <2>1. i \in DOMAIN q /\ q[i].key = e.key
    <3>1. pending \subseteq Nat
      BY <1>1 DEF Queued
    <3>2. i \in pending
      BY <1>3, <3>1, FirstIsLeast
    <3>3. QED
      BY <3>2 DEF Queued
  <2> DEFINE r == [q EXCEPT ![i] = e]
  <2>2. r = QueueAfter(c, e)
    BY <1>3 DEF QueueAfter
  <2>3. DOMAIN r = DOMAIN q /\ r[i] = e /\ \A j \in DOMAIN q : j # i => r[j] = q[j]
    BY <1>1, <2>1
  <2>4. \A j \in DOMAIN q : q[j].key = e.key => j = i
    BY <2>1 DEF QueueOK
  <2> HIDE DEF r, i, q
  <2>5. EventsOf(r) = With(EventsOf(q), e)
    BY <2>1, <2>3, <2>4 DEF EventsOf, With
  <2>6. QED
    BY <2>2, <2>5 DEF q
<1>4. CASE pending = {} /\ Len(q) < QUEUE_MAXSIZE
  <2> DEFINE r == Append(q, e)
  <2>1. r = QueueAfter(c, e)
    BY <1>4 DEF QueueAfter
  <2>2. /\ DOMAIN r = 1..Len(q) + 1 /\ r[Len(q) + 1] = e
        /\ \A j \in 1..Len(q) : r[j] = q[j]
    BY <1>1
  <2>3. \A j \in DOMAIN q : q[j].key # e.key
    BY <1>4 DEF Queued
  <2>4. 1..Len(q) + 1 = 1..Len(q) \cup {Len(q) + 1}
    BY <1>1
  <2> HIDE DEF r, q
  <2>5. EventsOf(r) = With(EventsOf(q), e)
    BY <1>1, <2>2, <2>3, <2>4 DEF EventsOf, With
  <2>6. QED
    BY <2>1, <2>5 DEF q
<1>5. CASE pending = {} /\ Len(q) = QUEUE_MAXSIZE
  BY <1>5 DEF Overflows
<1>6. QED
  BY <1>2, <1>3, <1>4, <1>5

\* The drop that happens now is never trimmed.
LEMMA RecentDropsNotEmpty ==
    ASSUME HubAssumption, HubTypeOK, NEW c \in Clients
    PROVE  RecentDrops(c) # <<>>
<1> DEFINE drops == Append(dropped_at[c], 0)
           fresh == {i \in DOMAIN drops : drops[i] <= DROPPED_WINDOW}
<1>1. 0 \in 0..DROPPED_WINDOW + 1 /\ dropped_at[c] \in Seq(0..DROPPED_WINDOW + 1)
  BY DEF HubTypeOK, HubAssumption
<1>2. /\ drops \in Seq(0..DROPPED_WINDOW + 1) /\ drops[Len(drops)] = 0
      /\ Len(drops) \in DOMAIN drops /\ DOMAIN drops = 1..Len(drops) /\ Len(drops) \in Nat
  BY <1>1
<1> HIDE DEF drops
<1>3. Len(drops) \in fresh /\ fresh \subseteq Nat
  BY <1>2 DEF HubAssumption
<1>4. First(fresh) \in fresh
  BY <1>3, FirstIsLeast
<1>5. First(fresh) \in 1..Len(drops)
  BY <1>2, <1>4
<1> HIDE DEF fresh
<1>6. Len(SubSeq(drops, First(fresh), Len(drops))) = Len(drops) - First(fresh) + 1
  BY <1>2, <1>5, SubSeqProperties
<1>7. Len(drops) - First(fresh) + 1 # 0
  BY <1>2, <1>5
<1> DEFINE kept == SubSeq(drops, First(fresh), Len(drops))
<1>8. Len(kept) # 0
  BY <1>6, <1>7
<1> HIDE DEF kept
<1>9. kept # <<>>
  BY <1>8
<1>10. QED
  BY <1>9 DEF kept, RecentDrops, drops, fresh

\* Every queue that was given an event is up to date with its key, unless it lost
\* the event, and as up to date as before with the others.
LEMMA EnqueueUpdates ==
    ASSUME HubAssumption, HubTypeOK, QueuesOK, UpdatesInv,
           NEW S, NEW e \in Events, e.key \in Keys, Enqueue(S, e), NEW c \in clients
    PROVE  /\ closed'[c] = FALSE \/ dropped_at'[c] # <<>>
           /\ dropped_at'[c] = <<>> => dropped_at[c] = <<>> /\ closed[c] = FALSE
           /\ dropped_at'[c] = <<>> /\ c \in S =>
                EventsOf(queue'[c]) = With(EventsOf(queue[c]), e)
           /\ c \notin S => queue'[c] = queue[c]
<1>1. c \in Clients /\ closed[c] \in BOOLEAN /\ QueueOK(queue[c], closed[c])
  BY DEF HubTypeOK, QueuesOK
<1>2. /\ queue'[c] = IF c \in S THEN QueueAfter(c, e) ELSE queue[c]
      /\ closed'[c] = (closed[c] \/ (c \in S /\ TooSlow(c, e)))
      /\ dropped_at'[c] = IF c \in S /\ Overflows(c, e) THEN RecentDrops(c) ELSE dropped_at[c]
  BY <1>1 DEF Enqueue
<1>3. RecentDrops(c) # <<>>
  BY <1>1, RecentDropsNotEmpty
<1>4. closed[c] = FALSE \/ dropped_at[c] # <<>>
  BY DEF UpdatesInv
<1>5. CASE c \in S /\ Overflows(c, e)
  BY <1>2, <1>3, <1>5
<1>6. CASE c \in S /\ ~Overflows(c, e)
  <2>1. closed'[c] = closed[c] /\ dropped_at'[c] = dropped_at[c]
    BY <1>1, <1>2, <1>6 DEF TooSlow
  <2>2. closed[c] = FALSE =>
          EventsOf(queue'[c]) = With(EventsOf(queue[c]), e)
    BY <1>1, <1>2, <1>6, QueueAfterHolds
  <2>3. QED
    BY <1>4, <1>6, <2>1, <2>2
<1>7. CASE c \notin S
  BY <1>1, <1>2, <1>4, <1>7
<1>8. QED
  BY <1>5, <1>6, <1>7

LEMMA UpdatesInvStep ==
    ASSUME HubAssumption, HubTypeOK, SubsInv, QueuesOK, UpdatesInv, [HubNext]_hubVars
    PROVE  UpdatesInv'
<1> USE DEF sessionVars, registryVars
<1>a. ASSUME UNCHANGED <<clients, queue, closed, dropped_at, seen>>,
             \A c \in clients : subs'[c] \subseteq subs[c],
             \A k \in Keys : last_value'[k] \in {0, last_value[k]}
      PROVE  UpdatesInv'
  <2>1. \A c \in clients : subs[c] \subseteq Keys
    BY DEF HubTypeOK
  <2>2. QED
    BY <1>a, <2>1 DEF UpdatesInv
<1>1. ASSUME NEW c \in Clients, create_client(c)
      PROVE  UpdatesInv'
  <2>1. subs'[c] = {} /\ closed'[c] = FALSE
    BY <1>1 DEF create_client, NewSession, HubTypeOK
  <2>2. \A d \in clients : d # c /\ d \in Clients
    BY <1>1 DEF create_client, HubTypeOK
  <2>3. \A d \in clients : /\ subs'[d] = subs[d] /\ closed'[d] = closed[d]
                           /\ queue'[d] = queue[d] /\ dropped_at'[d] = dropped_at[d]
                           /\ seen'[d] = seen[d]
    BY <1>1, <2>2 DEF create_client, NewSession, HubTypeOK
  <2>4. clients' = clients \cup {c} /\ last_value' = last_value
    BY <1>1 DEF create_client
  <2>5. QED
    BY <2>1, <2>3, <2>4 DEF UpdatesInv
<1>2. ASSUME NEW c \in Clients, remove_client(c)
      PROVE  UpdatesInv'
  <2>1. \A d \in clients' : d # c /\ d \in Clients /\ d \in clients
    BY <1>2 DEF remove_client, HubTypeOK
  <2>2. \A d \in clients' : /\ subs'[d] = subs[d] /\ closed'[d] = closed[d]
                            /\ queue'[d] = queue[d] /\ dropped_at'[d] = dropped_at[d]
                            /\ seen'[d] = seen[d]
    BY <1>2, <2>1 DEF remove_client, NewSession, HubTypeOK
  <2>3. last_value' = last_value
    BY <1>2 DEF remove_client
  <2>4. QED
    BY <2>1, <2>2, <2>3 DEF UpdatesInv
<1>3. ASSUME NEW c \in Clients, Consume(c)
      PROVE  UpdatesInv'
  <2> DEFINE q == queue[c]
             h == Head(queue[c])
  <2>1. /\ q \in Seq(Events) /\ q # <<>> /\ h \in Events /\ Tail(q) \in Seq(Events)
        /\ queue' = [queue EXCEPT ![c] = Tail(q)]
        /\ UNCHANGED <<clients, subs, closed, dropped_at, last_value>>
    BY <1>3 DEF Consume, HubTypeOK
  <2>2. EventsOf(q) = {h} \cup EventsOf(Tail(q))
    <3>1. /\ Len(q) \in Nat \ {0} /\ DOMAIN q = 1..Len(q) /\ DOMAIN Tail(q) = 1..Len(q) - 1
          /\ \A j \in 1..Len(q) - 1 : Tail(q)[j] = q[j + 1]
          /\ h = q[1]
      BY <2>1
    <3>2. \A j \in 1..Len(q) : j = 1 \/ (j - 1 \in 1..Len(q) - 1 /\ j = (j - 1) + 1)
      BY <3>1
    <3>3. \A j \in 1..Len(q) - 1 : j + 1 \in 1..Len(q)
      BY <3>1
    <3> HIDE DEF q, h
    <3>4. EventsOf(Tail(q)) \subseteq EventsOf(q) /\ h \in EventsOf(q)
      BY <3>1, <3>3 DEF EventsOf
    <3>5. \A j \in 1..Len(q) : q[j] = h \/ q[j] \in EventsOf(Tail(q))
      <4> TAKE j \in 1..Len(q)
      <4>1. CASE j = 1
        BY <3>1, <4>1
      <4>2. CASE j - 1 \in 1..Len(q) - 1 /\ j = (j - 1) + 1
        <5>1. Tail(q)[j - 1] = q[j] /\ j - 1 \in DOMAIN Tail(q)
          BY <3>1, <4>2
        <5>2. QED
          BY <5>1 DEF EventsOf
      <4>3. QED
        BY <3>2, <4>1, <4>2
    <3>6. QED
      BY <3>1, <3>4, <3>5 DEF EventsOf
  <2>3. ASSUME NEW k \in Keys
        PROVE  seen'[c][k] = IF h.key = k THEN h.ver ELSE seen[c][k]
    <3>1. h = Bye => h.key # k
      BY HubAssumption DEF Bye, HubAssumption
    <3>2. h # Bye => h.key \in Keys
      BY <2>1 DEF Events, Bye
    <3>3. QED
      BY <1>3, <3>1, <3>2 DEF Consume, HubTypeOK
  <2>4. \A d \in Clients : d # c => queue'[d] = queue[d] /\ seen'[d] = seen[d]
    BY <1>3 DEF Consume, HubTypeOK
  <2>5. queue'[c] = Tail(q)
    BY <2>1 DEF HubTypeOK
  <2> HIDE DEF q, h
  <2>6. ASSUME NEW k \in Keys, NEW v, UpToDate(EventsOf(q), seen[c][k], k, v)
        PROVE  UpToDate(EventsOf(Tail(q)), seen'[c][k], k, v)
    BY <2>2, <2>3, <2>6 DEF UpToDate
  <2>7. clients \subseteq Clients /\ \A d \in clients : subs[d] \subseteq Keys
    BY DEF HubTypeOK
  <2>8. ASSUME NEW d \in clients, dropped_at[d] = <<>>, NEW k \in subs[d], last_value[k] # 0
        PROVE  UpToDate(EventsOf(queue'[d]), seen'[d][k], k, last_value[k])
    <3>1. UpToDate(EventsOf(queue[d]), seen[d][k], k, last_value[k]) /\ k \in Keys
      BY <2>7, <2>8 DEF UpdatesInv
    <3>2. QED
      BY <2>4, <2>5, <2>6, <2>7, <3>1 DEF q
  <2>9. QED
    BY <2>1, <2>8 DEF UpdatesInv
<1>4. ASSUME NEW c \in Clients, NEW k \in Keys, subscribe(c, k)
      PROVE  UpdatesInv'
  <2>1. /\ UNCHANGED <<clients, last_value, seen>> /\ c \in clients
        /\ \A d \in clients : d # c => subs'[d] = subs[d]
        /\ subs'[c] = subs[c] \cup {k}
    BY <1>4 DEF subscribe, HubTypeOK
  <2>2. CASE last_value[k] = 0
    <3>1. UNCHANGED <<queue, dropped_at, closed>>
      BY <1>4, <2>2 DEF subscribe
    <3>2. QED
      BY <2>1, <2>2, <3>1 DEF UpdatesInv
  <2>3. CASE last_value[k] # 0
    <3> DEFINE e == [key |-> k, ver |-> last_value[k]]
    <3>1. e \in Events /\ e.key = k /\ e.ver = last_value[k]
      BY <2>3 DEF Events, Versions, HubTypeOK, HubAssumption
    <3>2. Enqueue({c}, e)
      BY <1>4, <2>3 DEF subscribe
    <3> HIDE DEF e
    <3>3. ASSUME NEW d \in clients, dropped_at'[d] = <<>>, NEW j \in subs'[d], last_value[j] # 0
          PROVE  UpToDate(EventsOf(queue'[d]), seen[d][j], j, last_value[j])
      <4>1. dropped_at[d] = <<>>
        BY <3>1, <3>2, <3>3, EnqueueUpdates
      <4>2. CASE d # c
        <5>1. d \notin {c} /\ e.key \in Keys
          BY <3>1, <4>2
        <5>2. queue'[d] = queue[d]
          BY <3>1, <3>2, <5>1, EnqueueUpdates
        <5>3. j \in subs[d]
          BY <2>1, <3>3, <4>2
        <5>4. QED
          BY <3>3, <4>1, <5>2, <5>3 DEF UpdatesInv
      <4>3. CASE d = c
        <5>0. d \in {c} /\ e.key \in Keys
          BY <3>1, <4>3
        <5>1. EventsOf(queue'[d]) = With(EventsOf(queue[d]), e)
          BY <3>1, <3>2, <3>3, <5>0, EnqueueUpdates
        <5>2. CASE j = k
          BY <3>1, <5>1, <5>2 DEF UpToDate, With
        <5>3. CASE j # k
          <6>1. j \in subs[d]
            BY <2>1, <3>3, <4>3, <5>3
          <6>2. UpToDate(EventsOf(queue[d]), seen[d][j], j, last_value[j])
            BY <3>3, <4>1, <6>1 DEF UpdatesInv
          <6>3. QED
            BY <3>1, <5>1, <5>3, <6>2 DEF UpToDate, With
        <5>4. QED
          BY <5>2, <5>3
      <4>4. QED
        BY <4>2, <4>3
    <3>4. \A d \in clients : closed'[d] = FALSE \/ dropped_at'[d] # <<>>
      BY <3>1, <3>2, EnqueueUpdates
    <3>5. QED
      BY <2>1, <3>3, <3>4 DEF UpdatesInv
  <2>4. QED
    BY <2>2, <2>3
<1>5. ASSUME NEW t \in Tasks, PollOk(t)
      PROVE  UpdatesInv'
  <2> DEFINE k == task[t].key
             e == [key |-> k, ver |-> task[t].val]
  <2>1. k \in Keys /\ task[t].val \in Versions
    <3>1. task[t] \in PollerTasks \cup {FreeTask} /\ task[t].pc = "reply"
      BY <1>5 DEF PollOk, HubTypeOK
    <3>2. QED
      BY <3>1 DEF PollerTasks, FreeTask
  <2>2. /\ UNCHANGED <<clients, subs, seen>> /\ Enqueue(Subscribers(k), e)
        /\ last_value' = [last_value EXCEPT ![k] = task[t].val]
    BY <1>5 DEF PollOk
  <2>3. e \in Events /\ e.key = k /\ e.ver = task[t].val
    BY <2>1 DEF Events
  <2>4. /\ last_value'[k] = e.ver
        /\ \A j \in Keys : j # k => last_value'[j] = last_value[j]
    BY <2>1, <2>2, <2>3 DEF HubTypeOK
  <2> HIDE DEF e, k
  <2>5. ASSUME NEW d \in clients, dropped_at'[d] = <<>>, NEW j \in subs[d], last_value'[j] # 0
        PROVE  UpToDate(EventsOf(queue'[d]), seen[d][j], j, last_value'[j])
    <3>1. dropped_at[d] = <<>> /\ j \in Keys /\ d \in Clients
      BY <2>1, <2>2, <2>3, <2>5, EnqueueUpdates DEF HubTypeOK
    <3>2. d \in Subscribers(k) =>
            EventsOf(queue'[d]) = With(EventsOf(queue[d]), e)
      BY <2>1, <2>2, <2>3, <2>5, EnqueueUpdates
    <3>3. d \notin Subscribers(k) => queue'[d] = queue[d]
      BY <2>1, <2>2, <2>3, EnqueueUpdates
    <3>4. CASE j = k
      <4>1. d \in Subscribers(k)
        BY <2>1, <2>5, <3>1, <3>4 DEF Subscribers, SubsInv, SubscriptionsAgree
      <4>2. QED
        BY <2>3, <2>4, <3>2, <3>4, <4>1 DEF UpToDate, With
    <3>5. CASE j # k
      <4>1. UpToDate(EventsOf(queue[d]), seen[d][j], j, last_value'[j])
        BY <2>4, <2>5, <3>1, <3>5 DEF UpdatesInv
      <4>2. QED
        BY <2>3, <3>2, <3>3, <3>5, <4>1 DEF UpToDate, With
    <3>6. QED
      BY <3>4, <3>5
  <2>6. \A d \in clients : closed'[d] = FALSE \/ dropped_at'[d] # <<>>
    BY <2>1, <2>2, <2>3, EnqueueUpdates
  <2>7. QED
    BY <2>2, <2>5, <2>6 DEF UpdatesInv
<1>6. ASSUME NEW c \in Clients, NEW k \in Keys, unsubscribe(c, k) \/ RemoveKey(c, k)
      PROVE  UpdatesInv'
  <2>1. UNCHANGED <<clients, queue, closed, dropped_at, seen>> /\ DropSubscription(c, k)
    BY <1>6 DEF unsubscribe, RemoveKey
  <2>2. \A d \in clients : subs'[d] \subseteq subs[d]
    <3>1. CASE subs' = [subs EXCEPT ![c] = @ \ {k}]
      BY <3>1 DEF HubTypeOK
    <3>2. CASE subs' = subs
      BY <3>2
    <3>3. QED
      BY <1>6, <3>1, <3>2 DEF unsubscribe, RemoveKey
  <2>3. \A j \in Keys : last_value'[j] \in {0, last_value[j]}
    BY <2>1 DEF DropSubscription, HubTypeOK
  <2>4. QED
    BY <1>a, <2>1, <2>2, <2>3
<1>7. ASSUME NEW t \in Tasks,
             UpstreamAnswers(t) \/ PollFail(t) \/ PollAgain(t) \/ TaskEnds(t)
      PROVE  UpdatesInv'
  BY <1>7, <1>a DEF UpstreamAnswers, PollFail, PollAgain, TaskEnds
<1>8. CASE shutdown
  BY <1>8 DEF shutdown, UpdatesInv
<1>9. CASE Tick
  <2>1. ASSUME NEW d \in clients, dropped_at'[d] = <<>>
        PROVE  dropped_at[d] = <<>>
    <3> DEFINE drops == dropped_at[d]
    <3>1. DOMAIN dropped_at'[d] = DOMAIN drops /\ drops \in Seq(0..DROPPED_WINDOW + 1)
      BY <1>9 DEF Tick, HubTypeOK
    <3> HIDE DEF drops
    <3>2. Len(drops) \in Nat /\ 1..Len(drops) = {}
      BY <2>1, <3>1
    <3>3. Len(drops) = 0
      <4>1. Len(drops) > 0 => 1 \in 1..Len(drops)
        BY <3>2
      <4>2. QED
        BY <3>2, <4>1
    <3>4. QED
      BY <3>1, <3>3 DEF drops
  <2>2. UNCHANGED <<clients, subs, queue, closed, last_value, seen>>
    BY <1>9 DEF Tick
  <2>3. QED
    BY <2>1, <2>2 DEF UpdatesInv
<1>10. CASE \E k \in Keys : MarketMoves(k)
  BY <1>10, <1>a DEF MarketMoves
<1>11. CASE UNCHANGED hubVars
  BY <1>11, <1>a DEF hubVars
<1>12. QED
  BY <1>1, <1>2, <1>3, <1>4, <1>5, <1>6, <1>7, <1>8, <1>9, <1>10, <1>11 DEF HubNext, PollerStep

\* For any number of clients, keys and tasks: a subscriber that lost nothing to
\* overflow has the newest polled value, or will take it next.
THEOREM NoUpdateIsMissed == HubSpec => []NoMissedUpdate
<1>1. HubInit => UpdatesInv
  BY DEF HubInit, UpdatesInv
<1>2. HubTypeOK /\ SubsInv /\ QueuesOK /\ UpdatesInv /\ [HubNext]_hubVars => UpdatesInv'
  BY HubAssumption, UpdatesInvStep
<1>3. HubTypeOK /\ UpdatesInv => NoMissedUpdate
  <2> SUFFICES ASSUME HubTypeOK, UpdatesInv, NEW c \in clients, NEW k \in subs[c],
                      last_value[k] # 0, dropped_at[c] = <<>>, seen[c][k] # last_value[k]
               PROVE  \E i \in DOMAIN queue[c] :
                        queue[c][i] = [key |-> k, ver |-> last_value[k]]
    BY DEF NoMissedUpdate
  <2>1. PICK i \in DOMAIN queue[c] : queue[c][i].key = k /\ queue[c][i].ver = last_value[k]
    BY DEF UpdatesInv, UpToDate, EventsOf
  <2>2. queue[c][i] \in Events
    BY DEF HubTypeOK
  <2>3. queue[c][i] = [key |-> k, ver |-> last_value[k]]
    BY <2>1, <2>2 DEF Events
  <2>4. QED
    BY <2>3
<1>4. QED
  BY <1>1, <1>2, <1>3, HubTypeCorrect, SubsInvariant, QueuesInvariant, PTL DEF HubSpec

-----------------------------------------------------------------------------
(* Time.  What anybody knows of a market is no newer than the cached value, an  *)
(* answer on its way is no older than what anybody knows, and the market itself *)
(* is the newest of all.  As one task runs for a key, there is one such answer. *)

\* Nobody has taken, or is about to take, a version of k newer than v, and nobody
\* is about to take one older than the last.
KnowAtMost(k, v) ==
    \A c \in Clients :
        /\ seen[c][k] <= v
        /\ \A f \in EventsOf(queue[c]) : f.key = k => f.ver <= v

TimeInv ==
    /\ \A k \in Keys :
        /\ last_value[k] <= market[k] /\ KnowAtMost(k, market[k])
        /\ last_value[k] # 0 => KnowAtMost(k, last_value[k])
    /\ \A t \in Tasks : task[t].pc = "reply" =>
        /\ last_value[task[t].key] <= task[t].val
        /\ task[t].val <= market[task[t].key]
        /\ KnowAtMost(task[t].key, task[t].val)
    /\ \A c \in Clients : \A f \in EventsOf(queue[c]) :
         f.key \in Keys => seen[c][f.key] <= f.ver

\* Numbers that are compared.
LEMMA VersionsAreNat ==
    ASSUME HubTypeOK
    PROVE  /\ \A k \in Keys : last_value[k] \in Nat /\ market[k] \in Nat
           /\ \A c \in Clients, k \in Keys : seen[c][k] \in Nat
           /\ \A c \in Clients : \A f \in EventsOf(queue[c]) :
                f \in Events /\ f.ver \in Nat /\ (f.key \in Keys => f # Bye)
           /\ \A t \in Tasks : task[t].pc = "reply" => task[t].key \in Keys /\ task[t].val \in Versions
<1>1. \A k \in Keys : last_value[k] \in Nat /\ market[k] \in Nat
  BY HubAssumption DEF HubTypeOK, Versions, HubAssumption
<1>2. \A c \in Clients, k \in Keys : seen[c][k] \in Nat
  BY HubAssumption DEF HubTypeOK, HubAssumption
<1>3. \A c \in Clients : \A f \in EventsOf(queue[c]) : f \in Events
  BY DEF HubTypeOK, EventsOf
<1>4. \A f \in Events : f.ver \in Nat /\ (f.key \in Keys => f # Bye)
  BY HubAssumption DEF Events, Versions, Bye, HubAssumption
<1>5. ASSUME NEW t \in Tasks, task[t].pc = "reply"
      PROVE  task[t].key \in Keys /\ task[t].val \in Versions
  <2>1. task[t] \in PollerTasks \cup {FreeTask}
    BY DEF HubTypeOK
  <2>2. QED
    BY <1>5, <2>1 DEF PollerTasks, FreeTask
<1>6. QED
  BY <1>1, <1>2, <1>3, <1>4, <1>5

\* No event enters a queue but the one that is enqueued and the final bye.
LEMMA QueueAfterEvents ==
    ASSUME HubAssumption, HubTypeOK, NEW c \in Clients, NEW e \in Events, e.key \in Keys
    PROVE  EventsOf(QueueAfter(c, e)) \subseteq EventsOf(queue[c]) \cup {e, Bye}
<1> DEFINE q == queue[c]
           pending == Queued(q, e.key)
           i == First(pending)
<1>1. /\ q \in Seq(Events) /\ Len(q) \in Nat /\ DOMAIN q = 1..Len(q)
      /\ closed[c] \in BOOLEAN
  BY DEF HubTypeOK
<1> HIDE DEF q
<1>2. CASE QueueAfter(c, e) = q
  BY <1>2 DEF q
<1>3. CASE QueueAfter(c, e) = [q EXCEPT ![i] = e]
  <2>1. DOMAIN [q EXCEPT ![i] = e] = DOMAIN q
    BY <1>1
  <2>2. \A j \in DOMAIN q : [q EXCEPT ![i] = e][j] \in {q[j], e}
    BY <1>1
  <2>3. QED
    BY <1>3, <2>1, <2>2 DEF EventsOf, q
<1>4. CASE QueueAfter(c, e) = Append(q, e)
  <2>1. \A j \in DOMAIN Append(q, e) : Append(q, e)[j] = e \/ (j \in DOMAIN q /\ Append(q, e)[j] = q[j])
    BY <1>1
  <2>2. QED
    BY <1>4, <2>1 DEF EventsOf, q
<1>5. CASE QueueAfter(c, e) = Append(Tail(q), Bye) /\ q # <<>>
  <2>1. Bye \in Events
    BY DEF Bye, Events
  <2>0. Len(q) \in Nat
    BY <1>1
  <2>2. \A j \in 1..Len(q) : j = Len(q) \/ j \in 1..Len(q) - 1
    BY <2>0
  <2> DEFINE r == Append(Tail(q), Bye)
  <2>3. /\ DOMAIN r = 1..Len(q) /\ r[Len(q)] = Bye
        /\ \A j \in 1..Len(q) - 1 : j + 1 \in 1..Len(q) /\ r[j] = q[j + 1]
    BY <1>1, <1>5, <2>1, RotateInSeq
  <2> HIDE DEF r
  <2>4. \A j \in DOMAIN r : r[j] = Bye \/ r[j] \in EventsOf(q)
    BY <1>1, <2>2, <2>3 DEF EventsOf
  <2>5. EventsOf(r) \subseteq EventsOf(q) \cup {e, Bye}
    BY <2>4 DEF EventsOf
  <2>6. QED
    BY <1>5, <2>5 DEF q, r
<1>6. Len(q) < QUEUE_MAXSIZE \/ q # <<>>
  BY <1>1 DEF HubAssumption
<1>7. QED
  BY <1>1, <1>2, <1>3, <1>4, <1>5, <1>6 DEF QueueAfter, q

LEMMA EnqueueEvents ==
    ASSUME HubAssumption, HubTypeOK, NEW S, NEW e \in Events, e.key \in Keys, Enqueue(S, e),
           NEW c \in Clients
    PROVE  EventsOf(queue'[c]) \subseteq EventsOf(queue[c]) \cup {e, Bye}
<1>1. queue'[c] = IF c \in S THEN QueueAfter(c, e) ELSE queue[c]
  BY DEF Enqueue
<1>2. QED
  BY <1>1, QueueAfterEvents

\* What is taken from a queue leaves the other events behind, of other keys all.
LEMMA ConsumeEvents ==
    ASSUME HubAssumption, HubTypeOK, QueuesOK, NEW c \in Clients, Consume(c)
    PROVE  /\ Head(queue[c]) \in EventsOf(queue[c])
           /\ EventsOf(queue'[c]) \subseteq EventsOf(queue[c])
           /\ \A f \in EventsOf(queue'[c]) : f.key # Head(queue[c]).key
           /\ \A k \in Keys : seen'[c][k] = IF Head(queue[c]).key = k THEN Head(queue[c]).ver
                                            ELSE seen[c][k]
           /\ \A d \in Clients \ {c} : queue'[d] = queue[d] /\ seen'[d] = seen[d]
<1> DEFINE q == queue[c]
           h == Head(queue[c])
<1>1. /\ q \in Seq(Events) /\ q # <<>> /\ queue'[c] = Tail(q) /\ h \in Events
  BY DEF Consume, HubTypeOK
<1>2. /\ Len(q) \in Nat \ {0} /\ DOMAIN q = 1..Len(q) /\ DOMAIN Tail(q) = 1..Len(q) - 1
      /\ \A j \in 1..Len(q) - 1 : Tail(q)[j] = q[j + 1]
      /\ h = q[1]
  BY <1>1
<1>3. \A j \in 1..Len(q) - 1 : j + 1 \in 1..Len(q) /\ j + 1 # 1
  <2>1. Len(q) \in Nat
    BY <1>2
  <2>2. QED
    BY <2>1
<1>4. 1 \in 1..Len(q)
  BY <1>2
<1>5. \A i, j \in DOMAIN q : q[i].key = q[j].key => i = j
  BY DEF QueuesOK, QueueOK
<1>6. ASSUME NEW k \in Keys
      PROVE  seen'[c][k] = IF h.key = k THEN h.ver ELSE seen[c][k]
  <2>1. h = Bye => h.key # k
    BY HubAssumption DEF Bye, HubAssumption
  <2>2. h # Bye => h.key \in Keys
    BY <1>1 DEF Events, Bye
  <2>3. QED
    BY <2>1, <2>2 DEF Consume, HubTypeOK
<1>7. \A d \in Clients \ {c} : queue'[d] = queue[d] /\ seen'[d] = seen[d]
  BY DEF Consume, HubTypeOK
<1> HIDE DEF q, h
<1>8. h \in EventsOf(q)
  BY <1>2, <1>4 DEF EventsOf
<1>9. \A j \in DOMAIN Tail(q) : Tail(q)[j] \in EventsOf(q) /\ Tail(q)[j].key # h.key
  BY <1>2, <1>3, <1>4, <1>5 DEF EventsOf
<1>10. \A f \in EventsOf(Tail(q)) : f \in EventsOf(q) /\ f.key # h.key
  BY <1>9 DEF EventsOf
<1>11. QED
  BY <1>1, <1>6, <1>7, <1>8, <1>10 DEF q, h

LEMMA TimeInvStep ==
    ASSUME HubAssumption, HubTypeOK, OnePollerPerKey, QueuesOK, TimeInv, [HubNext]_hubVars
    PROVE  TimeInv'
<1> USE DEF sessionVars, registryVars
\* Nothing new is known.
<1>a. ASSUME UNCHANGED <<queue, seen, market>>,
             \A k \in Keys : last_value'[k] \in {0, last_value[k]},
             \A t \in Tasks : task'[t].pc = "reply" => task'[t] = task[t]
      PROVE  TimeInv'
  <2>1. \A k \in Keys : last_value'[k] <= last_value[k] /\ last_value[k] \in Nat
    BY <1>a, VersionsAreNat
  <2>2. \A t \in Tasks : task[t].pc = "reply" => task[t].key \in Keys /\ task[t].val \in Nat
    BY VersionsAreNat DEF Versions
  <2>3. \A k \in Keys : market[k] \in Nat /\ last_value'[k] \in Nat
    BY <1>a, VersionsAreNat
  <2>4. \A k \in Keys : /\ last_value'[k] <= market[k] /\ KnowAtMost(k, market[k])
                        /\ last_value'[k] # 0 => KnowAtMost(k, last_value'[k])
    BY <1>a, <2>1, <2>3 DEF TimeInv
  <2>5. \A t \in Tasks : task'[t].pc = "reply" =>
            /\ last_value'[task[t].key] <= task[t].val
            /\ task[t].val <= market[task[t].key]
            /\ KnowAtMost(task[t].key, task[t].val)
    BY <1>a, <2>1, <2>2, <2>3 DEF TimeInv
  <2>6. QED
    BY <1>a, <2>4, <2>5 DEF TimeInv, KnowAtMost, EventsOf
\* A session or the market changes, and less is known, or the same.
<1>b. ASSUME UNCHANGED <<last_value, task>>,
             \A k \in Keys : market'[k] \in Nat /\ market[k] <= market'[k],
             \A k \in Keys, v \in Nat : KnowAtMost(k, v) => KnowAtMost(k, v)',
             \A c \in Clients : \A f \in EventsOf(queue'[c]) :
                f.key \in Keys => seen'[c][f.key] <= f.ver
      PROVE  TimeInv'
  <2>1. ASSUME NEW k \in Keys
        PROVE  /\ last_value[k] <= market'[k]
               /\ KnowAtMost(k, market[k])'
               /\ last_value[k] # 0 => KnowAtMost(k, last_value[k])'
    <3>1. /\ last_value[k] \in Nat /\ market[k] \in Nat /\ market'[k] \in Nat
          /\ last_value[k] <= market[k] /\ market[k] <= market'[k]
          /\ KnowAtMost(k, market[k]) /\ (last_value[k] # 0 => KnowAtMost(k, last_value[k]))
      BY <1>b, VersionsAreNat DEF TimeInv
    <3>2. \A c \in Clients : seen[c][k] \in Nat /\ \A f \in EventsOf(queue[c]) : f.ver \in Nat
      BY VersionsAreNat
    <3>3. KnowAtMost(k, market'[k])
      BY <3>1, <3>2 DEF KnowAtMost
    <3>4. ASSUME NEW v \in Nat, KnowAtMost(k, v)
          PROVE  \A c \in Clients :
                    /\ seen'[c][k] <= v
                    /\ \A f \in EventsOf(queue'[c]) : f.key = k => f.ver <= v
      BY <1>b, <3>4 DEF KnowAtMost, EventsOf
    <3>5. QED
      BY <1>b, <3>1, <3>3, <3>4 DEF KnowAtMost, EventsOf
  <2>2. ASSUME NEW t \in Tasks, task[t].pc = "reply"
        PROVE  /\ last_value[task[t].key] <= task[t].val
               /\ task[t].val <= market'[task[t].key]
               /\ \A c \in Clients :
                    /\ seen'[c][task[t].key] <= task[t].val
                    /\ \A f \in EventsOf(queue'[c]) : f.key = task[t].key => f.ver <= task[t].val
    <3> DEFINE k == task[t].key
               v == task[t].val
    <3>1. k \in Keys /\ v \in Nat
      BY <2>2, VersionsAreNat DEF Versions
    <3>2. last_value[k] <= v /\ v <= market[k] /\ KnowAtMost(k, v)
      BY <2>2 DEF TimeInv
    <3> HIDE DEF k, v
    <3>3. market[k] \in Nat /\ market'[k] \in Nat /\ market[k] <= market'[k]
      BY <1>b, <3>1, VersionsAreNat
    <3>4. \A c \in Clients :
            /\ seen'[c][k] <= v
            /\ \A f \in EventsOf(queue'[c]) : f.key = k => f.ver <= v
      BY <1>b, <3>1, <3>2 DEF KnowAtMost, EventsOf
    <3>5. v <= market'[k]
      BY <3>1, <3>2, <3>3
    <3>6. QED
      BY <3>2, <3>4, <3>5 DEF k, v
  <2>3. QED
    BY <1>b, <2>1, <2>2 DEF TimeInv, KnowAtMost, EventsOf
<1>1. ASSUME NEW c \in Clients, create_client(c) \/ remove_client(c)
      PROVE  TimeInv'
  <2>1. /\ queue'[c] = <<>> /\ \A k \in Keys : seen'[c][k] = 0
        /\ \A d \in Clients \ {c} : queue'[d] = queue[d] /\ seen'[d] = seen[d]
    BY <1>1 DEF create_client, remove_client, NewSession, HubTypeOK
  <2>2. EventsOf(queue'[c]) = {}
    BY <2>1 DEF EventsOf
  <2>3. UNCHANGED <<last_value, task, market>>
    BY <1>1 DEF create_client, remove_client
  <2>4. ASSUME NEW k \in Keys, NEW v \in Nat, KnowAtMost(k, v)
        PROVE  \A d \in Clients :
                    /\ seen'[d][k] <= v
                    /\ \A f \in EventsOf(queue'[d]) : f.key = k => f.ver <= v
    BY <2>1, <2>2, <2>4 DEF KnowAtMost
  <2>5. \A d \in Clients : \A f \in EventsOf(queue'[d]) :
            f.key \in Keys => seen'[d][f.key] <= f.ver
    BY <2>1, <2>2 DEF TimeInv
  <2>6. \A k \in Keys : market'[k] \in Nat /\ market[k] <= market'[k]
    BY <2>3, VersionsAreNat
  <2>7. \A k \in Keys, v \in Nat : KnowAtMost(k, v) => KnowAtMost(k, v)'
    BY <2>4 DEF KnowAtMost, EventsOf
  <2>8. QED
    BY <1>b, <2>3, <2>5, <2>6, <2>7
<1>2. ASSUME NEW c \in Clients, Consume(c)
      PROVE  TimeInv'
  <2> DEFINE h == Head(queue[c])
  <2>1. /\ h \in EventsOf(queue[c]) /\ EventsOf(queue'[c]) \subseteq EventsOf(queue[c])
        /\ \A f \in EventsOf(queue'[c]) : f.key # h.key
        /\ \A k \in Keys : seen'[c][k] = IF h.key = k THEN h.ver ELSE seen[c][k]
        /\ \A d \in Clients \ {c} : queue'[d] = queue[d] /\ seen'[d] = seen[d]
    BY <1>2, ConsumeEvents
  <2>2. UNCHANGED <<last_value, task, market>>
    BY <1>2 DEF Consume
  <2> HIDE DEF h
  <2>3. ASSUME NEW k \in Keys, NEW v \in Nat, KnowAtMost(k, v)
        PROVE  \A d \in Clients :
                    /\ seen'[d][k] <= v
                    /\ \A f \in EventsOf(queue'[d]) : f.key = k => f.ver <= v
    BY <2>1, <2>3 DEF KnowAtMost
  <2>4. \A d \in Clients : \A f \in EventsOf(queue'[d]) :
            f.key \in Keys => seen'[d][f.key] <= f.ver
    BY <2>1 DEF TimeInv
  <2>5. \A k \in Keys : market'[k] \in Nat /\ market[k] <= market'[k]
    BY <2>2, VersionsAreNat
  <2>6. \A k \in Keys, v \in Nat : KnowAtMost(k, v) => KnowAtMost(k, v)'
    BY <2>3 DEF KnowAtMost, EventsOf
  <2>7. QED
    BY <1>b, <2>2, <2>4, <2>5, <2>6
<1>3. ASSUME NEW k \in Keys, MarketMoves(k)
      PROVE  TimeInv'
  <2>1. UNCHANGED <<last_value, task, queue, seen>>
    BY <1>3 DEF MarketMoves
  <2>2. \A j \in Keys : market'[j] \in Nat /\ market[j] <= market'[j]
    BY <1>3, VersionsAreNat DEF MarketMoves, HubTypeOK
  <2>3. \A j \in Keys, v \in Nat : KnowAtMost(j, v) => KnowAtMost(j, v)'
    BY <2>1 DEF KnowAtMost, EventsOf
  <2>4. \A d \in Clients : \A f \in EventsOf(queue'[d]) :
            f.key \in Keys => seen'[d][f.key] <= f.ver
    BY <2>1 DEF TimeInv
  <2>5. QED
    BY <1>b, <2>1, <2>2, <2>3, <2>4
\* An event of a key is enqueued that is as new as anything known of the key.
<1>c. ASSUME NEW S, NEW e \in Events, e.key \in Keys, Enqueue(S, e), UNCHANGED <<seen, market>>,
             e.ver <= market[e.key], KnowAtMost(e.key, e.ver),
             last_value' = [last_value EXCEPT ![e.key] = e.ver],
             \A t \in Tasks : task'[t].pc = "reply" =>
                task'[t] = task[t] /\ (task[t].key = e.key => e.ver <= task[t].val)
      PROVE  TimeInv'
  <2>1. \A d \in Clients : EventsOf(queue'[d]) \subseteq EventsOf(queue[d]) \cup {e, Bye}
    BY <1>c, EnqueueEvents
  <2>2. \A k \in Keys : k # Bye.key
    BY HubAssumption DEF Bye, HubAssumption
  <2>3. e.ver \in Nat
    BY HubAssumption DEF Events, Versions, HubAssumption
  <2>4. ASSUME NEW k \in Keys, NEW v \in Nat, KnowAtMost(k, v), k = e.key => e.ver <= v
        PROVE  \A d \in Clients :
                    /\ seen'[d][k] <= v
                    /\ \A f \in EventsOf(queue'[d]) : f.key = k => f.ver <= v
    BY <1>c, <2>1, <2>2, <2>4 DEF KnowAtMost
  <2>5. \A k \in Keys : /\ market[k] \in Nat /\ last_value[k] \in Nat
                        /\ last_value'[k] = IF k = e.key THEN e.ver ELSE last_value[k]
    BY <1>c, VersionsAreNat DEF HubTypeOK
  <2>6. ASSUME NEW k \in Keys
        PROVE  /\ last_value'[k] <= market'[k]
               /\ KnowAtMost(k, market[k])'
               /\ last_value'[k] # 0 => KnowAtMost(k, last_value[k])'
    <3>1. market' = market /\ KnowAtMost(k, market[k])
      BY <1>c DEF TimeInv
    <3>2. KnowAtMost(k, market[k])'
      BY <1>c, <2>4, <2>5, <3>1 DEF KnowAtMost, EventsOf
    <3>3. last_value'[k] <= market'[k]
      BY <1>c, <2>5 DEF TimeInv
    <3>4. last_value'[k] # 0 => KnowAtMost(k, last_value'[k])
      BY <1>c, <2>5 DEF TimeInv
    <3>5. k = e.key => e.ver <= last_value'[k]
      BY <2>3, <2>5
    <3>6. last_value'[k] # 0 => KnowAtMost(k, last_value[k])'
      BY <2>3, <2>4, <2>5, <3>4, <3>5 DEF KnowAtMost, EventsOf
    <3>7. QED
      BY <3>2, <3>3, <3>6
  <2>7. ASSUME NEW t \in Tasks, task'[t].pc = "reply"
        PROVE  /\ last_value'[task'[t].key] <= task'[t].val
               /\ task'[t].val <= market'[task'[t].key]
               /\ KnowAtMost(task[t].key, task[t].val)'
    <3> DEFINE k == task[t].key
               v == task[t].val
    <3>1. task'[t].key = k /\ task'[t].val = v /\ task[t].pc = "reply"
      BY <1>c, <2>7
    <3>2. k \in Keys /\ v \in Nat
      BY <3>1, VersionsAreNat DEF Versions
    <3>3. last_value[k] <= v /\ v <= market[k] /\ KnowAtMost(k, v)
      BY <3>1 DEF TimeInv
    <3>4. k = e.key => e.ver <= v
      BY <1>c, <2>7
    <3> HIDE DEF k, v
    <3>5. last_value'[k] <= v /\ v <= market'[k]
      BY <1>c, <2>5, <3>2, <3>3, <3>4
    <3>6. \A d \in Clients :
            /\ seen'[d][k] <= v
            /\ \A f \in EventsOf(queue'[d]) : f.key = k => f.ver <= v
      BY <2>4, <3>2, <3>3, <3>4
    <3>7. KnowAtMost(task[t].key, task[t].val)'
      BY <3>1, <3>6 DEF KnowAtMost, EventsOf
    <3>8. QED
      BY <3>1, <3>5, <3>7
  <2>8. \A d \in Clients : \A f \in EventsOf(queue'[d]) :
            f.key \in Keys => seen'[d][f.key] <= f.ver
    BY <1>c, <2>1, <2>2 DEF TimeInv, KnowAtMost
  <2>9. QED
    BY <2>6, <2>7, <2>8 DEF TimeInv, EventsOf
<1>4. ASSUME NEW c \in Clients, NEW k \in Keys, subscribe(c, k)
      PROVE  TimeInv'
  <2>1. UNCHANGED <<seen, market, last_value>>
    BY <1>4 DEF subscribe
  <2>2. \A t \in Tasks : task'[t].pc = "reply" => task'[t] = task[t]
    BY <1>4 DEF subscribe, StartPoller, Poller, HubTypeOK
  <2>3. CASE last_value[k] = 0
    BY <1>4, <1>a, <2>1, <2>2, <2>3 DEF subscribe
  <2>4. CASE last_value[k] # 0
    <3> DEFINE e == [key |-> k, ver |-> last_value[k]]
    <3>1. e \in Events /\ e.key = k /\ e.ver = last_value[k]
      BY <2>4 DEF Events, Versions, HubTypeOK, HubAssumption
    <3>2. Enqueue({c}, e)
      BY <1>4, <2>4 DEF subscribe
    <3> HIDE DEF e
    <3>3. e.ver <= market[k] /\ KnowAtMost(k, e.ver)
      BY <2>4, <3>1 DEF TimeInv
    <3>4. last_value' = [last_value EXCEPT ![k] = e.ver]
      BY <2>1, <3>1 DEF HubTypeOK
    <3>5. \A t \in Tasks : task'[t].pc = "reply" =>
            task'[t] = task[t] /\ (task[t].key = k => e.ver <= task[t].val)
      BY <2>2, <3>1 DEF TimeInv
    <3>6. QED
      BY <1>c, <2>1, <3>1, <3>2, <3>3, <3>4, <3>5
  <2>5. QED
    BY <2>3, <2>4
<1>5. ASSUME NEW t \in Tasks, PollOk(t)
      PROVE  TimeInv'
  <2> DEFINE k == task[t].key
             e == [key |-> k, ver |-> task[t].val]
  <2>1. k \in Keys /\ task[t].val \in Versions /\ task[t].pc = "reply"
    BY <1>5, VersionsAreNat DEF PollOk
  <2>2. /\ UNCHANGED <<seen, market>> /\ Enqueue(Subscribers(k), e)
        /\ last_value' = [last_value EXCEPT ![k] = task[t].val]
        /\ task' = [task EXCEPT ![t] = Poller("sleep", k, 0)]
    BY <1>5 DEF PollOk
  <2>3. e \in Events /\ e.key = k /\ e.ver = task[t].val
    BY <2>1 DEF Events
  <2>4. e.ver <= market[k] /\ KnowAtMost(k, e.ver)
    BY <2>1, <2>3 DEF TimeInv
  <2>5. \A u \in Tasks : task[u].pc = "reply" /\ task[u].key = k => u = t
    BY <2>1 DEF OnePollerPerKey, Running
  <2>6. \A u \in Tasks : task'[u].pc = "reply" => u # t /\ task'[u] = task[u]
    BY <2>2 DEF Poller, HubTypeOK
  <2>7. \A u \in Tasks : task'[u].pc = "reply" =>
            task'[u] = task[u] /\ (task[u].key = k => e.ver <= task[u].val)
    BY <2>5, <2>6
  <2> HIDE DEF e, k
  <2>8. QED
    BY <1>c, <2>1, <2>2, <2>3, <2>4, <2>7
<1>6. ASSUME NEW t \in Tasks, UpstreamAnswers(t)
      PROVE  TimeInv'
  <2> DEFINE k == task[t].key
  <2>1. k \in Keys
    <3>1. task[t] \in PollerTasks \cup {FreeTask} /\ task[t].pc = "fetch"
      BY <1>6 DEF UpstreamAnswers, HubTypeOK
    <3>2. QED
      BY <3>1 DEF PollerTasks, FreeTask
  <2>2. /\ UNCHANGED <<last_value, queue, seen, market>>
        /\ task' = [task EXCEPT ![t] = Poller("reply", k, market[k])]
    BY <1>6 DEF UpstreamAnswers
  <2>3. /\ task'[t] = Poller("reply", k, market[k])
        /\ \A u \in Tasks : u # t => task'[u] = task[u]
    BY <2>2 DEF HubTypeOK
  <2>4. last_value[k] <= market[k] /\ market[k] <= market[k] /\ KnowAtMost(k, market[k])
    BY <2>1, VersionsAreNat DEF TimeInv
  <2>5. /\ Poller("reply", k, market[k]).key = k
        /\ Poller("reply", k, market[k]).val = market[k]
    BY DEF Poller
  <2> HIDE DEF k
  <2>6. \A u \in Tasks : task'[u].pc = "reply" =>
            /\ last_value[task'[u].key] <= task'[u].val
            /\ task'[u].val <= market[task'[u].key]
            /\ KnowAtMost(task'[u].key, task'[u].val)
    BY <2>3, <2>4, <2>5 DEF TimeInv
  <2>7. QED
    BY <2>2, <2>6 DEF TimeInv, KnowAtMost, EventsOf
<1>7. ASSUME NEW c \in Clients, NEW k \in Keys, unsubscribe(c, k) \/ RemoveKey(c, k)
      PROVE  TimeInv'
  <2>1. UNCHANGED <<queue, seen, market>> /\ DropSubscription(c, k)
    BY <1>7 DEF unsubscribe, RemoveKey
  <2>2. \A j \in Keys : last_value'[j] \in {0, last_value[j]}
    BY <2>1 DEF DropSubscription, HubTypeOK
  <2>3. \A t \in Tasks : task'[t].pc = "reply" => task'[t] = task[t]
    <3>1. CASE LastOne(c, k)
      <4> TAKE t \in Tasks
      <4>1. task'[t] = task[t] \/ task'[t] = [task[t] EXCEPT !.pc = "cancelled"]
        BY <2>1, <3>1 DEF DropSubscription
      <4>2. [task[t] EXCEPT !.pc = "cancelled"].pc = "cancelled"
        BY DEF HubTypeOK, PollerTasks, FreeTask
      <4>3. QED
        BY <4>1, <4>2
    <3>2. QED
      BY <2>1, <3>1 DEF DropSubscription
  <2>4. QED
    BY <1>a, <2>1, <2>2, <2>3
<1>8. ASSUME NEW t \in Tasks, PollFail(t) \/ PollAgain(t) \/ TaskEnds(t)
      PROVE  TimeInv'
  <2>1. \A u \in Tasks : task'[u].pc = "reply" => task'[u] = task[u]
    BY <1>8 DEF PollFail, PollAgain, TaskEnds, Poller, FreeTask, HubTypeOK
  <2>2. UNCHANGED <<queue, seen, market, last_value>>
    BY <1>8 DEF PollFail, PollAgain, TaskEnds
  <2>3. QED
    BY <1>a, <2>1, <2>2
<1>9. CASE shutdown
  <2>1. \A t \in Tasks : task'[t].pc = "reply" => task'[t] = task[t]
    <3> TAKE t \in Tasks
    <3>1. task'[t] = task[t] \/ task'[t] = [task[t] EXCEPT !.pc = "cancelled"]
      BY <1>9 DEF shutdown
    <3>2. [task[t] EXCEPT !.pc = "cancelled"].pc = "cancelled"
      BY DEF HubTypeOK, PollerTasks, FreeTask
    <3>3. QED
      BY <3>1, <3>2
  <2>2. UNCHANGED <<queue, seen, market>> /\ \A k \in Keys : last_value'[k] = 0
    BY <1>9 DEF shutdown
  <2>3. QED
    BY <1>a, <2>1, <2>2
<1>10. CASE Tick
  BY <1>10, <1>a DEF Tick
<1>11. CASE UNCHANGED hubVars
  BY <1>11, <1>a DEF hubVars
<1>12. QED
  BY <1>1, <1>2, <1>3, <1>4, <1>5, <1>6, <1>7, <1>8, <1>9, <1>10, <1>11 DEF HubNext, PollerStep

LEMMA TimeInvariant == HubSpec => []TimeInv
<1>1. HubInit => TimeInv
  <2> SUFFICES ASSUME HubInit PROVE TimeInv
    OBVIOUS
  <2>1. \A c \in Clients : EventsOf(queue[c]) = {} /\ \A k \in Keys : seen[c][k] = 0
    BY DEF HubInit, EventsOf
  <2>2. \A k \in Keys : last_value[k] = 0 /\ market[k] = 1
    BY DEF HubInit
  <2>3. \A t \in Tasks : task[t].pc = "free"
    BY DEF HubInit, FreeTask
  <2>4. QED
    BY <2>1, <2>2, <2>3 DEF TimeInv, KnowAtMost
<1>2. HubTypeOK /\ OnePollerPerKey /\ QueuesOK /\ TimeInv /\ [HubNext]_hubVars => TimeInv'
  BY HubAssumption, TimeInvStep
<1>3. QED
  BY <1>1, <1>2, HubTypeCorrect, PollersAreUnique, QueuesInvariant, PTL DEF HubSpec

\* For any number of clients, keys, tasks and versions: no connection sees a market
\* go back in time, whatever pollers were stopped and started between two looks.
THEOREM TimeNeverGoesBack == HubSpec => NeverBackwards
<1> DEFINE Forward == \A c \in clients : c \in clients' =>
                        \A k \in Keys : seen'[c][k] >= seen[c][k]
<1>1. HubTypeOK /\ QueuesOK /\ TimeInv /\ [HubNext]_hubVars => Forward
  <2> SUFFICES ASSUME HubTypeOK, QueuesOK, TimeInv, [HubNext]_hubVars,
                      NEW c \in clients, c \in clients', NEW k \in Keys
               PROVE  seen'[c][k] >= seen[c][k]
    OBVIOUS
  <2> USE DEF sessionVars, registryVars
  <2>1. c \in Clients /\ seen[c][k] \in Nat
    BY VersionsAreNat DEF HubTypeOK
  <2>2. CASE seen'[c] = seen[c]
    BY <2>1, <2>2
  <2>3. CASE Consume(c)
    <3>1. /\ Head(queue[c]) \in EventsOf(queue[c])
          /\ seen'[c][k] = IF Head(queue[c]).key = k THEN Head(queue[c]).ver ELSE seen[c][k]
      BY <2>1, <2>3, ConsumeEvents, HubAssumption
    <3>2. Head(queue[c]).ver \in Nat /\ (Head(queue[c]).key = k => seen[c][k] <= Head(queue[c]).ver)
      BY <2>1, <3>1, VersionsAreNat DEF TimeInv
    <3>3. QED
      BY <2>1, <3>1, <3>2
  <2>4. ASSUME NEW d \in Clients, create_client(d) \/ remove_client(d) \/ Consume(d)
        PROVE  d = c \/ seen'[c] = seen[c]
    BY <2>1, <2>4 DEF create_client, remove_client, Consume, NewSession, HubTypeOK
  <2>5. ~create_client(c) /\ ~remove_client(c)
    BY DEF create_client, remove_client
  <2>6. CASE \/ \E d \in Clients, j \in Keys : subscribe(d, j) \/ unsubscribe(d, j) \/ RemoveKey(d, j)
             \/ PollerStep \/ shutdown \/ Tick \/ \E j \in Keys : MarketMoves(j)
             \/ UNCHANGED hubVars
    <3>1. seen' = seen
      BY <2>6 DEF subscribe, unsubscribe, RemoveKey, PollerStep, UpstreamAnswers, PollOk, PollFail,
         PollAgain, TaskEnds, shutdown, Tick, MarketMoves, hubVars
    <3>2. QED
      BY <2>2, <3>1
  <2>7. QED
    BY <2>2, <2>3, <2>4, <2>5, <2>6 DEF HubNext
<1>2. QED
  BY <1>1, HubTypeCorrect, QueuesInvariant, TimeInvariant, PTL DEF HubSpec, NeverBackwards

-----------------------------------------------------------------------------
(* Slow clients.  The list of drops is in the order of time: what is trimmed    *)
(* from its front is all that has left the window.                              *)

DropsOK(drops) ==
    /\ \A i, j \in DOMAIN drops : i <= j => drops[i] >= drops[j]
    /\ \A i, j \in DOMAIN drops : drops[i] - drops[j] <= DROPPED_WINDOW

LEMMA RecentDropsOK ==
    ASSUME HubAssumption, HubTypeOK, NEW c \in Clients, DropsOK(dropped_at[c])
    PROVE  DropsOK(RecentDrops(c)) /\ Len(RecentDrops(c)) \in Nat
<1> DEFINE old == dropped_at[c]
           drops == Append(old, 0)
           fresh == {i \in DOMAIN drops : drops[i] <= DROPPED_WINDOW}
           m == First(fresh)
           n == Len(drops)
           kept == SubSeq(drops, m, n)
<1>1. 0 \in 0..DROPPED_WINDOW + 1 /\ old \in Seq(0..DROPPED_WINDOW + 1)
      /\ DROPPED_WINDOW \in Nat
  BY DEF HubTypeOK, HubAssumption
<1>2. /\ drops \in Seq(0..DROPPED_WINDOW + 1) /\ drops[n] = 0
      /\ n \in DOMAIN drops /\ DOMAIN drops = 1..n /\ n \in Nat
      /\ \A i \in 1..n : i # n => i \in DOMAIN old /\ drops[i] = old[i]
  BY <1>1
<1>3. \A i \in 1..n : drops[i] \in 0..DROPPED_WINDOW + 1
  BY <1>2
<1>4. \A i, j \in DOMAIN old : i <= j => old[i] >= old[j]
  BY DEF DropsOK
<1> HIDE DEF drops, old, n
<1>5. \A i, j \in 1..n : i <= j => drops[i] >= drops[j]
  <2> SUFFICES ASSUME NEW i \in 1..n, NEW j \in 1..n, i <= j PROVE drops[i] >= drops[j]
    OBVIOUS
  <2>1. CASE j = n
    BY <1>1, <1>2, <1>3, <2>1
  <2>2. CASE j # n
    <3>1. i # n
      BY <1>2, <2>2
    <3>2. QED
      BY <1>2, <1>4, <2>2, <3>1
  <2>3. QED
    BY <2>1, <2>2
<1>6. n \in fresh /\ fresh \subseteq Nat
  BY <1>1, <1>2
<1>7. m \in fresh
  BY <1>6, FirstIsLeast
<1>8. m \in 1..n /\ drops[m] <= DROPPED_WINDOW
  BY <1>2, <1>7
<1> HIDE DEF fresh, m
<1>9. /\ Len(kept) = n - m + 1 /\ DOMAIN kept = 1..(n - m + 1)
      /\ \A i \in 1..(n - m + 1) : kept[i] = drops[m + i - 1]
  BY <1>2, <1>8, SubSeqProperties
<1>10. /\ n - m + 1 \in Nat
       /\ \A i \in 1..(n - m + 1) : m + i - 1 \in 1..n /\ m <= m + i - 1
       /\ \A i, j \in 1..(n - m + 1) : i <= j => m + i - 1 <= m + j - 1
  <2>1. m \in Int /\ n \in Int /\ 1 <= m /\ m <= n
    BY <1>2, <1>8
  <2>2. QED
    BY <2>1
<1> HIDE DEF kept
<1>11. \A i, j \in DOMAIN kept : i <= j => kept[i] >= kept[j]
  BY <1>5, <1>9, <1>10
<1>12. \A i \in DOMAIN kept : kept[i] \in 0..DROPPED_WINDOW
  <2> TAKE i \in DOMAIN kept
  <2>1. /\ kept[i] = drops[m + i - 1] /\ m + i - 1 \in 1..n
        /\ drops[m] >= drops[m + i - 1]
    BY <1>5, <1>8, <1>9, <1>10
  <2>2. drops[m + i - 1] \in 0..DROPPED_WINDOW + 1 /\ drops[m] \in 0..DROPPED_WINDOW + 1
    BY <1>3, <1>8, <2>1
  <2>3. QED
    BY <1>1, <1>8, <2>1, <2>2
<1>13. \A i, j \in DOMAIN kept : kept[i] - kept[j] <= DROPPED_WINDOW
  BY <1>1, <1>12
<1>14. DropsOK(kept) /\ Len(kept) \in Nat
  BY <1>9, <1>10, <1>11, <1>13 DEF DropsOK
<1>15. QED
  BY <1>14 DEF RecentDrops, kept, m, n, fresh, drops, old

\* The final bye stays last.
LastOK(q) == \A i \in DOMAIN q : q[i].key = ByeKey => i = Len(q)

SlowOK(q, drops, isClosed) ==
    /\ DropsOK(drops) /\ LastOK(q)
    /\ isClosed = TRUE => Len(drops) >= DROPPED_THRESHOLD
    /\ isClosed = FALSE => Len(drops) < DROPPED_THRESHOLD

SlowInv == \A c \in clients : SlowOK(queue[c], dropped_at[c], closed[c])

LEMMA QueueAfterLast ==
    ASSUME HubAssumption, HubTypeOK, NEW c \in Clients, NEW e \in Events, e.key \in Keys,
           QueueOK(queue[c], closed[c]), LastOK(queue[c])
    PROVE  LastOK(QueueAfter(c, e))
<1> DEFINE q == queue[c]
           i == First(Queued(q, e.key))
<1>1. /\ q \in Seq(Events) /\ Len(q) \in Nat /\ DOMAIN q = 1..Len(q)
      /\ closed[c] \in BOOLEAN /\ e.key # ByeKey /\ LastOK(q) /\ QueueOK(q, closed[c])
  BY DEF HubTypeOK, HubAssumption
<1> HIDE DEF q
<1>2. CASE QueueAfter(c, e) = q
  BY <1>1, <1>2
<1>3. CASE closed[c] = FALSE /\ QueueAfter(c, e) = [q EXCEPT ![i] = e]
  <2> DEFINE r == [q EXCEPT ![i] = e]
  <2>1. DOMAIN r = DOMAIN q /\ \A j \in DOMAIN q : r[j] \in {q[j], e}
    BY <1>1
  <2>2. \A j \in DOMAIN q : q[j].key # ByeKey
    BY <1>1, <1>3 DEF QueueOK
  <2> HIDE DEF r
  <2>3. LastOK(r)
    BY <1>1, <2>1, <2>2 DEF LastOK
  <2>4. QED
    BY <1>3, <2>3 DEF r
<1>4. CASE closed[c] = FALSE /\ QueueAfter(c, e) = Append(q, e)
  <2> DEFINE r == Append(q, e)
  <2>1. \A j \in DOMAIN r : r[j] = e \/ (j \in DOMAIN q /\ r[j] = q[j])
    BY <1>1
  <2>2. \A j \in DOMAIN q : q[j].key # ByeKey
    BY <1>1, <1>4 DEF QueueOK
  <2> HIDE DEF r
  <2>3. LastOK(r)
    BY <1>1, <2>1, <2>2 DEF LastOK
  <2>4. QED
    BY <1>4, <2>3 DEF r
<1>5. CASE closed[c] = FALSE /\ QueueAfter(c, e) = Append(Tail(q), Bye) /\ q # <<>>
  <2>1. Bye \in Events
    BY DEF Bye, Events
  <2> DEFINE r == Append(Tail(q), Bye)
  <2>2. /\ DOMAIN r = 1..Len(q) /\ Len(r) = Len(q)
        /\ \A j \in 1..Len(q) - 1 : j + 1 \in 1..Len(q) /\ r[j] = q[j + 1]
    BY <1>1, <1>5, <2>1, RotateInSeq
  <2>3. \A j \in DOMAIN q : q[j].key # ByeKey
    BY <1>1, <1>5 DEF QueueOK
  <2>4. Len(q) \in Nat /\ DOMAIN q = 1..Len(q)
    BY <1>1
  <2> HIDE DEF r
  <2>5. \A j \in 1..Len(q) : j = Len(q) \/ j \in 1..Len(q) - 1
    <3>1. Len(q) \in Nat
      BY <2>4
    <3>2. QED
      BY <3>1
  <2>6. LastOK(r)
    BY <2>2, <2>3, <2>4, <2>5 DEF LastOK
  <2>7. QED
    BY <1>5, <2>6 DEF r
<1>6. Len(q) < QUEUE_MAXSIZE \/ q # <<>>
  BY <1>1 DEF HubAssumption
<1>7. QED
  BY <1>1, <1>2, <1>3, <1>4, <1>5, <1>6 DEF QueueAfter, q

LEMMA EnqueueSlow ==
    ASSUME HubAssumption, HubTypeOK, QueuesOK, SlowInv, NEW S, NEW e \in Events, e.key \in Keys,
           Enqueue(S, e), NEW c \in clients
    PROVE  SlowOK(queue'[c], dropped_at'[c], closed'[c])
<1>1. c \in Clients /\ closed[c] \in BOOLEAN /\ QueueOK(queue[c], closed[c])
      /\ SlowOK(queue[c], dropped_at[c], closed[c])
  BY DEF HubTypeOK, QueuesOK, SlowInv
<1>2. /\ queue'[c] = IF c \in S THEN QueueAfter(c, e) ELSE queue[c]
      /\ closed'[c] = (closed[c] \/ (c \in S /\ TooSlow(c, e)))
      /\ dropped_at'[c] = IF c \in S /\ Overflows(c, e) THEN RecentDrops(c) ELSE dropped_at[c]
  BY <1>1 DEF Enqueue
<1>3. LastOK(queue'[c])
  BY <1>1, <1>2, QueueAfterLast DEF SlowOK
<1>4. CASE c \in S /\ Overflows(c, e)
  <2>1. dropped_at'[c] = RecentDrops(c) /\ closed[c] = FALSE
    BY <1>1, <1>2, <1>4 DEF Overflows
  <2>2. closed'[c] = (Len(RecentDrops(c)) >= DROPPED_THRESHOLD)
    BY <1>2, <1>4, <2>1 DEF TooSlow
  <2>3. DropsOK(RecentDrops(c)) /\ Len(RecentDrops(c)) \in Nat
    BY <1>1, RecentDropsOK DEF SlowOK
  <2>4. Len(RecentDrops(c)) >= DROPPED_THRESHOLD \/ Len(RecentDrops(c)) < DROPPED_THRESHOLD
    BY <2>3 DEF HubAssumption
  <2>5. ~(Len(RecentDrops(c)) >= DROPPED_THRESHOLD /\ Len(RecentDrops(c)) < DROPPED_THRESHOLD)
    BY <2>3 DEF HubAssumption
  <2>6. QED
    BY <1>3, <2>1, <2>2, <2>3, <2>4, <2>5 DEF SlowOK
<1>5. CASE ~(c \in S /\ Overflows(c, e))
  <2>1. dropped_at'[c] = dropped_at[c] /\ closed'[c] = closed[c]
    BY <1>1, <1>2, <1>5 DEF TooSlow
  <2>2. QED
    BY <1>1, <1>3, <2>1 DEF SlowOK
<1>6. QED
  BY <1>4, <1>5

\* A drop gets older, up to an age at which it is out of the window.
LEMMA TickSlow ==
    ASSUME HubAssumption, HubTypeOK, Tick, NEW c \in Clients, DropsOK(dropped_at[c])
    PROVE  DropsOK(dropped_at'[c]) /\ Len(dropped_at'[c]) = Len(dropped_at[c])
<1> DEFINE old == dropped_at[c]
           new == dropped_at'[c]
           w == DROPPED_WINDOW
<1>1. /\ new = [i \in DOMAIN old |-> IF old[i] <= w THEN old[i] + 1 ELSE old[i]]
      /\ old \in Seq(0..w + 1) /\ w \in Nat
  BY DEF Tick, HubTypeOK, HubAssumption
<1>2. /\ \A i, j \in DOMAIN old : i <= j => old[i] >= old[j]
      /\ \A i, j \in DOMAIN old : old[i] - old[j] <= w
  BY DEF DropsOK
<1> HIDE DEF old, new, w
<1>3. \A i \in DOMAIN old : old[i] \in 0..w + 1
  BY <1>1
<1>4. DOMAIN new = DOMAIN old
      /\ \A i \in DOMAIN old : new[i] = IF old[i] <= w THEN old[i] + 1 ELSE old[i]
  BY <1>1
<1>5. \A i, j \in DOMAIN new : i <= j => new[i] >= new[j]
  <2> SUFFICES ASSUME NEW i \in DOMAIN old, NEW j \in DOMAIN old, i <= j
               PROVE  new[i] >= new[j]
    BY <1>4
  <2>1. old[i] >= old[j] /\ old[i] \in 0..w + 1 /\ old[j] \in 0..w + 1
    BY <1>2, <1>3
  <2>2. QED
    BY <1>1, <1>4, <2>1
<1>6. \A i, j \in DOMAIN new : new[i] - new[j] <= w
  <2> SUFFICES ASSUME NEW i \in DOMAIN old, NEW j \in DOMAIN old
               PROVE  new[i] - new[j] <= w
    BY <1>4
  <2>1. old[i] - old[j] <= w /\ old[i] \in 0..w + 1 /\ old[j] \in 0..w + 1
    BY <1>2, <1>3
  <2>2. w \in Nat
    BY <1>1
  <2>3. \A a, b \in 0..w + 1 : a - b <= w =>
            (IF a <= w THEN a + 1 ELSE a) - (IF b <= w THEN b + 1 ELSE b) <= w
    BY <2>2
  <2>4. QED
    BY <1>4, <2>1, <2>3
<1>7. Len(new) = Len(old)
  <2>1. DOMAIN new = 1..Len(old) /\ Len(old) \in Nat
    BY <1>1, <1>4
  <2>2. new \in Seq({0} \cup {new[i] : i \in DOMAIN new})
    <3>1. new = [i \in 1..Len(old) |-> new[i]]
      BY <1>1, <2>1
    <3>2. QED
      BY <2>1, <3>1
  <2>3. QED
    BY <2>1, <2>2
<1>8. QED
  BY <1>5, <1>6, <1>7 DEF DropsOK, new, old, w

LEMMA SlowInvStep ==
    ASSUME HubAssumption, HubTypeOK, QueuesOK, SlowInv, [HubNext]_hubVars
    PROVE  SlowInv'
<1> USE DEF sessionVars, registryVars
<1>a. ASSUME UNCHANGED <<clients, queue, closed, dropped_at>>
      PROVE  SlowInv'
  BY <1>a DEF SlowInv
<1>1. ASSUME NEW c \in Clients, create_client(c) \/ remove_client(c)
      PROVE  SlowInv'
  <2> SUFFICES ASSUME NEW d \in clients'
               PROVE  SlowOK(queue'[d], dropped_at'[d], closed'[d])
    BY DEF SlowInv
  <2>1. CASE d # c
    <3>1. d \in clients /\ d \in Clients
      BY <1>1, <2>1 DEF create_client, remove_client, HubTypeOK
    <3>2. queue'[d] = queue[d] /\ dropped_at'[d] = dropped_at[d] /\ closed'[d] = closed[d]
      BY <1>1, <2>1, <3>1 DEF create_client, remove_client, NewSession, HubTypeOK
    <3>3. QED
      BY <3>1, <3>2 DEF SlowInv
  <2>2. CASE d = c
    <3>1. create_client(c)
      BY <1>1, <2>2 DEF remove_client
    <3>2. queue'[d] = <<>> /\ dropped_at'[d] = <<>> /\ closed'[d] = FALSE
      BY <2>2, <3>1 DEF create_client, NewSession, HubTypeOK
    <3>3. DropsOK(<<>>) /\ LastOK(<<>>) /\ Len(<<>>) < DROPPED_THRESHOLD
      BY DEF DropsOK, LastOK, HubAssumption
    <3>4. QED
      BY <3>2, <3>3 DEF SlowOK
  <2>3. QED
    BY <2>1, <2>2
<1>2. ASSUME NEW c \in Clients, NEW k \in Keys, subscribe(c, k)
      PROVE  SlowInv'
  <2>1. CASE last_value[k] = 0
    BY <1>2, <1>a, <2>1 DEF subscribe
  <2>2. CASE last_value[k] # 0
    <3>1. [key |-> k, ver |-> last_value[k]] \in Events
      BY <2>2 DEF Events, Versions, HubTypeOK, HubAssumption
    <3>2. clients' = clients /\ Enqueue({c}, [key |-> k, ver |-> last_value[k]])
      BY <1>2, <2>2 DEF subscribe
    <3>3. QED
      BY <3>1, <3>2, EnqueueSlow DEF SlowInv
  <2>3. QED
    BY <2>1, <2>2
<1>3. ASSUME NEW t \in Tasks, PollOk(t)
      PROVE  SlowInv'
  <2>1. task[t].key \in Keys /\ task[t].val \in Versions
    BY <1>3, VersionsAreNat DEF PollOk
  <2>2. [key |-> task[t].key, ver |-> task[t].val] \in Events
    BY <2>1 DEF Events
  <2>3. /\ clients' = clients
        /\ Enqueue(Subscribers(task[t].key), [key |-> task[t].key, ver |-> task[t].val])
    BY <1>3 DEF PollOk
  <2>4. QED
    BY <2>1, <2>2, <2>3, EnqueueSlow DEF SlowInv
<1>4. ASSUME NEW c \in Clients, Consume(c)
      PROVE  SlowInv'
  <2>1. /\ UNCHANGED <<clients, closed, dropped_at>>
        /\ \A d \in Clients : d # c => queue'[d] = queue[d]
        /\ queue'[c] = Tail(queue[c]) /\ queue[c] \in Seq(Events) /\ queue[c] # <<>>
    BY <1>4 DEF Consume, HubTypeOK
  <2>2. ASSUME LastOK(queue[c])
        PROVE  LastOK(queue'[c])
    <3> DEFINE q == queue[c]
               r == Tail(q)
    <3>1. /\ Len(q) \in Nat \ {0} /\ DOMAIN q = 1..Len(q) /\ DOMAIN r = 1..Len(q) - 1
          /\ Len(r) = Len(q) - 1
          /\ \A j \in 1..Len(q) - 1 : r[j] = q[j + 1]
      BY <2>1
    <3>2. \A j \in DOMAIN q : q[j].key = ByeKey => j = Len(q)
      BY <2>2 DEF LastOK
    <3>3. queue'[c] = r
      BY <2>1
    <3> HIDE DEF q, r
    <3>4. \A j \in 1..Len(q) - 1 : j + 1 \in 1..Len(q) /\ (j + 1 = Len(q) => j = Len(q) - 1)
      <4>1. Len(q) \in Nat
        BY <3>1
      <4>2. QED
        BY <4>1
    <3>5. \A j \in DOMAIN r : r[j].key = ByeKey => j = Len(r)
      BY <3>1, <3>2, <3>4
    <3>6. QED
      BY <3>3, <3>5 DEF LastOK
  <2>3. clients \subseteq Clients
    BY DEF HubTypeOK
  <2>4. QED
    BY <2>1, <2>2, <2>3 DEF SlowInv, SlowOK
<1>5. CASE Tick
  <2>1. UNCHANGED <<clients, closed, queue>>
    BY <1>5 DEF Tick
  <2>2. clients \subseteq Clients
    BY DEF HubTypeOK
  <2>3. QED
    BY <1>5, <2>1, <2>2, TickSlow DEF SlowInv, SlowOK
<1>6. CASE shutdown
  BY <1>6 DEF shutdown, SlowInv
<1>7. ASSUME NEW c \in Clients, NEW k \in Keys, unsubscribe(c, k) \/ RemoveKey(c, k)
      PROVE  SlowInv'
  BY <1>7, <1>a DEF unsubscribe, RemoveKey
<1>8. ASSUME NEW t \in Tasks,
             UpstreamAnswers(t) \/ PollFail(t) \/ PollAgain(t) \/ TaskEnds(t)
      PROVE  SlowInv'
  BY <1>8, <1>a DEF UpstreamAnswers, PollFail, PollAgain, TaskEnds
<1>9. CASE (\E k \in Keys : MarketMoves(k)) \/ UNCHANGED hubVars
  BY <1>9, <1>a DEF MarketMoves, hubVars
<1>10. QED
  BY <1>1, <1>2, <1>3, <1>4, <1>5, <1>6, <1>7, <1>8, <1>9 DEF HubNext, PollerStep

\* For any threshold, window and size of the queues: the sessions that are closed
\* are those that lost so many events within one window, and nothing follows the bye.
THEOREM OnlySlowClientsAreClosed == HubSpec => []SlowClientsClosed
<1>1. HubInit => SlowInv
  BY DEF HubInit, SlowInv
<1>2. HubTypeOK /\ QueuesOK /\ SlowInv /\ [HubNext]_hubVars => SlowInv'
  BY HubAssumption, SlowInvStep
<1>3. HubTypeOK /\ QueuesOK /\ SlowInv => SlowClientsClosed
  <2> SUFFICES ASSUME HubTypeOK, QueuesOK, SlowInv, NEW c \in clients
               PROVE  /\ closed[c] <=> Len(dropped_at[c]) >= DROPPED_THRESHOLD
                      /\ \A i, j \in DOMAIN dropped_at[c] :
                            dropped_at[c][i] - dropped_at[c][j] <= DROPPED_WINDOW
                      /\ \A i \in DOMAIN queue[c] :
                            queue[c][i] = Bye => closed[c] /\ i = Len(queue[c])
    BY DEF SlowClientsClosed
  <2>1. /\ c \in Clients /\ closed[c] \in BOOLEAN /\ Len(dropped_at[c]) \in Nat
        /\ SlowOK(queue[c], dropped_at[c], closed[c]) /\ QueueOK(queue[c], closed[c])
    BY DEF HubTypeOK, SlowInv, QueuesOK
  <2>2. closed[c] <=> Len(dropped_at[c]) >= DROPPED_THRESHOLD
    <3>1. ~(Len(dropped_at[c]) >= DROPPED_THRESHOLD /\ Len(dropped_at[c]) < DROPPED_THRESHOLD)
      BY <2>1, HubAssumption DEF HubAssumption
    <3>2. QED
      BY <2>1, <3>1 DEF SlowOK
  <2>3. Bye.key = ByeKey
    BY DEF Bye
  <2>4. QED
    BY <2>1, <2>2, <2>3 DEF SlowOK, DropsOK, LastOK, QueueOK
<1>4. QED
  BY <1>1, <1>2, <1>3, HubTypeCorrect, QueuesInvariant, PTL DEF HubSpec

-----------------------------------------------------------------------------
(* The feed.  An open queue without duplicates is a mailbox: the set of its     *)
(* events, as many as the queue is long.                                        *)

Box(c) == EventsOf(queue[c]) \ {Bye}
Watched(c) == IF Live(c) THEN subs[c] ELSE {}

\* In a coalesced queue the head is nowhere else.
LEMMA TailEvents ==
    ASSUME NEW q \in Seq(Events), q # <<>>,
           \A i, j \in DOMAIN q : q[i].key = q[j].key => i = j
    PROVE  /\ Head(q) \in EventsOf(q)
           /\ EventsOf(Tail(q)) = EventsOf(q) \ {Head(q)}
<1>1. /\ Len(q) \in Nat \ {0} /\ DOMAIN q = 1..Len(q) /\ DOMAIN Tail(q) = 1..Len(q) - 1
      /\ \A j \in 1..Len(q) - 1 : Tail(q)[j] = q[j + 1]
      /\ Head(q) = q[1]
  OBVIOUS
<1>2. 1 \in 1..Len(q) /\ \A j \in 1..Len(q) : j # 1 => j - 1 \in 1..Len(q) - 1 /\ (j - 1) + 1 = j
  BY <1>1
<1>3. \A j \in 1..Len(q) - 1 : j + 1 \in 1..Len(q) /\ j + 1 # 1
  <2>1. Len(q) \in Nat
    BY <1>1
  <2>2. QED
    BY <2>1
<1> DEFINE t == Tail(q)
<1>4. DOMAIN t = 1..Len(q) - 1 /\ \A j \in 1..Len(q) - 1 : t[j] = q[j + 1]
  BY <1>1
<1> HIDE DEF t
<1>5. \A f \in EventsOf(t) : f \in EventsOf(q) /\ f # q[1]
  BY <1>1, <1>2, <1>3, <1>4 DEF EventsOf
<1>6. \A f \in EventsOf(q) : f # q[1] => f \in EventsOf(t)
  <2> SUFFICES ASSUME NEW j \in 1..Len(q), j # 1
               PROVE  q[j] \in EventsOf(t)
    BY <1>1 DEF EventsOf
  <2>1. j - 1 \in DOMAIN t /\ t[j - 1] = q[j]
    BY <1>2, <1>4
  <2>2. QED
    BY <2>1 DEF EventsOf
<1>7. q[1] \in EventsOf(q)
  BY <1>1, <1>2 DEF EventsOf
<1>8. QED
  BY <1>1, <1>5, <1>6, <1>7 DEF t

LEMMA QueueIsBox ==
    ASSUME HubAssumption, HubTypeOK, QueuesOK, NEW c \in Clients, Live(c)
    PROVE  EventsOf(queue[c]) = Box(c) /\ Cardinality(Box(c)) = Len(queue[c])
<1> DEFINE q == queue[c]
           g == [i \in 1..Len(q) |-> q[i]]
<1>1. /\ q \in Seq(Events) /\ Len(q) \in Nat /\ DOMAIN q = 1..Len(q)
      /\ \A i, j \in DOMAIN q : q[i].key = q[j].key => i = j
      /\ \A i \in DOMAIN q : q[i].key # ByeKey
  BY DEF HubTypeOK, QueuesOK, QueueOK, Live
<1> HIDE DEF q
<1>2. EventsOf(q) = Box(c)
  BY <1>1 DEF Box, EventsOf, Bye, q
<1>3. g \in Bijection(1..Len(q), EventsOf(q))
  <2>1. g \in [1..Len(q) -> EventsOf(q)]
    BY <1>1 DEF EventsOf
  <2>2. \A i, j \in 1..Len(q) : g[i] = g[j] => i = j
    BY <1>1
  <2>3. \A f \in EventsOf(q) : \E i \in 1..Len(q) : g[i] = f
    BY <1>1 DEF EventsOf
  <2>4. QED
    BY <2>1, <2>2, <2>3 DEF Bijection, Injection, Surjection, IsInjective
<1>4. Cardinality(EventsOf(q)) = Len(q)
  BY <1>1, <1>3, FS_CountingElements DEF ExistsBijection
<1>5. QED
  BY <1>2, <1>4 DEF q

\* The instance brings a Cardinality of its own, which is the same.
LEMMA SameCardinality ==
    ASSUME NEW S
    PROVE  Promise!Cardinality(S) = Cardinality(S)
BY Zenon DEF Promise!Cardinality, Cardinality

\* The mailbox has room exactly where the queue does not overflow.
LEMMA RoomIsRoom ==
    ASSUME HubAssumption, HubTypeOK, QueuesOK, NEW c \in Clients, Live(c),
           NEW e \in Events, e.key \in Keys
    PROVE  Promise!HasRoom(c, e.key) <=> ~Overflows(c, e)
<1> DEFINE q == queue[c]
<1>1. /\ q \in Seq(Events) /\ Len(q) \in Nat /\ DOMAIN q = 1..Len(q)
      /\ Len(q) <= QUEUE_MAXSIZE /\ QUEUE_MAXSIZE \in Nat
  BY DEF HubTypeOK, QueuesOK, QueueOK, HubAssumption
<1>2. EventsOf(q) = Box(c) /\ Cardinality(Box(c)) = Len(q)
  BY QueueIsBox
<1>3. Queued(q, e.key) = {} <=> {f \in Box(c) : f.key # e.key} = Box(c)
  BY <1>2 DEF Queued, EventsOf
<1>4. Promise!HasRoom(c, e.key) <=>
        {f \in Box(c) : f.key # e.key} # Box(c) \/ Cardinality(Box(c)) < QUEUE_MAXSIZE
  <2> DEFINE boxes == [d \in Clients |-> EventsOf(queue[d]) \ {Bye}]
  <2>1. boxes[c] = Box(c)
    BY DEF Box
  <2>2. Promise!HasRoom(c, e.key) <=>
          {f \in boxes[c] : f.key # e.key} # boxes[c] \/ Promise!Cardinality(boxes[c]) < QUEUE_MAXSIZE
    BY DEF Promise!HasRoom, Promise!Others
  <2> HIDE DEF boxes
  <2>3. QED
    BY <2>1, <2>2, SameCardinality
<1>5. QED
  BY <1>1, <1>2, <1>3, <1>4 DEF Overflows, Live

\* _enqueue, seen from the mailbox.
LEMMA QueueAfterBox ==
    ASSUME HubAssumption, HubTypeOK, QueuesOK, NEW c \in Clients, Live(c),
           NEW e \in Events, e.key \in Keys
    PROVE  /\ ~Overflows(c, e) =>
                EventsOf(QueueAfter(c, e)) \ {Bye} = {f \in Box(c) : f.key # e.key} \cup {e}
           /\ TooSlow(c, e) =>
                /\ Overflows(c, e) /\ Head(queue[c]) \in Box(c)
                /\ EventsOf(QueueAfter(c, e)) \ {Bye} = Box(c) \ {Head(queue[c])}
           /\ Overflows(c, e) /\ ~TooSlow(c, e) => QueueAfter(c, e) = queue[c]
<1> DEFINE q == queue[c]
<1>1. /\ q \in Seq(Events) /\ Len(q) \in Nat /\ DOMAIN q = 1..Len(q)
      /\ \A i, j \in DOMAIN q : q[i].key = q[j].key => i = j
      /\ QueueOK(queue[c], closed[c]) /\ closed[c] = FALSE
      /\ QUEUE_MAXSIZE \in Nat \ {0}
  BY DEF HubTypeOK, QueuesOK, QueueOK, Live, HubAssumption
<1>2. EventsOf(q) = Box(c) /\ e # Bye
  BY QueueIsBox, HubAssumption DEF Bye, HubAssumption
<1>3. ~Overflows(c, e) =>
         EventsOf(QueueAfter(c, e)) \ {Bye} = {f \in Box(c) : f.key # e.key} \cup {e}
  BY <1>1, <1>2, QueueAfterHolds DEF With, Box
<1>4. ASSUME TooSlow(c, e)
      PROVE  /\ Overflows(c, e) /\ Head(q) \in Box(c)
             /\ EventsOf(QueueAfter(c, e)) \ {Bye} = Box(c) \ {Head(q)}
  <2>1. Overflows(c, e) /\ q # <<>> /\ Queued(q, e.key) = {} /\ Len(q) = QUEUE_MAXSIZE
    BY <1>1, <1>4 DEF TooSlow, Overflows
  <2>2. QueueAfter(c, e) = Append(Tail(q), Bye)
    BY <1>1, <1>4, <2>1 DEF QueueAfter
  <2>3. Head(q) \in EventsOf(q) /\ EventsOf(Tail(q)) = EventsOf(q) \ {Head(q)}
    BY <1>1, <2>1, TailEvents
  <2> DEFINE t == Tail(q)
  <2>4. t \in Seq(Events)
    BY <1>1, <2>1
  <2> HIDE DEF t
  <2>5. EventsOf(Append(t, Bye)) = EventsOf(t) \cup {Bye}
    <3>1. /\ DOMAIN Append(t, Bye) = DOMAIN t \cup {Len(t) + 1} /\ Append(t, Bye)[Len(t) + 1] = Bye
          /\ \A j \in DOMAIN t : Append(t, Bye)[j] = t[j]
      <4>1. Bye \in Events
        BY DEF Bye, Events
      <4>2. QED
        BY <2>4, <4>1
    <3>2. QED
      BY <3>1 DEF EventsOf
  <2>6. QED
    BY <1>2, <2>1, <2>2, <2>3, <2>5 DEF t, Box
<1>5. Overflows(c, e) /\ ~TooSlow(c, e) => QueueAfter(c, e) = q
  BY <1>1 DEF QueueAfter, Overflows
<1>6. QED
  BY <1>3, <1>4, <1>5

\* _enqueue offers the event to the sessions that are open: it closes those that are
\* too slow, at the expense of the oldest event.
LEMMA EnqueueOffers ==
    ASSUME HubAssumption, HubTypeOK, QueuesOK, NEW S \in SUBSET clients, NEW e \in Events,
           e.key \in Keys, Enqueue(S, e), clients' = clients
    PROVE  Promise!Offer({c \in S : Live(c)}, e)
<1> DEFINE offered == {c \in S : Live(c)}
           closing == {c \in offered : TooSlow(c, e)}
           lost == [c \in closing |-> Head(queue[c])]
           opens == {c \in Clients : Live(c)}
           boxes == [c \in Clients |-> EventsOf(queue[c]) \ {Bye}]
           room(c) == Promise!HasRoom(c, e.key)
<1>1. S \subseteq Clients /\ offered \subseteq Clients
  BY DEF HubTypeOK
<1>2. \A c \in offered : room(c) <=> ~Overflows(c, e)
  BY <1>1, RoomIsRoom
<1>3. closing \in SUBSET {c \in offered : ~room(c)}
  BY <1>2 DEF TooSlow
<1>4. \A c \in closing : Head(queue[c]) \in Box(c)
  BY <1>1, QueueAfterBox
<1>5. lost \in [closing -> UNION {boxes[c] : c \in closing}]
  BY <1>1, <1>4 DEF Box
<1>6. opens' = opens \ closing
  <2> SUFFICES ASSUME NEW c \in Clients
               PROVE  Live(c)' <=> Live(c) /\ c \notin closing
    BY DEF Live
  <2>1. closed'[c] = (closed[c] \/ (c \in S /\ TooSlow(c, e)))
    BY DEF Enqueue
  <2>2. QED
    BY <2>1 DEF Live
<1>7. ASSUME NEW c \in Clients
      PROVE  boxes'[c] = IF c \in offered /\ room(c) THEN {f \in Box(c) : f.key # e.key} \cup {e}
                         ELSE IF c \in closing THEN Box(c) \ {lost[c]}
                         ELSE Box(c)
  <2>1. queue'[c] = IF c \in S THEN QueueAfter(c, e) ELSE queue[c]
    BY DEF Enqueue
  <2>2. boxes'[c] = EventsOf(queue'[c]) \ {Bye}
    BY DEF EventsOf
  <2>3. CASE c \in offered
    <3>1. c \in S /\ Live(c)
      BY <2>3
    <3>2. QED
      BY <1>2, <2>1, <2>2, <2>3, <3>1, QueueAfterBox DEF Box
  <2>4. CASE c \notin offered
    <3>1. queue'[c] = queue[c]
      <4>1. CASE c \in S
        <5>1. closed[c]
          BY <2>4, <4>1 DEF Live
        <5>2. QED
          BY <2>1, <5>1 DEF QueueAfter
      <4>2. QED
        BY <2>1, <4>1
    <3>2. QED
      BY <2>2, <2>4, <3>1 DEF Box
  <2>5. QED
    BY <2>3, <2>4
<1>8. boxes' = [c \in Clients |->
                  IF c \in offered /\ room(c) THEN {f \in Box(c) : f.key # e.key} \cup {e}
                  ELSE IF c \in closing THEN Box(c) \ {lost[c]}
                  ELSE Box(c)]
  BY <1>7
<1>9. boxes = [c \in Clients |-> Box(c)]
  BY DEF Box
<1>10. boxes' = [c \in Clients |->
                   IF c \in offered /\ room(c) THEN {f \in boxes[c] : f.key # e.key} \cup {e}
                   ELSE IF c \in closing THEN boxes[c] \ {lost[c]}
                   ELSE boxes[c]]
  BY <1>8, <1>9
<1> HIDE DEF closing, lost
<1>11. QED
  BY <1>3, <1>5, <1>6, <1>10 DEF Promise!Offer, Promise!Others

\* Giving a subscription back, whether the session is there or only its removal: the
\* value is forgotten with the last subscriber, when nobody watches the key.
LEMMA DropUnwatches ==
    ASSUME HubTypeOK, SubsInv, NEW c \in Clients, NEW k \in Keys,
           DropSubscription(c, k), UNCHANGED <<clients, queue, closed, market, seen>>,
           \A d \in Clients : Watched(d)' = IF d = c THEN Watched(c) \ {k} ELSE Watched(d)
    PROVE  Promise!Unwatch(c, k)
<1> DEFINE watching == [d \in Clients |-> IF Live(d) THEN subs[d] ELSE {}]
<1>2. watching' = [watching EXCEPT ![c] = @ \ {k}]
  BY DEF Watched
<1>3. ASSUME LastOne(c, k)
      PROVE  \A d \in Clients : k \notin watching'[d]
  <2> SUFFICES ASSUME NEW d \in Clients, d # c
               PROVE  k \notin watching[d]
    BY <1>2
  <2>1. d \notin slug_subs[k]
    BY <1>3 DEF LastOne
  <2>2. d \in clients => k \notin subs[d]
    BY <2>1 DEF SubsInv, SubscriptionsAgree
  <2>3. QED
    BY <2>2 DEF Live
<1>4. LastOne(c, k) => last_value' = [last_value EXCEPT ![k] = 0]
  BY DEF DropSubscription
<1>5. ~LastOne(c, k) => last_value' = last_value
  BY DEF DropSubscription
<1>6. UNCHANGED <<{d \in Clients : Live(d)}, [d \in Clients |-> EventsOf(queue[d]) \ {Bye}]>>
  BY DEF Live, EventsOf
<1> HIDE DEF watching
<1>7. QED
  BY <1>2, <1>3, <1>4, <1>5, <1>6 DEF Promise!Unwatch, Promise!Forget, watching

\* The steps of the sessions.
LEMMA SessionsFollowFeed ==
    ASSUME HubAssumption, HubTypeOK, SubsInv, QueuesOK, NEW c \in Clients,
           \/ create_client(c) \/ remove_client(c) \/ Consume(c)
           \/ \E k \in Keys : subscribe(c, k) \/ unsubscribe(c, k) \/ RemoveKey(c, k)
    PROVE  [Promise!FeedNext]_(Promise!feedVars)
<1> DEFINE opens == {d \in Clients : Live(d)}
           watching == [d \in Clients |-> IF Live(d) THEN subs[d] ELSE {}]
           boxes == [d \in Clients |-> EventsOf(queue[d]) \ {Bye}]
<1>1. CASE create_client(c)
  <2>1. c \notin clients /\ clients' = clients \cup {c} /\ NewSession(c, FALSE)
        /\ UNCHANGED <<last_value, market>>
    BY <1>1 DEF create_client, registryVars
  <2>2. \A d \in Clients : Live(d)' <=> Live(d) \/ d = c
    BY <2>1 DEF Live, NewSession, HubTypeOK
  <2>3. c \notin opens /\ opens' = opens \cup {c}
    BY <2>1, <2>2 DEF Live
  <2>4. watching' = watching
    <3> SUFFICES ASSUME NEW d \in Clients PROVE watching'[d] = watching[d]
      OBVIOUS
    <3>1. subs'[d] = IF d = c THEN {} ELSE subs[d]
      BY <2>1 DEF NewSession, HubTypeOK
    <3>2. ~Live(c)
      BY <2>1 DEF Live
    <3>3. QED
      BY <2>2, <3>1, <3>2
  <2>5. boxes' = [boxes EXCEPT ![c] = {}]
    <3> SUFFICES ASSUME NEW d \in Clients
                 PROVE  boxes'[d] = IF d = c THEN {} ELSE boxes[d]
      OBVIOUS
    <3>1. queue'[d] = IF d = c THEN <<>> ELSE queue[d]
      BY <2>1 DEF NewSession, HubTypeOK
    <3>2. boxes'[d] = EventsOf(queue'[d]) \ {Bye} /\ EventsOf(<<>>) = {}
      BY DEF EventsOf
    <3>3. QED
      BY <3>1, <3>2
  <2>6. seen' = [seen EXCEPT ![c] = [k \in Keys |-> 0]]
    BY <2>1 DEF NewSession
  <2>7. Promise!Begin(c)
    BY <2>1, <2>3, <2>4, <2>5, <2>6 DEF Promise!Begin
  <2>8. QED
    BY <2>7 DEF Promise!FeedNext
<1>2. CASE remove_client(c)
  <2>1. clients' = clients \ {c} /\ NewSession(c, TRUE) /\ UNCHANGED <<last_value, market>>
    BY <1>2 DEF remove_client, registryVars
  <2>2. \A d \in Clients : Live(d)' <=> Live(d) /\ d # c
    BY <2>1 DEF Live, NewSession, HubTypeOK
  <2>3. opens' = opens \ {c}
    BY <2>2
  <2>4. watching' = [watching EXCEPT ![c] = {}]
    BY <2>1, <2>2 DEF NewSession, HubTypeOK
  <2>5. boxes' = [boxes EXCEPT ![c] = {}]
    <3> SUFFICES ASSUME NEW d \in Clients
                 PROVE  boxes'[d] = IF d = c THEN {} ELSE boxes[d]
      OBVIOUS
    <3>1. queue'[d] = IF d = c THEN <<>> ELSE queue[d]
      BY <2>1 DEF NewSession, HubTypeOK
    <3>2. boxes'[d] = EventsOf(queue'[d]) \ {Bye} /\ EventsOf(<<>>) = {}
      BY DEF EventsOf
    <3>3. QED
      BY <3>1, <3>2
  <2>6. seen' = [seen EXCEPT ![c] = [k \in Keys |-> 0]]
    BY <2>1 DEF NewSession
  <2>7. Promise!Leave(c)
    BY <2>1, <2>3, <2>4, <2>5, <2>6 DEF Promise!Leave
  <2>8. QED
    BY <2>7 DEF Promise!FeedNext
<1>3. CASE Consume(c)
  <2> DEFINE h == Head(queue[c])
  <2>1. /\ queue[c] # <<>> /\ queue' = [queue EXCEPT ![c] = Tail(queue[c])]
        /\ UNCHANGED <<clients, subs, closed, last_value, market>>
        /\ seen' = IF h = Bye THEN seen ELSE [seen EXCEPT ![c][h.key] = h.ver]
    BY <1>3 DEF Consume, sessionVars, registryVars
  <2>2. h \in EventsOf(queue[c]) /\ EventsOf(Tail(queue[c])) = EventsOf(queue[c]) \ {h}
    BY <2>1, TailEvents DEF HubTypeOK, QueuesOK, QueueOK
  <2>3. opens' = opens /\ watching' = watching
    BY <2>1 DEF Live
  <2> HIDE DEF h
  <2>4. boxes' = [boxes EXCEPT ![c] = @ \ {h}]
    <3> SUFFICES ASSUME NEW d \in Clients
                 PROVE  boxes'[d] = IF d = c THEN boxes[c] \ {h} ELSE boxes[d]
      OBVIOUS
    <3>1. queue'[d] = IF d = c THEN Tail(queue[c]) ELSE queue[d]
      BY <2>1 DEF HubTypeOK
    <3>2. boxes'[d] = EventsOf(queue'[d]) \ {Bye}
      BY DEF EventsOf
    <3>3. QED
      BY <2>2, <3>1, <3>2
  <2>5. CASE h = Bye
    <3>1. boxes' = boxes
      BY <2>4, <2>5
    <3>2. QED
      BY <2>1, <2>3, <2>5, <3>1 DEF Promise!feedVars
  <2>6. CASE h # Bye
    <3>1. h \in boxes[c]
      BY <2>2, <2>6
    <3>2. Promise!Take(c, h)
      BY <2>1, <2>3, <2>4, <2>6, <3>1 DEF Promise!Take
    <3>3. QED
      BY <3>1, <3>2 DEF Promise!FeedNext
  <2>7. QED
    BY <2>5, <2>6
<1>4. ASSUME NEW k \in Keys, subscribe(c, k)
      PROVE  [Promise!FeedNext]_(Promise!feedVars)
  <2> DEFINE e == [key |-> k, ver |-> last_value[k]]
  <2>1. /\ Live(c) /\ k \notin subs[c] /\ subs' = [subs EXCEPT ![c] = @ \cup {k}]
        /\ UNCHANGED <<clients, last_value, market, seen>>
        /\ last_value[k] # 0 => Enqueue({c}, e)
        /\ last_value[k] = 0 => UNCHANGED <<queue, closed>>
    BY <1>4 DEF subscribe, Live
  <2>2. c \in opens /\ k \notin watching[c]
    BY <2>1
  <2>3. \A d \in Clients : d # c => (Live(d)' <=> Live(d))
    BY <2>1 DEF Live, Enqueue
  <2>4. watching' = [watching EXCEPT ![c] = IF c \in opens' THEN @ \cup {k} ELSE {}]
    <3> SUFFICES ASSUME NEW d \in Clients
                 PROVE  watching'[d] = IF d = c THEN IF Live(c)' THEN subs[c] \cup {k} ELSE {}
                                       ELSE watching[d]
      BY <2>1
    <3>1. subs'[d] = IF d = c THEN subs[c] \cup {k} ELSE subs[d]
      BY <2>1 DEF HubTypeOK
    <3>2. QED
      BY <2>3, <3>1
  <2>5. CASE last_value[k] = 0
    <3>1. opens' = opens /\ boxes' = boxes
      BY <2>1, <2>5 DEF Live, EventsOf
    <3>2. Promise!Watch(c, k)
      BY <2>1, <2>2, <2>4, <2>5, <3>1 DEF Promise!Watch
    <3>3. QED
      BY <3>2 DEF Promise!FeedNext
  <2>6. CASE last_value[k] # 0
    <3>1. e \in Events /\ e.key \in Keys
      BY <2>6 DEF Events, Versions, HubTypeOK, HubAssumption
    <3>2. {c} \in SUBSET clients /\ {d \in {c} : Live(d)} = {c}
      BY <2>1 DEF Live
    <3>3. Promise!Offer({c}, e)
      BY <2>1, <2>6, <3>1, <3>2, EnqueueOffers
    <3>4. Promise!Watch(c, k)
      BY <2>1, <2>2, <2>4, <2>6, <3>3 DEF Promise!Watch, Promise!Event
    <3>5. QED
      BY <3>4 DEF Promise!FeedNext
  <2>7. QED
    BY <2>5, <2>6
<1>5. ASSUME NEW k \in Keys, unsubscribe(c, k)
      PROVE  [Promise!FeedNext]_(Promise!feedVars)
  <2>1. /\ subs' = [subs EXCEPT ![c] = @ \ {k}] /\ DropSubscription(c, k)
        /\ UNCHANGED <<clients, queue, closed, market, seen>>
    BY <1>5 DEF unsubscribe
  <2>2. \A d \in Clients : Watched(d)' = IF d = c THEN Watched(c) \ {k} ELSE Watched(d)
    BY <2>1 DEF Watched, Live, HubTypeOK
  <2>3. Promise!Unwatch(c, k)
    BY <2>1, <2>2, DropUnwatches
  <2>4. QED
    BY <2>3 DEF Promise!FeedNext
<1>6. ASSUME NEW k \in Keys, RemoveKey(c, k)
      PROVE  [Promise!FeedNext]_(Promise!feedVars)
  <2>1. /\ DropSubscription(c, k) /\ k \in removal[c].keys
        /\ UNCHANGED <<clients, subs, queue, closed, market, seen>>
    BY <1>6 DEF RemoveKey
  <2>2. ~Live(c)
    BY <2>1 DEF Live, SubsInv
  <2>3. \A d \in Clients : Watched(d)' = IF d = c THEN Watched(c) \ {k} ELSE Watched(d)
    BY <2>1, <2>2 DEF Watched, Live
  <2>4. Promise!Unwatch(c, k)
    BY <2>1, <2>3, DropUnwatches
  <2>5. QED
    BY <2>4 DEF Promise!FeedNext
<1>7. QED
  BY <1>1, <1>2, <1>3, <1>4, <1>5, <1>6

\* An answer that is stored is published in one step to all who watch the key.  It is
\* as new as anything anybody was given, by TimeInv.
LEMMA PollsPublish ==
    ASSUME HubAssumption, HubTypeOK, SubsInv, QueuesOK, TimeInv, NEW t \in Tasks, PollOk(t)
    PROVE  Promise!FeedNext
<1>1. task[t].pc = "reply"
  BY DEF PollOk
<1> SUFFICES ASSUME NEW k \in Keys, NEW v \in Versions, k = task[t].key, v = task[t].val
             PROVE  Promise!FeedNext
  BY <1>1, VersionsAreNat
<1> DEFINE e == [key |-> k, ver |-> v]
           opens == {d \in Clients : Live(d)}
           watching == [d \in Clients |-> IF Live(d) THEN subs[d] ELSE {}]
           boxes == [d \in Clients |-> EventsOf(queue[d]) \ {Bye}]
<1>2. /\ market[k] \in Nat /\ last_value[k] \in Nat
      /\ last_value[k] <= v /\ v <= market[k] /\ KnowAtMost(k, v)
  BY <1>1, VersionsAreNat DEF TimeInv
<1>3. e \in Events /\ e.key \in Keys /\ v \in 1..market[k] /\ v > 0
  BY <1>2, HubAssumption DEF Events, Versions, HubAssumption
<1>4. /\ last_value' = [last_value EXCEPT ![k] = v] /\ Enqueue(Subscribers(k), e)
      /\ UNCHANGED <<clients, subs, market, seen>>
  BY DEF PollOk
<1>5. \A c \in Clients : /\ seen[c][k] <= v
                         /\ \A f \in boxes[c] : f.key = k => f.ver <= v
  BY <1>2 DEF KnowAtMost
<1>6. Subscribers(k) \in SUBSET clients
  BY DEF Subscribers
<1>7. {c \in Subscribers(k) : Live(c)} = {c \in Clients : k \in watching[c]}
  <2> SUFFICES ASSUME NEW c \in Clients
               PROVE  c \in Subscribers(k) /\ Live(c) <=> Live(c) /\ k \in subs[c]
    BY <1>6 DEF HubTypeOK
  <2>1. c \in clients => removal[c].keys = {}
    BY DEF SubsInv
  <2>2. c \in clients => (c \in slug_subs[k] <=> k \in subs[c])
    BY <1>2, <2>1 DEF SubsInv, SubscriptionsAgree
  <2>3. QED
    BY <2>2 DEF Subscribers, Live
<1>8. Promise!Offer({c \in Clients : k \in watching[c]}, e)
  BY <1>3, <1>4, <1>6, <1>7, EnqueueOffers
<1>9. watching' = [c \in Clients |-> IF c \in opens' THEN watching[c] ELSE {}]
  <2> SUFFICES ASSUME NEW c \in Clients
               PROVE  watching'[c] = IF Live(c)' THEN watching[c] ELSE {}
    OBVIOUS
  <2>1. Live(c)' => Live(c)
    BY <1>4 DEF Live, Enqueue
  <2>2. QED
    BY <1>4, <2>1
<1>10. Promise!Publish(k, v)
  BY <1>3, <1>4, <1>2, <1>5, <1>8, <1>9 DEF Promise!Publish, Promise!Watchers, Promise!Event
<1>11. QED
  BY <1>3, <1>10 DEF Promise!FeedNext

LEMMA HubFollowsFeed ==
    ASSUME HubAssumption, HubTypeOK, SubsInv, QueuesOK, TimeInv, [HubNext]_hubVars
    PROVE  [Promise!FeedNext]_(Promise!feedVars)
<1> DEFINE opens == {d \in Clients : Live(d)}
           watching == [d \in Clients |-> IF Live(d) THEN subs[d] ELSE {}]
           boxes == [d \in Clients |-> EventsOf(queue[d]) \ {Bye}]
<1> USE DEF sessionVars, registryVars
<1>a. ASSUME UNCHANGED <<clients, subs, closed, queue, seen, last_value, market>>
      PROVE  UNCHANGED Promise!feedVars
  BY <1>a DEF Promise!feedVars, Live, EventsOf
<1>1. ASSUME NEW c \in Clients,
             \/ create_client(c) \/ remove_client(c) \/ Consume(c)
             \/ \E k \in Keys : subscribe(c, k) \/ unsubscribe(c, k) \/ RemoveKey(c, k)
      PROVE  [Promise!FeedNext]_(Promise!feedVars)
  BY <1>1, SessionsFollowFeed
<1>2. ASSUME NEW t \in Tasks, PollOk(t)
      PROVE  Promise!FeedNext
  BY <1>2, PollsPublish
<1>3. ASSUME NEW t \in Tasks,
             UpstreamAnswers(t) \/ PollFail(t) \/ PollAgain(t) \/ TaskEnds(t)
      PROVE  UNCHANGED Promise!feedVars
  BY <1>3, <1>a DEF UpstreamAnswers, PollFail, PollAgain, TaskEnds
<1>4. CASE shutdown
  <2>1. \A d \in Clients : ~Live(d)'
    BY <1>4 DEF shutdown, Live
  <2>2. opens' = {} /\ watching' = [d \in Clients |-> {}] /\ boxes' = boxes
    BY <1>4, <2>1 DEF shutdown, EventsOf
  <2>3. Promise!Stop
    BY <1>4, <2>2 DEF shutdown, Promise!Stop
  <2>4. QED
    BY <2>3 DEF Promise!FeedNext
<1>5. CASE Tick
  BY <1>5, <1>a DEF Tick
<1>6. ASSUME NEW k \in Keys, MarketMoves(k)
      PROVE  Promise!FeedNext
  <2>1. opens' = opens /\ watching' = watching /\ boxes' = boxes
    BY <1>6 DEF MarketMoves, Live, EventsOf
  <2>2. Promise!Move(k)
    BY <1>6, <2>1 DEF MarketMoves, Promise!Move
  <2>3. QED
    BY <2>2 DEF Promise!FeedNext
<1>7. CASE UNCHANGED hubVars
  BY <1>7, <1>a DEF hubVars
<1>8. QED
  BY <1>1, <1>2, <1>3, <1>4, <1>5, <1>6, <1>7 DEF HubNext, PollerStep

\* For any clients, keys, tasks, versions and limits: the hub, with its pollers, queues,
\* drops and removals, is the feed of MarketFeed to whoever consumes it.
THEOREM HubImplementsFeed == HubSpec => ImplementsFeed
<1>1. HubInit => Promise!FeedInit
  <2> SUFFICES ASSUME HubInit PROVE Promise!FeedInit
    OBVIOUS
  <2>1. \A c \in Clients : ~Live(c) /\ queue[c] = <<>>
    BY DEF HubInit, Live
  <2>2. EventsOf(<<>>) = {}
    BY DEF EventsOf
  <2>3. [c \in Clients |-> EventsOf(queue[c]) \ {Bye}] = [c \in Clients |-> {}]
    BY <2>1, <2>2
  <2>4. QED
    BY <2>1, <2>3 DEF HubInit, Promise!FeedInit
<1>2. HubTypeOK /\ SubsInv /\ QueuesOK /\ TimeInv /\ [HubNext]_hubVars
        => [Promise!FeedNext]_(Promise!feedVars)
  BY HubAssumption, HubFollowsFeed
<1>3. QED
  BY <1>1, <1>2, HubTypeCorrect, SubsInvariant, QueuesInvariant, TimeInvariant, PTL
     DEF HubSpec, ImplementsFeed, Promise!FeedSpec

-----------------------------------------------------------------------------
(* The stream.  Whatever its connections do, the hub takes steps of its own     *)
(* specification, so that all of the above holds of the stream as well.         *)

PlacesOK == conn \in [Clients -> ConnStates] /\ want \in [Clients -> SUBSET Keys]

LEMMA PlacesStep ==
    ASSUME PlacesOK, [StreamNext]_streamVars
    PROVE  PlacesOK'
<1> USE DEF PlacesOK, ConnStates, Goto, Over
<1>1. CASE UNCHANGED streamVars
  BY <1>1 DEF streamVars
<1>2. ASSUME NEW c \in Clients, NEW S \in SUBSET Keys, Request(c, S)
      PROVE  PlacesOK'
  BY <1>2 DEF Request
<1>3. ASSUME NEW c \in Clients, ConnectionStep(c)
      PROVE  PlacesOK'
  <2>1. CASE SubscribeNext(c) \/ SubscribeRaises(c) \/ Accept(c) \/ StartGenerator(c)
    BY <2>1 DEF SubscribeNext, SubscribeRaises, Accept, StartGenerator
  <2>2. CASE Poll(c) \/ Emit(c) \/ GetTimesOut(c) \/ LeaveLoop(c)
    BY <2>2 DEF Poll, Emit, GetTimesOut, LeaveLoop
  <2>3. CASE Finally(c) \/ RemoveNext(c) \/ Finished(c)
    BY <2>3 DEF Finally, RemoveNext, Finished
  <2>4. QED
    BY <1>3, <2>1, <2>2, <2>3 DEF ConnectionStep
<1>4. ASSUME NEW c \in Clients, AbandonResponse(c) \/ Disconnect(c)
      PROVE  PlacesOK'
  BY <1>4 DEF AbandonResponse, Disconnect
<1>5. CASE HubStep
  BY <1>5 DEF HubStep
<1>6. QED
  BY <1>1, <1>2, <1>3, <1>4, <1>5 DEF StreamNext

LEMMA StreamTakesHubSteps ==
    ASSUME PlacesOK, [StreamNext]_streamVars
    PROVE  [HubNext]_hubVars
<1>1. CASE UNCHANGED streamVars
  BY <1>1 DEF streamVars
<1>2. ASSUME NEW c \in Clients, NEW S \in SUBSET Keys, Request(c, S)
      PROVE  HubNext
  BY <1>2 DEF Request, HubNext
<1>3. ASSUME NEW c \in Clients, ConnectionStep(c)
      PROVE  [HubNext]_hubVars
  <2>1. CASE SubscribeNext(c)
    BY <2>1 DEF SubscribeNext, HubNext, PlacesOK
  <2>2. CASE Emit(c)
    BY <2>2 DEF Emit, HubNext
  <2>3. CASE Finally(c)
    BY <2>3 DEF Finally, HubNext
  <2>4. CASE RemoveNext(c)
    BY <2>4 DEF RemoveNext, HubNext
  <2>5. CASE SubscribeRaises(c) \/ Accept(c) \/ StartGenerator(c) \/ Poll(c) \/ GetTimesOut(c)
             \/ LeaveLoop(c) \/ Finished(c)
    BY <2>5 DEF SubscribeRaises, Accept, StartGenerator, Poll, GetTimesOut, LeaveLoop, Finished
  <2>6. QED
    BY <1>3, <2>1, <2>2, <2>3, <2>4, <2>5 DEF ConnectionStep
<1>4. ASSUME NEW c \in Clients, AbandonResponse(c) \/ Disconnect(c)
      PROVE  UNCHANGED hubVars
  BY <1>4 DEF AbandonResponse, Disconnect
<1>5. CASE HubStep
  BY <1>5 DEF HubStep, HubNext
<1>6. QED
  BY <1>1, <1>2, <1>3, <1>4, <1>5 DEF StreamNext

LEMMA PlacesInvariant == StreamSpec => []PlacesOK
<1>1. StreamInit => PlacesOK
  BY DEF StreamInit, PlacesOK, ConnStates
<1>2. QED
  BY <1>1, PlacesStep, PTL DEF StreamSpec

\* The stream uses the hub as its specification allows: it implements HubSpec.
THEOREM StreamImplementsHub == StreamSpec => HubSpec
<1>1. StreamInit => HubInit
  BY DEF StreamInit
<1>2. PlacesOK /\ [StreamNext]_streamVars => [HubNext]_hubVars
  BY StreamTakesHubSteps
<1>3. QED
  BY <1>1, <1>2, PlacesInvariant, PTL DEF StreamSpec, HubSpec

\* What a connection owns it owns while its coroutine is under way: a session
\* until the finally clause, a removal in that clause only.
TraceInv ==
    \A c \in Clients :
        /\ c \in clients => conn[c] # "idle"
        /\ removal[c] # NoRemoval => conn[c] = "closing"

LEMMA TraceStep ==
    ASSUME HubTypeOK, PlacesOK, TraceInv, [StreamNext]_streamVars
    PROVE  TraceInv'
<1> USE DEF TraceInv, PlacesOK, Goto, Over
<1>1. CASE UNCHANGED streamVars
  BY <1>1 DEF streamVars, hubVars
<1>2. ASSUME NEW c \in Clients, NEW S \in SUBSET Keys, Request(c, S)
      PROVE  TraceInv'
  BY <1>2 DEF Request, create_client
<1>3. ASSUME NEW c \in Clients, ConnectionStep(c)
      PROVE  TraceInv'
  <2>1. CASE SubscribeNext(c)
    BY <2>1 DEF SubscribeNext, subscribe
  <2>2. CASE SubscribeRaises(c) \/ Accept(c) \/ StartGenerator(c)
    BY <2>2 DEF SubscribeRaises, Accept, StartGenerator, hubVars
  <2>3. CASE Poll(c) \/ GetTimesOut(c) \/ LeaveLoop(c) \/ Finished(c)
    BY <2>3 DEF Poll, GetTimesOut, LeaveLoop, Finished, hubVars
  <2>4. CASE Emit(c)
    BY <2>4 DEF Emit, Consume, sessionVars
  <2>5. CASE Finally(c)
    BY <2>5 DEF Finally, remove_client, HubTypeOK
  <2>6. CASE RemoveNext(c)
    <3>1. PICK k \in Keys : RemoveKey(c, k)
      BY <2>6 DEF RemoveNext
    <3>2. removal[c] # NoRemoval
      BY <3>1 DEF RemoveKey, NoRemoval, Removal
    <3>3. QED
      BY <2>6, <3>1, <3>2 DEF RemoveNext, RemoveKey, HubTypeOK
  <2>7. QED
    BY <1>3, <2>1, <2>2, <2>3, <2>4, <2>5, <2>6 DEF ConnectionStep
<1>4. ASSUME NEW c \in Clients, AbandonResponse(c) \/ Disconnect(c)
      PROVE  TraceInv'
  BY <1>4 DEF AbandonResponse, Disconnect, hubVars
<1>5. CASE HubStep
  <2>1. ASSUME NEW t \in Tasks, TaskEnds(t)
        PROVE  clients' = clients /\ \A c \in Clients : removal'[c] # NoRemoval => removal[c] # NoRemoval
    BY <2>1, HubAssumption DEF TaskEnds, NoRemoval, Removal, sessionVars, HubAssumption
  <2>2. ASSUME NEW t \in Tasks, UpstreamAnswers(t) \/ PollOk(t) \/ PollFail(t) \/ PollAgain(t)
        PROVE  clients' = clients /\ removal' = removal
    BY <2>2 DEF UpstreamAnswers, PollOk, PollFail, PollAgain, sessionVars
  <2>3. shutdown \/ Tick \/ (\E k \in Keys : MarketMoves(k)) =>
            clients' \subseteq clients /\ removal' = removal
    BY DEF shutdown, Tick, MarketMoves, sessionVars
  <2>4. conn' = conn
    BY <1>5 DEF HubStep
  <2>5. QED
    BY <1>5, <2>1, <2>2, <2>3, <2>4 DEF HubStep, PollerStep
<1>6. QED
  BY <1>1, <1>2, <1>3, <1>4, <1>5 DEF StreamNext

\* For any number of connections and keys: a connection that is over has left
\* nothing in the hub, however it ended and whatever the others did meanwhile.
THEOREM ConnectionsLeaveNoTrace == StreamSpec => []NoTraceLeft
<1>1. StreamInit => TraceInv
  BY DEF StreamInit, HubInit, TraceInv
<1>2. HubTypeOK /\ PlacesOK /\ TraceInv /\ [StreamNext]_streamVars => TraceInv'
  BY TraceStep
<1>3. SubsInv /\ TraceInv => NoTraceLeft
  <2> SUFFICES ASSUME SubsInv, TraceInv, NEW c \in Clients, conn[c] = "idle"
               PROVE  /\ c \notin clients
                      /\ \A k \in Keys : c \notin slug_subs[k]
                      /\ removal[c] = NoRemoval
    BY DEF NoTraceLeft
  <2>1. c \notin clients /\ removal[c] = NoRemoval
    BY DEF TraceInv
  <2>2. removal[c].keys = {}
    BY <2>1 DEF NoRemoval, Removal
  <2>3. QED
    BY <2>1, <2>2 DEF SubsInv, SubscriptionsAgree
<1>4. QED
  BY <1>1, <1>2, <1>3, PlacesInvariant, StreamImplementsHub, HubTypeCorrect, SubsInvariant, PTL
     DEF StreamSpec

-----------------------------------------------------------------------------
(* The stream never drops.  It subscribes once per key and never unsubscribes   *)
(* before the session ends, so that every pending event is of a key subscribed  *)
(* to; and coalescing leaves each key one slot.                                 *)

\* 60 subscriptions and 256 slots in the code.
SlotsSuffice == MAX_SUBS_PER_CLIENT <= QUEUE_MAXSIZE

KeysOf(q) == {f.key : f \in EventsOf(q)}

Roomy(c) ==
    /\ dropped_at[c] = <<>>
    /\ IsFiniteSet(subs[c]) /\ Cardinality(subs[c]) <= MAX_SUBS_PER_CLIENT
    /\ KeysOf(queue[c]) \subseteq subs[c]

RoomyInv == \A c \in Clients : Roomy(c)

\* A coalesced queue is no longer than the set of its keys.
LEMMA QueueFits ==
    ASSUME NEW q \in Seq(Events), NEW S, IsFiniteSet(S), KeysOf(q) \subseteq S,
           \A i, j \in DOMAIN q : q[i].key = q[j].key => i = j
    PROVE  Len(q) <= Cardinality(S)
<1> DEFINE f == [i \in 1..Len(q) |-> q[i].key]
<1>1. Len(q) \in Nat /\ DOMAIN q = 1..Len(q)
  OBVIOUS
<1>2. f \in Injection(1..Len(q), S)
  <2>1. \A i \in 1..Len(q) : q[i].key \in S
    BY <1>1 DEF KeysOf, EventsOf
  <2>2. f \in [1..Len(q) -> S]
    BY <2>1
  <2>3. \A i, j \in 1..Len(q) : f[i] = f[j] => i = j
    BY <1>1
  <2>4. QED
    BY <2>2, <2>3 DEF Injection, IsInjective
<1>3. Cardinality(1..Len(q)) <= Cardinality(S)
  BY <1>2, FS_Injection
<1>4. Cardinality(1..Len(q)) = Len(q)
  BY <1>1, FS_Interval
<1>5. QED
  BY <1>3, <1>4

\* An event of a key that is being subscribed, or is subscribed, finds room.
LEMMA NoOverflow ==
    ASSUME HubAssumption, SlotsSuffice, HubTypeOK, QueuesOK, NEW c \in Clients, Roomy(c),
           NEW e \in Events,
           e.key \in subs[c] \/ Cardinality(subs[c]) < MAX_SUBS_PER_CLIENT
    PROVE  ~Overflows(c, e)
<1> SUFFICES ASSUME Overflows(c, e) PROVE FALSE
  OBVIOUS
<1> DEFINE S == subs[c] \ {e.key}
<1>1. queue[c] \in Seq(Events) /\ Queued(queue[c], e.key) = {} /\ Len(queue[c]) = QUEUE_MAXSIZE
  BY DEF Overflows, HubTypeOK
<1>2. \A i, j \in DOMAIN queue[c] : queue[c][i].key = queue[c][j].key => i = j
  BY DEF QueuesOK, QueueOK
<1>3. KeysOf(queue[c]) \subseteq S
  BY <1>1 DEF Roomy, KeysOf, EventsOf, Queued
<1>4. IsFiniteSet(S) /\ Cardinality(S) \in Nat
      /\ Cardinality(S) = IF e.key \in subs[c] THEN Cardinality(subs[c]) - 1
                          ELSE Cardinality(subs[c])
  BY FS_RemoveElement, FS_CardinalityType DEF Roomy
<1>5. Len(queue[c]) <= Cardinality(S)
  BY <1>1, <1>2, <1>3, <1>4, QueueFits
<1>6. /\ Cardinality(subs[c]) \in Nat /\ Cardinality(subs[c]) <= MAX_SUBS_PER_CLIENT
      /\ MAX_SUBS_PER_CLIENT \in Nat /\ QUEUE_MAXSIZE \in Nat
      /\ MAX_SUBS_PER_CLIENT <= QUEUE_MAXSIZE
  BY FS_CardinalityType DEF Roomy, HubAssumption, SlotsSuffice
<1> HIDE DEF S
<1>7. QED
  BY <1>1, <1>4, <1>5, <1>6

\* Enqueueing to sessions that have room.
LEMMA EnqueueRoomy ==
    ASSUME HubAssumption, SlotsSuffice, HubTypeOK, QueuesOK, RoomyInv,
           NEW S, NEW e \in Events, e.key \in Keys, Enqueue(S, e), NEW c \in Clients,
           c \in S => e.key \in subs[c] \/ Cardinality(subs[c]) < MAX_SUBS_PER_CLIENT
    PROVE  /\ dropped_at'[c] = <<>>
           /\ KeysOf(queue'[c]) \subseteq IF c \in S THEN subs[c] \cup {e.key} ELSE subs[c]
<1>1. /\ queue'[c] = IF c \in S THEN QueueAfter(c, e) ELSE queue[c]
      /\ dropped_at'[c] = IF c \in S /\ Overflows(c, e) THEN RecentDrops(c) ELSE dropped_at[c]
  BY DEF Enqueue
<1>2. Roomy(c) /\ QueueOK(queue[c], closed[c]) /\ closed[c] \in BOOLEAN
  BY DEF RoomyInv, QueuesOK, HubTypeOK
<1>3. CASE c \notin S
  BY <1>1, <1>2, <1>3 DEF Roomy
<1>4. CASE c \in S
  <2>1. ~Overflows(c, e)
    BY <1>2, <1>4, NoOverflow
  <2>2. dropped_at'[c] = <<>>
    BY <1>1, <1>2, <2>1 DEF Roomy
  <2>3. CASE closed[c] = TRUE
    BY <1>1, <1>2, <1>4, <2>2, <2>3 DEF QueueAfter, Roomy
  <2>4. CASE closed[c] = FALSE
    <3>1. EventsOf(queue'[c]) = With(EventsOf(queue[c]), e)
      BY <1>1, <1>2, <1>4, <2>1, <2>4, QueueAfterHolds
    <3>2. QED
      BY <1>2, <1>4, <2>2, <3>1 DEF Roomy, KeysOf, With
  <2>5. QED
    BY <1>2, <2>3, <2>4
<1>5. QED
  BY <1>3, <1>4

LEMMA NewSessionRoomy ==
    ASSUME HubAssumption, HubTypeOK, RoomyInv, NEW c \in Clients, NEW b, NewSession(c, b)
    PROVE  RoomyInv'
<1> SUFFICES ASSUME NEW d \in Clients
             PROVE  Roomy(d)'
  BY DEF RoomyInv
<1>1. CASE d = c
  <2>1. subs'[d] = {} /\ queue'[d] = <<>> /\ dropped_at'[d] = <<>>
    BY <1>1 DEF NewSession, HubTypeOK
  <2>2. KeysOf(queue'[d]) = {}
    BY <2>1 DEF KeysOf, EventsOf
  <2>3. IsFiniteSet({}) /\ Cardinality({}) = 0
    BY FS_EmptySet
  <2>4. QED
    BY <2>1, <2>2, <2>3 DEF Roomy, HubAssumption
<1>2. CASE d # c
  <2>1. subs'[d] = subs[d] /\ queue'[d] = queue[d] /\ dropped_at'[d] = dropped_at[d]
    BY <1>2 DEF NewSession, HubTypeOK
  <2>2. QED
    BY <2>1 DEF Roomy, RoomyInv
<1>3. QED
  BY <1>1, <1>2

\* A set that gains an element it did not have.
LEMMA OneMore ==
    ASSUME NEW S, NEW x, IsFiniteSet(S), x \notin S
    PROVE  /\ IsFiniteSet(S \cup {x}) /\ Cardinality(S \cup {x}) = Cardinality(S) + 1
           /\ Cardinality(S) \in Nat
  BY FS_AddElement, FS_CardinalityType

LEMMA RoomyStep ==
    ASSUME HubAssumption, SlotsSuffice, HubTypeOK, SubsInv, QueuesOK, PlacesOK, RoomyInv,
           [StreamNext]_streamVars
    PROVE  RoomyInv'
<1> USE DEF sessionVars, registryVars
<1>a. ASSUME UNCHANGED <<subs, queue, dropped_at>>
      PROVE  RoomyInv'
  BY <1>a DEF RoomyInv, Roomy
<1>1. CASE UNCHANGED streamVars
  BY <1>1, <1>a DEF streamVars, hubVars
<1>2. ASSUME NEW c \in Clients, NEW S \in SUBSET Keys, Request(c, S)
      PROVE  RoomyInv'
  BY <1>2, NewSessionRoomy DEF Request, create_client
<1>3. ASSUME NEW c \in Clients, NEW k \in Keys, subscribe(c, k)
      PROVE  RoomyInv'
  <2> SUFFICES ASSUME NEW d \in Clients
               PROVE  Roomy(d)'
    BY DEF RoomyInv
  <2>1. Roomy(d) /\ Roomy(c)
    BY DEF RoomyInv
  <2>2. /\ subs'[d] = IF d = c THEN subs[c] \cup {k} ELSE subs[d]
        /\ Cardinality(subs[c]) < MAX_SUBS_PER_CLIENT /\ k \notin subs[c]
    BY <1>3 DEF subscribe, HubTypeOK
  <2>3. /\ IsFiniteSet(subs'[d]) /\ Cardinality(subs'[d]) <= MAX_SUBS_PER_CLIENT
    <3>a. IsFiniteSet(subs[c])
      BY <2>1 DEF Roomy
    <3>1. /\ IsFiniteSet(subs[c] \cup {k}) /\ Cardinality(subs[c] \cup {k}) = Cardinality(subs[c]) + 1
          /\ Cardinality(subs[c]) \in Nat
      BY <2>2, <3>a, OneMore
    <3>2. QED
      BY <2>1, <2>2, <3>1 DEF Roomy, HubAssumption
  <2>4. /\ dropped_at'[d] = <<>>
        /\ KeysOf(queue'[d]) \subseteq IF d = c THEN subs[d] \cup {k} ELSE subs[d]
    <3>1. CASE last_value[k] = 0
      BY <1>3, <2>1, <3>1 DEF subscribe, Roomy
    <3>2. CASE last_value[k] # 0
      <4> DEFINE e == [key |-> k, ver |-> last_value[k]]
      <4>1. e \in Events /\ e.key = k
        BY <3>2 DEF Events, Versions, HubTypeOK, HubAssumption
      <4>2. Enqueue({c}, e)
        BY <1>3, <3>2 DEF subscribe
      <4> HIDE DEF e
      <4>3. QED
        BY <2>2, <4>1, <4>2, EnqueueRoomy
    <3>3. QED
      BY <3>1, <3>2
  <2>5. QED
    BY <2>2, <2>3, <2>4 DEF Roomy
<1>4. ASSUME NEW c \in Clients, Consume(c)
      PROVE  RoomyInv'
  <2> SUFFICES ASSUME NEW d \in Clients
               PROVE  Roomy(d)'
    BY DEF RoomyInv
  <2>1. EventsOf(queue'[d]) \subseteq EventsOf(queue[d])
    BY <1>4, ConsumeEvents
  <2>2. subs' = subs /\ dropped_at' = dropped_at /\ Roomy(d)
    BY <1>4 DEF Consume, RoomyInv
  <2>3. QED
    BY <2>1, <2>2 DEF Roomy, KeysOf
<1>5. ASSUME NEW c \in Clients, ConnectionStep(c)
      PROVE  RoomyInv'
  <2>1. CASE SubscribeNext(c)
    BY <2>1, <1>3 DEF SubscribeNext, PlacesOK
  <2>2. CASE Emit(c)
    BY <2>2, <1>4 DEF Emit
  <2>3. CASE Finally(c)
    BY <2>3, NewSessionRoomy DEF Finally, remove_client
  <2>4. CASE RemoveNext(c)
    BY <2>4, <1>a DEF RemoveNext, RemoveKey
  <2>5. CASE SubscribeRaises(c) \/ Accept(c) \/ StartGenerator(c) \/ Poll(c) \/ GetTimesOut(c)
             \/ LeaveLoop(c) \/ Finished(c)
    BY <2>5, <1>a
       DEF SubscribeRaises, Accept, StartGenerator, Poll, GetTimesOut, LeaveLoop, Finished, hubVars
  <2>6. QED
    BY <1>5, <2>1, <2>2, <2>3, <2>4, <2>5 DEF ConnectionStep
<1>6. ASSUME NEW c \in Clients, AbandonResponse(c) \/ Disconnect(c)
      PROVE  RoomyInv'
  BY <1>6, <1>a DEF AbandonResponse, Disconnect, hubVars
<1>7. ASSUME NEW t \in Tasks, PollOk(t)
      PROVE  RoomyInv'
  <2> DEFINE k == task[t].key
             e == [key |-> k, ver |-> task[t].val]
  <2>1. k \in Keys /\ e \in Events /\ e.key = k
    <3>1. task[t] \in PollerTasks \cup {FreeTask} /\ task[t].pc = "reply"
      BY <1>7 DEF PollOk, HubTypeOK
    <3>2. QED
      BY <3>1 DEF PollerTasks, FreeTask, Events
  <2>2. Enqueue(Subscribers(k), e) /\ subs' = subs
    BY <1>7 DEF PollOk
  <2>3. \A d \in Clients : d \in Subscribers(k) => k \in subs[d]
    BY <2>1 DEF Subscribers, SubsInv, SubscriptionsAgree
  <2> HIDE DEF e, k
  <2> SUFFICES ASSUME NEW d \in Clients
               PROVE  Roomy(d)'
    BY DEF RoomyInv
  <2>4. /\ dropped_at'[d] = <<>>
        /\ KeysOf(queue'[d]) \subseteq IF d \in Subscribers(k) THEN subs[d] \cup {k} ELSE subs[d]
    BY <2>1, <2>2, <2>3, EnqueueRoomy
  <2>5. QED
    BY <2>2, <2>3, <2>4 DEF Roomy, RoomyInv
<1>8. ASSUME NEW t \in Tasks,
             UpstreamAnswers(t) \/ PollFail(t) \/ PollAgain(t) \/ TaskEnds(t)
      PROVE  RoomyInv'
  BY <1>8, <1>a DEF UpstreamAnswers, PollFail, PollAgain, TaskEnds
<1>9. ~Tick
  BY DEF Tick, RoomyInv, Roomy
<1>10. CASE shutdown \/ \E k \in Keys : MarketMoves(k)
  BY <1>10, <1>a DEF shutdown, MarketMoves
<1>11. QED
  BY <1>1, <1>2, <1>5, <1>6, <1>7, <1>8, <1>9, <1>10 DEF StreamNext, HubStep, PollerStep

\* For any number of connections: as long as a session has no more subscriptions
\* than its queue has slots, nothing is ever dropped on the way to it.
THEOREM StreamsNeverDrop == SlotsSuffice /\ StreamSpec => []NeverDrops
<1>1. StreamInit => RoomyInv
  <2>1. IsFiniteSet({}) /\ Cardinality({}) = 0 /\ MAX_SUBS_PER_CLIENT \in Nat
    BY FS_EmptySet, HubAssumption DEF HubAssumption
  <2>2. QED
    BY <2>1 DEF StreamInit, HubInit, RoomyInv, Roomy, KeysOf, EventsOf
<1>2. SlotsSuffice /\ HubTypeOK /\ SubsInv /\ QueuesOK /\ PlacesOK /\ RoomyInv
        /\ [StreamNext]_streamVars => RoomyInv'
  BY HubAssumption, RoomyStep
<1>3. HubTypeOK /\ QueuesOK /\ RoomyInv => NeverDrops
  <2> SUFFICES ASSUME HubTypeOK, QueuesOK, RoomyInv, NEW c \in Clients
               PROVE  dropped_at[c] = <<>> /\ Len(queue[c]) <= Cardinality(subs[c])
    BY DEF NeverDrops
  <2>1. Roomy(c) /\ queue[c] \in Seq(Events)
    BY DEF RoomyInv, HubTypeOK
  <2>2. \A i, j \in DOMAIN queue[c] : queue[c][i].key = queue[c][j].key => i = j
    BY DEF QueuesOK, QueueOK
  <2>3. QED
    BY <2>1, <2>2, QueueFits DEF Roomy
<1>4. SlotsSuffice => []SlotsSuffice
  OBVIOUS
<1>5. QED
  BY <1>1, <1>2, <1>3, <1>4, PlacesInvariant, StreamImplementsHub, HubTypeCorrect, SubsInvariant,
     QueuesInvariant, PTL DEF StreamSpec

-----------------------------------------------------------------------------
(* The poll functions.  They do what the hub expects of them, and nothing else: *)
(* the stream with them is the stream.                                          *)

LEMMA PollersTakeStreamSteps ==
    ASSUME [PollersNext]_pollVars
    PROVE  [StreamNext]_streamVars
<1> USE DEF connVars, streamVars
<1>1. CASE UNCHANGED pollVars
  BY <1>1 DEF pollVars
<1>2. CASE Others
  BY <1>2 DEF Others, StreamNext, HubStep
<1>3. ASSUME NEW t \in Tasks, PollFunction(t)
      PROVE  [StreamNext]_streamVars
  <2>1. CASE PollFail(t) /\ UNCHANGED connVars
    BY <2>1 DEF StreamNext, HubStep, PollerStep
  <2>2. CASE FirstLook(t) \/ SecondLook(t)
    BY <2>1, <2>2 DEF FirstLook, SecondLook, LookUp
  <2>3. CASE GammaKnows(t) \/ GammaFails(t) \/ GammaRaises(t)
    BY <2>1, <2>3 DEF GammaKnows, GammaFails, GammaRaises
  <2>4. CASE ClobAnswers(t) \/ PollEnds(t) \/ WakesUp(t) \/ Cancelled(t)
    BY <2>4 DEF ClobAnswers, PollEnds, WakesUp, Cancelled, StreamNext, HubStep, PollerStep
  <2>5. CASE ClobFails(t)
    BY <2>1, <2>5 DEF ClobFails
  <2>6. QED
    BY <1>3, <2>2, <2>3, <2>4, <2>5 DEF PollFunction
<1>4. QED
  BY <1>1, <1>2, <1>3 DEF PollersNext

\* With the cache, its lock and the requests of the poll functions, the stream is
\* still the stream of TerminalStream: what holds of that holds of this.
THEOREM PollersImplementStream == PollersSpec => StreamSpec
<1>1. PollersInit => StreamInit
  BY DEF PollersInit
<1>2. [PollersNext]_pollVars => [StreamNext]_streamVars
  BY PollersTakeStreamSteps
<1>3. QED
  BY <1>1, <1>2, PTL DEF PollersSpec, StreamSpec

\* Who asks Gamma holds the lock, alone, for a slug without an entry; he asks as
\* long as he is not cancelled, and holds the lock until the cancellation arrives.
Asking(t) ==
    /\ task[t].pc \in {"fetch", "cancelled"}
    /\ task[t].key \in Keys
    /\ token[SlugOfTask(t)] = "unknown"

TokenInv ==
    /\ token \in [Slugs -> {"unknown", "known", "unresolvable"}]
    /\ place \in [Tasks -> Places]
    /\ \A t \in Tasks : place[t] = "gamma" => Asking(t)
    /\ \A t, u \in Tasks : place[t] = "gamma" /\ place[u] = "gamma" => t = u

\* A task in a request goes on with it, or is cancelled, whatever the others do.
LEMMA OthersLeaveRequests ==
    ASSUME HubTypeOK, PlacesOK, Others, NEW t \in Tasks, task[t].pc \in {"fetch", "cancelled"}
    PROVE  task'[t].pc \in {"fetch", "cancelled"} /\ task'[t].key = task[t].key
<1> DEFINE Kept == task'[t].pc \in {"fetch", "cancelled"} /\ task'[t].key = task[t].key
<1>a. task[t] \in PollerTasks \cup {FreeTask} /\ task \in [Tasks -> PollerTasks \cup {FreeTask}]
  BY DEF HubTypeOK
<1>b. CASE UNCHANGED task
  BY <1>b
<1>1. ASSUME NEW c \in Clients, NEW k \in Keys, DropSubscription(c, k)
      PROVE  Kept
  <2>1. task' = task \/ task' = [u \in Tasks |-> IF u = pollers[k]
                                   THEN [task[u] EXCEPT !.pc = "cancelled"] ELSE task[u]]
    BY <1>1 DEF DropSubscription
  <2>2. QED
    BY <2>1, <1>a DEF PollerTasks, FreeTask
<1>2. ASSUME NEW c \in Clients, NEW k \in Keys, subscribe(c, k)
      PROVE  Kept
  <2>1. task' = task \/ \E u \in Tasks : task[u].pc = "free"
                          /\ task' = [task EXCEPT ![u] = Poller("fetch", k, 0)]
    BY <1>2 DEF subscribe, StartPoller
  <2>2. QED
    BY <2>1, <1>a
<1>3. ASSUME NEW c \in Clients, ConnectionStep(c)
      PROVE  Kept
  <2>1. CASE SubscribeNext(c)
    BY <2>1, <1>2 DEF SubscribeNext, PlacesOK
  <2>2. CASE RemoveNext(c)
    BY <2>2, <1>1 DEF RemoveNext, RemoveKey
  <2>3. CASE Emit(c) \/ Finally(c)
    BY <2>3, <1>b DEF Emit, Finally, Consume, remove_client
  <2>4. CASE SubscribeRaises(c) \/ Accept(c) \/ StartGenerator(c) \/ Poll(c) \/ GetTimesOut(c)
             \/ LeaveLoop(c) \/ Finished(c)
    BY <2>4, <1>b DEF SubscribeRaises, Accept, StartGenerator, Poll, GetTimesOut, LeaveLoop,
                      Finished, hubVars
  <2>5. QED
    BY <1>3, <2>1, <2>2, <2>3, <2>4 DEF ConnectionStep
<1>4. CASE shutdown
  BY <1>4, <1>a DEF shutdown, PollerTasks, FreeTask
<1>5. CASE \E c \in Clients : \/ \E S \in SUBSET Keys : Request(c, S)
                              \/ AbandonResponse(c)
                              \/ Disconnect(c)
  BY <1>5, <1>b DEF Request, create_client, AbandonResponse, Disconnect, hubVars
<1>6. CASE Tick \/ \E k \in Keys : MarketMoves(k)
  BY <1>6, <1>b DEF Tick, MarketMoves
<1>7. QED
  BY <1>3, <1>4, <1>5, <1>6 DEF Others

LEMMA TokenStep ==
    ASSUME HubAssumption, SlugAssumption, HubTypeOK, PlacesOK, TokenInv,
           [PollersNext]_pollVars
    PROVE  /\ TokenInv'
           /\ \A s \in Slugs : token[s] # "unknown" => token'[s] = token[s]
<1> DEFINE Kept == \A s \in Slugs : token[s] # "unknown" => token'[s] = token[s]
<1>a. /\ task \in [Tasks -> PollerTasks \cup {FreeTask}]
      /\ token \in [Slugs -> {"unknown", "known", "unresolvable"}]
      /\ place \in [Tasks -> Places]
  BY DEF HubTypeOK, TokenInv
<1>b. \A t \in Tasks : task[t].pc \in {"fetch", "reply", "sleep", "cancelled"} =>
                          task[t].key \in Keys
  BY <1>a DEF PollerTasks, FreeTask
<1>1. CASE UNCHANGED pollVars
  BY <1>1 DEF pollVars, streamVars, hubVars, TokenInv, Asking, SlugOfTask
<1>2. CASE Others
  <2>1. UNCHANGED <<token, place>>
    BY <1>2 DEF Others
  <2>2. ASSUME NEW t \in Tasks, place'[t] = "gamma"
        PROVE  Asking(t)'
    <3>1. Asking(t)
      BY <2>1, <2>2 DEF TokenInv
    <3>2. QED
      BY <1>2, <2>1, <3>1, OthersLeaveRequests DEF Asking, SlugOfTask
  <2>3. QED
    BY <2>1, <2>2 DEF TokenInv
<1>3. ASSUME NEW t \in Tasks, PollFunction(t)
      PROVE  TokenInv' /\ Kept
  <2>1. ASSUME NEW s \in Slugs, token[s] = "unknown", place[t] = "gamma",
               SlugOfTask(t) = s, NEW v \in {"known", "unresolvable"}, NEW p \in {"start", "clob"},
               token' = [token EXCEPT ![s] = v], MovesTo(t, p)
        PROVE  TokenInv' /\ Kept
    BY <1>a, <2>1 DEF TokenInv, MovesTo, Places
  <2>2. ASSUME UNCHANGED token, NEW p \in Places, MovesTo(t, p), p # "gamma",
               \A u \in Tasks : u # t => task'[u] = task[u]
        PROVE  TokenInv' /\ Kept
    BY <1>a, <2>2 DEF TokenInv, MovesTo, Asking, SlugOfTask
  <2>3. ASSUME UNCHANGED token, MovesTo(t, "gamma"), ~Locked,
               token[SlugOfTask(t)]  = "unknown",
               task'[t].pc = "fetch", task'[t].key = task[t].key, task[t].key \in Keys
        PROVE  TokenInv' /\ Kept
    BY <1>a, <2>3 DEF TokenInv, MovesTo, Asking, SlugOfTask, Locked, Places
  <2> DEFINE Alone == \A u \in Tasks : u # t => task'[u] = task[u]
  <2>4. PollFail(t) \/ UNCHANGED hubVars => Alone
    BY <1>a DEF PollFail, hubVars
  <2>5. PollOk(t) \/ UpstreamAnswers(t) \/ PollAgain(t) \/ TaskEnds(t) => Alone
    BY <1>a DEF PollOk, UpstreamAnswers, PollAgain, TaskEnds
  <2>6. {"start", "lock", "clob"} \subseteq Places \ {"gamma"}
    BY DEF Places
  <2>7. ASSUME At(t, "start") \/ At(t, "lock"), NEW p \in {"lock", "gamma"}, LookUp(t, p),
               p = "gamma" => ~Locked
        PROVE  TokenInv' /\ Kept
    <3> HIDE DEF Kept, Alone
    <3>1. CASE MovesTo(t, "clob") \/ MovesTo(t, "start")
      BY <2>2, <2>4, <2>6, <2>7, <3>1 DEF LookUp, Alone
    <3>2. CASE MovesTo(t, p) /\ UNCHANGED hubVars /\ token[SlugOfTask(t)] = "unknown"
      <4>1. UNCHANGED token /\ task'[t].pc = "fetch" /\ task'[t].key = task[t].key
              /\ task[t].key \in Keys
        BY <1>b, <2>7, <3>2 DEF LookUp, At, hubVars
      <4>2. QED
        BY <2>2, <2>3, <2>4, <2>6, <2>7, <3>2, <4>1 DEF Alone
    <3>3. QED
      BY <2>7, <3>1, <3>2 DEF LookUp
  <2>8. CASE FirstLook(t)
    BY <2>7, <2>8 DEF FirstLook, Turn
  <2>9. CASE SecondLook(t)
    BY <2>7, <2>9 DEF SecondLook
  <2>10. CASE GammaKnows(t) \/ GammaFails(t)
    <3>1. place[t] = "gamma" /\ token[SlugOfTask(t)] = "unknown" /\ SlugOfTask(t) \in Slugs
      BY <2>10 DEF GammaKnows, GammaFails, At, TokenInv, Asking, SlugOfTask, SlugAssumption
    <3>2. QED
      BY <2>1, <2>10, <3>1 DEF GammaKnows, GammaFails
  <2>11. CASE GammaRaises(t) \/ ClobFails(t)
    BY <2>2, <2>4, <2>6, <2>11 DEF GammaRaises, ClobFails
  <2>12. CASE ClobAnswers(t)
    <3>1. MovesTo(t, "clob")
      BY <1>a, <2>12 DEF ClobAnswers, MovesTo
    <3>2. QED
      BY <2>2, <2>5, <2>6, <2>12, <3>1 DEF ClobAnswers
  <2>13. CASE PollEnds(t) \/ Cancelled(t)
    BY <2>2, <2>5, <2>6, <2>13 DEF PollEnds, Cancelled
  <2>14. CASE WakesUp(t)
    <3>1. /\ task'[t].pc = "fetch" /\ task'[t].key = task[t].key /\ task[t].key \in Keys
      BY <1>a, <1>b, <2>14 DEF WakesUp, PollAgain, Poller
    <3>2. CASE MovesTo(t, "clob") \/ MovesTo(t, "lock")
      BY <2>2, <2>5, <2>6, <2>14, <3>2 DEF WakesUp
    <3>3. CASE MovesTo(t, "gamma") /\ ~Locked /\ token[SlugOfTask(t)] # "known"
      <4>1. token[SlugOfTask(t)] = "unknown"
        BY <1>a, <2>14, <3>1, <3>3 DEF WakesUp, SlugOfTask, SlugAssumption
      <4>2. QED
        BY <2>3, <2>14, <3>1, <3>3, <4>1 DEF WakesUp
    <3>4. QED
      BY <2>14, <3>2, <3>3 DEF WakesUp, Turn
  <2>15. QED
    BY <1>3, <2>8, <2>9, <2>10, <2>11, <2>12, <2>13, <2>14 DEF PollFunction
<1>4. QED
  BY <1>1, <1>2, <1>3 DEF PollersNext

\* However many kinds, connections and tasks ask for however many slugs: what the
\* cache says of a slug it says for good.
THEOREM TokensAreResolvedOnce == PollersSpec => ResolvedOnce
<1>1. PollersInit => TokenInv
  BY DEF PollersInit, TokenInv, Places
<1>2. HubTypeOK /\ PlacesOK /\ TokenInv /\ [PollersNext]_pollVars
        => TokenInv' /\ [\A s \in Slugs : token[s] # "unknown" => token'[s] = token[s]]_pollVars
  BY HubAssumption, SlugAssumption, TokenStep
<1>3. QED
  BY <1>1, <1>2, PollersImplementStream, StreamImplementsHub, HubTypeCorrect, PlacesInvariant, PTL
     DEF PollersSpec, ResolvedOnce

=============================================================================
