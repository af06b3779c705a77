-------------------------- MODULE Discovery_proofs --------------------------
(***************************************************************************)
(* The confirmed store of Discovery, for any threads, pages and matches:   *)
(* it is never found broken, and nothing is lost from it, unless two steps *)
(* use it at the same time, wherever processes die.                        *)
(***************************************************************************)
EXTENDS Discovery, TLAPS

Writing(s) == thread[s].step \in {"write", "replace"}
Knows(s) == thread[s].copy # NoCopy

\* A thread that writes the store has loaded it.
DiscoveryTypeInv ==
    /\ DiscoveryTypeOK
    /\ \A s \in Threads : Writing(s) => thread[s].copy \in SUBSET Arbs

\* What keeps the file whole: the temporary file of a process is one thread's.
WholeInv ==
    "same" \notin overlaps =>
        /\ file \in SUBSET Arbs
        /\ \A s, t \in Threads : Knows(s) /\ Knows(t) /\ Process(s) = Process(t) => s = t
        /\ \A s \in Threads : At(s, "write") => /\ thread[s].out = "tmp"
                                                /\ tmp[Process(s)] = Empty
        /\ \A s \in Threads : At(s, "replace") => tmp[Process(s)] = thread[s].copy

\* What keeps the entries: one thread at a time knows the store, and all of it.
KeepInv ==
    overlaps = {} =>
        /\ \A s, t \in Threads : Knows(s) /\ Knows(t) => s = t
        /\ \A s \in Threads : Knows(s) => Entries(file) \subseteq thread[s].copy

DiscoveryInv == DiscoveryTypeInv /\ WholeInv /\ KeepInv
-----------------------------------------------------------------------------
(* Typing *)

LEMMA PagesAreNaturals ==
    /\ K_PAGES \in Nat \ {0} /\ P_PAGES \in Nat \ {0}
    /\ LOOP_PAGES \in Nat \ {0} /\ REQUEST_PAGES \in Nat \ {0}
    /\ SWEEP_EVERY \in Nat \ {0}
BY DiscoveryAssumption

LEMMA StartType == Start \in Positions
BY PagesAreNaturals DEF Start, Positions

LEMMA IdleType == Idle \in Activities /\ ~(Idle.step \in {"write", "replace"})
BY StartType DEF Idle, Activities, Steps

LEMMA ProcessType == \A s \in Threads : Process(s) \in Processes
BY DEF Processes

\* What Becomes does to the threads.
LEMMA BecomesType ==
    ASSUME thread \in [Threads -> Activities], NEW s \in Threads, NEW rec \in Activities,
           Becomes(s, rec)
    PROVE  /\ thread' \in [Threads -> Activities]
           /\ thread'[s] = rec
           /\ \A t \in Threads \ {s} : thread'[t] = thread[t]
BY DEF Becomes

LEMMA LoadedType ==
    ASSUME DiscoveryTypeOK
    PROVE  load_checkpoint \in Positions
BY StartType DEF load_checkpoint, DiscoveryTypeOK

LEMMA AdvancedType ==
    ASSUME NEW at \in Positions, NEW s
    PROVE  advance_checkpoint(at, max_pages(s)) \in Positions
<1> DEFINE n == max_pages(s)
<1>1. n \in Nat \ {0}
    BY PagesAreNaturals DEF max_pages
<1>2. at.k \in Nat /\ at.p \in Nat
    BY PagesAreNaturals DEF Positions
<1> HIDE DEF n
<1>3. (IF at.k + n >= K_PAGES THEN 0 ELSE at.k + n) \in 0..K_PAGES - 1
    BY <1>1, <1>2, PagesAreNaturals
<1>4. (IF at.p + n >= P_PAGES THEN 0 ELSE at.p + n) \in 0..P_PAGES - 1
    BY <1>1, <1>2, PagesAreNaturals
<1>5. advance_checkpoint(at, n) \in Positions
    BY <1>3, <1>4 DEF advance_checkpoint, Positions
<1> QED
    BY <1>5 DEF n

LEMMA EntriesType ==
    ASSUME DiscoveryTypeOK
    PROVE  Entries(file) \in SUBSET Arbs
BY DEF Entries, DiscoveryTypeOK, Contents

\* The two forms a step takes when it has matched, and when it has dealt with one
\* match.
LEMMA PriceType ==
    ASSUME NEW found \in SUBSET Arbs
    PROVE  [Idle EXCEPT !.step = "price", !.todo = found] \in Activities
BY IdleType DEF Activities, Steps, Idle

LEMMA ContinuesType ==
    ASSUME NEW rec \in Activities
    PROVE  /\ Continues(rec) \in Activities
           /\ Continues(rec).step \notin {"write", "replace"}
           /\ Continues(rec).copy \in {rec.copy, NoCopy}
BY IdleType DEF Continues, Activities, Steps, Idle

LEMMA InitType == DiscoveryInit => DiscoveryTypeInv
<1> SUFFICES ASSUME DiscoveryInit PROVE DiscoveryTypeInv
    OBVIOUS
<1>1. DiscoveryTypeOK
    BY StartType, IdleType, DiscoveryAssumption, PagesAreNaturals
    DEF DiscoveryInit, DiscoveryTypeOK, Contents
<1>2. \A s \in Threads : ~Writing(s)
    BY IdleType DEF DiscoveryInit, Writing
<1> QED
    BY <1>1, <1>2 DEF DiscoveryTypeInv

\* A step that leaves the files alone, but for the checkpoint, and whose thread
\* does not write the store when it is done.
LEMMA QuietType ==
    ASSUME DiscoveryTypeInv, NEW s \in Threads, NEW rec \in Activities, Becomes(s, rec),
           ckpt' \in {Empty, Torn} \cup Positions,
           UNCHANGED <<file, tmp, live, crashes, overlaps>>,
           tick' \in [Loops -> 0..SWEEP_EVERY - 1], requests' \in 0..MAX_REQUESTS,
           rec.step \notin {"write", "replace"}
    PROVE  DiscoveryTypeInv'
<1>1. thread \in [Threads -> Activities]
    BY DEF DiscoveryTypeInv, DiscoveryTypeOK
<1>2. /\ thread' \in [Threads -> Activities]
      /\ thread'[s] = rec
      /\ \A t \in Threads \ {s} : thread'[t] = thread[t]
    BY <1>1, BecomesType
<1>3. DiscoveryTypeOK'
    BY <1>2 DEF DiscoveryTypeInv, DiscoveryTypeOK
<1>4. \A t \in Threads : Writing(t)' => thread'[t].copy \in SUBSET Arbs
    BY <1>2 DEF DiscoveryTypeInv, Writing
<1> QED
    BY <1>3, <1>4 DEF DiscoveryTypeInv

\* A tick, or a request, is counted within the bounds.
LEMMA ComesType ==
    ASSUME DiscoveryTypeOK, NEW s \in Threads, Comes(s)
    PROVE  /\ tick' \in [Loops -> 0..SWEEP_EVERY - 1]
           /\ requests' \in 0..MAX_REQUESTS
<1>1. CASE s \in Loops
  <2>1. tick[s] \in Nat
    BY <1>1, PagesAreNaturals DEF DiscoveryTypeOK
  <2>2. (tick[s] + 1) % SWEEP_EVERY \in 0..SWEEP_EVERY - 1
    BY <2>1, PagesAreNaturals
  <2> QED
    BY <1>1, <2>2 DEF Comes, DiscoveryTypeOK
<1>2. CASE s \notin Loops
    BY <1>2, DiscoveryAssumption DEF Comes, DiscoveryTypeOK
<1> QED
    BY <1>1, <1>2

-----------------------------------------------------------------------------
(* The steps that leave the store alone *)

Quiet(s, rec) ==
    /\ Becomes(s, rec)
    /\ rec \in Activities
    /\ rec.step \notin {"write", "replace"}
    /\ rec.copy \in {thread[s].copy, NoCopy}
    /\ ckpt' \in {Empty, Torn} \cup Positions
    /\ UNCHANGED <<file, tmp, live, crashes, overlaps>>
    /\ tick' \in [Loops -> 0..SWEEP_EVERY - 1]
    /\ requests' \in 0..MAX_REQUESTS

LEMMA QuietInv ==
    ASSUME DiscoveryInv, NEW s \in Threads, NEW rec, Quiet(s, rec)
    PROVE  DiscoveryInv'
<1>1. DiscoveryTypeInv'
    BY QuietType DEF DiscoveryInv, Quiet
<1>2. thread \in [Threads -> Activities]
    BY DEF DiscoveryInv, DiscoveryTypeInv, DiscoveryTypeOK
<1>3. /\ thread'[s] = rec
      /\ \A t \in Threads \ {s} : thread'[t] = thread[t]
    BY <1>2, BecomesType DEF Quiet
<1>4. \A t \in Threads : /\ Knows(t)' => Knows(t) /\ thread'[t].copy = thread[t].copy
                         /\ thread'[t].step \in {"write", "replace"} => thread'[t] = thread[t]
    BY <1>3 DEF Quiet, Knows
<1>5. WholeInv'
    BY <1>4 DEF DiscoveryInv, WholeInv, Quiet, At, Knows
<1>6. KeepInv'
    BY <1>4 DEF DiscoveryInv, KeepInv, Quiet, Entries
<1> QED
    BY <1>1, <1>5, <1>6 DEF DiscoveryInv

\* Crawling, saving the checkpoint and looking at prices are such steps.
LEMMA QuietSteps ==
    ASSUME DiscoveryInv, NEW s \in Threads,
           \/ BeginSweep(s) \/ BeginOther(s) \/ CrawlFails(s) \/ CrawlDone(s)
           \/ SaveDone(s) \/ \E a \in Arbs : NoArb(s, a)
    PROVE  DiscoveryInv'
<1> USE DEF files
<1>1. DiscoveryTypeOK /\ thread[s] \in Activities
    BY DEF DiscoveryInv, DiscoveryTypeInv, DiscoveryTypeOK
<1>2. /\ tick \in [Loops -> 0..SWEEP_EVERY - 1] /\ requests \in 0..MAX_REQUESTS
      /\ ckpt \in {Empty, Torn} \cup Positions
    BY <1>1 DEF DiscoveryTypeOK
<1>3. Idle.copy = NoCopy /\ Idle.step = "idle"
    BY DEF Idle
<1>4. CASE BeginSweep(s)
  <2> DEFINE rec == [Idle EXCEPT !.step = "crawl", !.at = load_checkpoint]
  <2>1. rec \in Activities /\ rec.step = "crawl" /\ rec.copy = NoCopy
      BY <1>1, LoadedType, IdleType DEF Activities, Steps, Idle
  <2>2. Quiet(s, rec)
      BY <1>1, <1>2, <1>4, <2>1, ComesType DEF BeginSweep, Quiet
  <2> QED
      BY <2>2, QuietInv
<1>5. ASSUME NEW found \in SUBSET Matches, ToPrice(s, found),
             ckpt' \in {Empty, Torn} \cup Positions,
             UNCHANGED <<file, tmp, live, crashes, overlaps>>,
             tick' \in [Loops -> 0..SWEEP_EVERY - 1], requests' \in 0..MAX_REQUESTS
      PROVE  DiscoveryInv'
  <2> DEFINE todo == Best(found) \cap Arbs
             rec == IF todo = {} THEN Idle ELSE [Idle EXCEPT !.step = "price", !.todo = todo]
  <2>1. rec \in Activities /\ rec.step \in {"idle", "price"} /\ rec.copy = NoCopy
      BY <1>3, PriceType, IdleType DEF Idle
  <2>2. Quiet(s, rec)
      BY <1>5, <2>1 DEF ToPrice, Quiet
  <2> QED
      BY <2>2, QuietInv
<1>6. CASE BeginOther(s)
  <2>1. PICK found \in SUBSET Matches : ToPrice(s, found)
      BY <1>6 DEF BeginOther
  <2> QED
      BY <1>1, <1>2, <1>5, <1>6, <2>1, ComesType DEF BeginOther
<1>7. CASE CrawlFails(s)
  <2>1. Quiet(s, Idle)
      BY <1>2, <1>3, <1>7, IdleType DEF CrawlFails, Quiet
  <2> QED
      BY <2>1, QuietInv
<1>8. CASE CrawlDone(s)
  <2> DEFINE rec == [thread[s] EXCEPT !.step = "saving"]
  <2>1. rec \in Activities /\ rec.step = "saving" /\ rec.copy = thread[s].copy
      BY <1>1 DEF Activities, Steps
  <2>2. Quiet(s, rec)
      BY <1>2, <1>8, <2>1 DEF CrawlDone, Quiet
  <2> QED
      BY <2>2, QuietInv
<1>9. CASE SaveDone(s)
  <2> DEFINE at == thread[s].at
             n == max_pages(s)
  <2>1. at \in Positions
      BY <1>1 DEF Activities
  <2>2. ckpt' \in {Empty, Torn} \cup Positions
      BY <1>9, <2>1, AdvancedType DEF SaveDone, Written
  <2>3. CASE ToPrice(s, Matched(at, n))
    <3>1. Matched(at, n) \in SUBSET Matches
        BY DEF Matched
    <3> QED
        BY <1>2, <1>5, <1>9, <2>2, <2>3, <3>1 DEF SaveDone
  <2>4. CASE Becomes(s, Idle)
    <3>1. Quiet(s, Idle)
        BY <1>2, <1>3, <1>9, <2>2, <2>4, IdleType DEF SaveDone, Quiet
    <3> QED
        BY <3>1, QuietInv
  <2> QED
      BY <1>9, <2>3, <2>4 DEF SaveDone
<1>10. ASSUME NEW a \in Arbs, NoArb(s, a) PROVE DiscoveryInv'
  <2> DEFINE rec == [thread[s] EXCEPT !.todo = @ \ {a}]
  <2>1. rec \in Activities /\ rec.copy = thread[s].copy
      BY <1>1 DEF Activities
  <2>2. Quiet(s, Continues(rec))
      BY <1>2, <1>10, <2>1, ContinuesType DEF NoArb, Quiet
  <2> QED
      BY <2>2, QuietInv
<1> QED
    BY <1>4, <1>6, <1>7, <1>8, <1>9, <1>10

-----------------------------------------------------------------------------
(* The steps that change the store *)

\* Who writes the store has loaded it.
LEMMA WritersKnow ==
    ASSUME DiscoveryTypeInv, NEW s \in Threads, Writing(s)
    PROVE  Knows(s) /\ thread[s].copy \in SUBSET Arbs
           /\ thread[s].copy \notin {Empty, Torn, NoFile, NoCopy}
BY DiscoveryAssumption DEF DiscoveryTypeInv, Knows

LEMMA InitInv == DiscoveryInit => DiscoveryInv
<1> SUFFICES ASSUME DiscoveryInit PROVE DiscoveryInv
    OBVIOUS
<1>1. DiscoveryTypeInv
    BY InitType
<1>2. \A s \in Threads : thread[s].step = "idle" /\ thread[s].copy = NoCopy
    BY DEF DiscoveryInit, Idle
<1>3. WholeInv
    BY <1>2 DEF DiscoveryInit, WholeInv, Knows, At
<1>4. KeepInv
    BY <1>2 DEF KeepInv, Knows
<1> QED
    BY <1>1, <1>3, <1>4 DEF DiscoveryInv

\* record makes known to overlaps every other thread that knows the store.
LEMMA RecordInv ==
    ASSUME DiscoveryInv, NEW s \in Threads, NEW a \in Arbs, record(s, a)
    PROVE  DiscoveryInv'
<1> DEFINE copy == _load(s) \cup {a}
           rec == [thread[s] EXCEPT !.step = "write", !.todo = @ \ {a},
                                    !.copy = copy, !.out = "tmp"]
<1>1. DiscoveryTypeOK /\ thread \in [Threads -> Activities] /\ thread[s] \in Activities
    BY DEF DiscoveryInv, DiscoveryTypeInv, DiscoveryTypeOK
<1>2. copy \in SUBSET Arbs /\ copy # NoCopy
    BY <1>1, EntriesType, DiscoveryAssumption DEF _load, Activities
<1>3. Becomes(s, rec)
    BY DEF record
<1> HIDE DEF copy
<1>4. /\ rec \in Activities
      /\ rec.step = "write" /\ rec.copy = copy /\ rec.out = "tmp"
    BY <1>1, <1>2 DEF Activities, Steps
<1> HIDE DEF rec
<1>5. /\ thread' \in [Threads -> Activities] /\ thread'[s] = rec
      /\ \A t \in Threads \ {s} : thread'[t] = thread[t]
    BY <1>1, <1>3, <1>4, BecomesType
<1>6. /\ tmp' \in [Processes -> {NoFile} \cup Contents] /\ tmp'[Process(s)] = Empty
      /\ \A p \in Processes \ {Process(s)} : tmp'[p] = tmp[p]
    BY <1>1, ProcessType DEF record, DiscoveryTypeOK, Contents
<1>7. DiscoveryTypeInv'
  <2>1. overlaps' \subseteq {"same", "others"}
      BY <1>1 DEF record, Overlapping, DiscoveryTypeOK
  <2>2. DiscoveryTypeOK'
      BY <1>1, <1>5, <1>6, <2>1 DEF record, DiscoveryTypeOK
  <2>3. \A t \in Threads : Writing(t)' => thread'[t].copy \in SUBSET Arbs
      BY <1>2, <1>4, <1>5 DEF DiscoveryInv, DiscoveryTypeInv, Writing
  <2> QED
      BY <2>2, <2>3 DEF DiscoveryTypeInv
<1>8. \A t \in Threads \ {s} :
        Knows(t) => (IF Process(t) = Process(s) THEN "same" ELSE "others") \in overlaps'
    BY DEF record, Overlapping, Knows
<1>9. WholeInv'
  <2> SUFFICES ASSUME "same" \notin overlaps' PROVE
         /\ file' \in SUBSET Arbs
         /\ \A t, u \in Threads : Knows(t)' /\ Knows(u)' /\ Process(t) = Process(u) => t = u
         /\ \A t \in Threads : At(t, "write")' => /\ thread'[t].out = "tmp"
                                                  /\ tmp'[Process(t)] = Empty
         /\ \A t \in Threads : At(t, "replace")' => tmp'[Process(t)] = thread'[t].copy
      BY DEF WholeInv
  <2>1. "same" \notin overlaps
      BY DEF record
  <2>2. \A t \in Threads \ {s} : Knows(t) => Process(t) # Process(s)
      BY <1>8
  <2>3. \A t \in Threads \ {s} : Knows(t)' <=> Knows(t)
      BY <1>5 DEF Knows
  <2>4. file' \in SUBSET Arbs
      BY <2>1 DEF record, DiscoveryInv, WholeInv
  <2>5. \A t, u \in Threads : Knows(t)' /\ Knows(u)' /\ Process(t) = Process(u) => t = u
      BY <2>1, <2>2, <2>3 DEF DiscoveryInv, WholeInv
  <2>6. \A t \in Threads \ {s} :
            Writing(t) => Process(t) \in Processes \ {Process(s)}
      BY <2>2, WritersKnow, ProcessType DEF DiscoveryInv
  <2>7. \A t \in Threads : At(t, "write")' => /\ thread'[t].out = "tmp"
                                              /\ tmp'[Process(t)] = Empty
      BY <1>4, <1>5, <1>6, <2>1, <2>6 DEF DiscoveryInv, WholeInv, At, Writing
  <2>8. \A t \in Threads : At(t, "replace")' => tmp'[Process(t)] = thread'[t].copy
      BY <1>4, <1>5, <1>6, <2>1, <2>6 DEF DiscoveryInv, WholeInv, At, Writing
  <2> QED
      BY <2>4, <2>5, <2>7, <2>8
<1>10. KeepInv'
  <2> SUFFICES ASSUME overlaps' = {} PROVE
         /\ \A t, u \in Threads : Knows(t)' /\ Knows(u)' => t = u
         /\ \A t \in Threads : Knows(t)' => Entries(file)' \subseteq thread'[t].copy
      BY DEF KeepInv
  <2>1. overlaps = {} /\ \A t \in Threads \ {s} : ~Knows(t)'
      BY <1>5, <1>8 DEF record, Knows
  <2>2. Entries(file)' = Entries(file)
      BY DEF record, Entries
  <2>3. Entries(file) \subseteq copy
      BY <2>1 DEF copy, _load, DiscoveryInv, KeepInv, Knows
  <2> QED
      BY <1>4, <1>5, <2>1, <2>2, <2>3
<1> QED
    BY <1>7, <1>9, <1>10 DEF DiscoveryInv

LEMMA WriteInv ==
    ASSUME DiscoveryInv, NEW s \in Threads, WriteDone(s)
    PROVE  DiscoveryInv'
<1> DEFINE p == Process(s)
           rec == [thread[s] EXCEPT !.step = "replace", !.out = "tmp"]
<1>1. DiscoveryTypeOK /\ thread \in [Threads -> Activities] /\ thread[s] \in Activities
    BY DEF DiscoveryInv, DiscoveryTypeInv, DiscoveryTypeOK
<1>2. At(s, "write") /\ Becomes(s, rec)
    BY DEF WriteDone
<1>3. /\ rec \in Activities /\ rec.step = "replace"
      /\ rec.copy = thread[s].copy
    BY <1>1 DEF Activities, Steps
<1> HIDE DEF rec
<1>4. /\ thread' \in [Threads -> Activities] /\ thread'[s] = rec
      /\ \A t \in Threads \ {s} : thread'[t] = thread[t]
    BY <1>1, <1>2, <1>3, BecomesType
<1>5. Knows(s) /\ thread[s].copy \in SUBSET Arbs
    BY <1>2, WritersKnow DEF DiscoveryInv, Writing, At
<1>6. \A old : Written(old, thread[s].copy) \subseteq Contents
    BY <1>5 DEF Written, Contents
<1>7. file' \in Contents /\ tmp' \in [Processes -> {NoFile} \cup Contents]
    BY <1>1, <1>6, ProcessType DEF WriteDone, DiscoveryTypeOK
<1>8. DiscoveryTypeInv'
  <2>1. DiscoveryTypeOK'
      BY <1>1, <1>4, <1>7 DEF WriteDone, DiscoveryTypeOK
  <2>2. \A t \in Threads : Writing(t)' => thread'[t].copy \in SUBSET Arbs
      BY <1>3, <1>4, <1>5 DEF DiscoveryInv, DiscoveryTypeInv, Writing
  <2> QED
      BY <2>1, <2>2 DEF DiscoveryTypeInv
<1>9. \A t \in Threads : Knows(t)' <=> Knows(t)
    BY <1>3, <1>4 DEF Knows
<1>10. ASSUME "same" \notin overlaps
       PROVE  /\ file' = file
              /\ tmp'[p] = thread[s].copy
              /\ \A t \in Threads \ {s} : Writing(t) => tmp'[Process(t)] = tmp[Process(t)]
  <2>1. thread[s].out = "tmp" /\ tmp[p] = Empty
      BY <1>2, <1>10 DEF DiscoveryInv, WholeInv
  <2>2. file' = file /\ tmp' = [tmp EXCEPT ![p] = thread[s].copy]
      BY <2>1 DEF WriteDone, Written
  <2>3. \A t \in Threads \ {s} : Writing(t) => Process(t) # p
      BY <1>5, <1>10, WritersKnow DEF DiscoveryInv, WholeInv
  <2> QED
      BY <1>1, <2>2, <2>3, ProcessType DEF DiscoveryTypeOK
<1>11. WholeInv'
  <2> SUFFICES ASSUME "same" \notin overlaps PROVE WholeInv'
      BY DEF WholeInv, WriteDone
  <2>1. file' \in SUBSET Arbs
      BY <1>10 DEF DiscoveryInv, WholeInv
  <2>2. \A t, u \in Threads : Knows(t)' /\ Knows(u)' /\ Process(t) = Process(u) => t = u
      BY <1>9 DEF DiscoveryInv, WholeInv
  <2>3. \A t \in Threads : At(t, "write")' => /\ thread'[t].out = "tmp"
                                              /\ tmp'[Process(t)] = Empty
      BY <1>3, <1>4, <1>10 DEF DiscoveryInv, WholeInv, At, Writing
  <2>4. \A t \in Threads : At(t, "replace")' => tmp'[Process(t)] = thread'[t].copy
      BY <1>3, <1>4, <1>10 DEF DiscoveryInv, WholeInv, At, Writing
  <2> QED
      BY <2>1, <2>2, <2>3, <2>4 DEF WholeInv
<1>12. KeepInv'
  <2> SUFFICES ASSUME overlaps = {} PROVE KeepInv'
      BY DEF KeepInv, WriteDone
  <2>1. Entries(file)' = Entries(file)
      BY <1>10 DEF Entries
  <2> QED
      BY <1>3, <1>4, <1>9, <2>1 DEF DiscoveryInv, KeepInv
<1> QED
    BY <1>8, <1>11, <1>12 DEF DiscoveryInv

\* A renaming: the file becomes the temporary file, which is the thread's copy.
Renames(s) == Replace(s) /\ tmp[Process(s)] # NoFile

LEMMA RenamesOwnCopy ==
    ASSUME DiscoveryInv, NEW s \in Threads, Renames(s), "same" \notin overlaps
    PROVE  file' = thread[s].copy /\ thread[s].copy \in SUBSET Arbs /\ Knows(s)
<1>1. At(s, "replace")
    BY DEF Renames, Replace
<1>2. tmp[Process(s)] = thread[s].copy
    BY <1>1 DEF DiscoveryInv, WholeInv
<1> QED
    BY <1>1, <1>2, WritersKnow DEF Renames, Replace, DiscoveryInv, Writing, At

LEMMA ReplaceInv ==
    ASSUME DiscoveryInv, NEW s \in Threads, Replace(s)
    PROVE  DiscoveryInv'
<1> DEFINE p == Process(s)
<1>1. /\ DiscoveryTypeOK /\ thread \in [Threads -> Activities] /\ thread[s] \in Activities
      /\ tmp \in [Processes -> {NoFile} \cup Contents] /\ p \in Processes
    BY ProcessType DEF DiscoveryInv, DiscoveryTypeInv, DiscoveryTypeOK
<1>2. CASE tmp[p] = NoFile
  <2>1. Quiet(s, Idle)
      BY <1>1, <1>2, IdleType DEF Replace, Quiet, DiscoveryTypeOK, Idle
  <2> QED
      BY <2>1, QuietInv
<1>3. CASE tmp[p] # NoFile
  <2>1. /\ Renames(s)
        /\ file' = tmp[p] /\ tmp' = [tmp EXCEPT ![p] = NoFile]
        /\ thread' = [t \in Threads |->
                        IF t = s THEN Continues(thread[s])
                        ELSE [thread[t] EXCEPT !.out = Renamed(t, p)]]
        /\ UNCHANGED <<ckpt, tick, live, requests, crashes, overlaps>>
      BY <1>3 DEF Renames, Replace
  <2>2. /\ thread'[s] \in Activities /\ thread'[s].step \notin {"write", "replace"}
        /\ thread'[s].copy \in {thread[s].copy, NoCopy}
      BY <1>1, <2>1, ContinuesType
  <2>3. ASSUME NEW t \in Threads \ {s}
        PROVE  /\ thread'[t] \in Activities
               /\ thread'[t].step = thread[t].step /\ thread'[t].copy = thread[t].copy
               /\ thread'[t].out = Renamed(t, p)
    <3>1. thread[t] \in Activities
        BY <1>1
    <3>2. Renamed(t, p) \in {"tmp", "file", "gone"}
        BY <3>1 DEF Renamed, Activities
    <3>3. thread'[t] = [thread[t] EXCEPT !.out = Renamed(t, p)]
        BY <2>1
    <3> QED
        BY <3>1, <3>2, <3>3 DEF Activities
  <2>4. thread' \in [Threads -> Activities]
      BY <2>1, <2>2, <2>3
  <2>5. file' \in Contents /\ tmp' \in [Processes -> {NoFile} \cup Contents]
      BY <1>1, <1>3, <2>1
  <2>6. DiscoveryTypeInv'
    <3>1. DiscoveryTypeOK'
        BY <1>1, <2>1, <2>4, <2>5 DEF DiscoveryTypeOK
    <3>2. \A t \in Threads : Writing(t)' => thread'[t].copy \in SUBSET Arbs
        BY <2>2, <2>3 DEF DiscoveryInv, DiscoveryTypeInv, Writing
    <3> QED
        BY <3>1, <3>2 DEF DiscoveryTypeInv
  <2>7. \A t \in Threads : Knows(t)' => Knows(t)
      BY <2>2, <2>3 DEF Knows
  <2>8. WholeInv'
    <3> SUFFICES ASSUME "same" \notin overlaps PROVE WholeInv'
        BY <2>1 DEF WholeInv
    <3>1. file' \in SUBSET Arbs /\ Knows(s)
        BY <2>1, RenamesOwnCopy
    <3>2. \A t \in Threads \ {s} : Writing(t) => Process(t) # p
        BY <3>1, WritersKnow DEF DiscoveryInv, WholeInv
    <3>3. \A t \in Threads \ {s} :
            Writing(t) => tmp'[Process(t)] = tmp[Process(t)] /\ Renamed(t, p) = thread[t].out
      <4> SUFFICES ASSUME NEW t \in Threads \ {s}, Writing(t)
                   PROVE  /\ tmp'[Process(t)] = tmp[Process(t)]
                          /\ Renamed(t, p) = thread[t].out
          OBVIOUS
      <4>1. tmp'[Process(t)] = tmp[Process(t)]
          BY <1>1, <2>1, <3>2, ProcessType
      <4>2. At(t, "write") => thread[t].out = "tmp"
          BY DEF DiscoveryInv, WholeInv
      <4> QED
          BY <3>2, <4>1, <4>2 DEF Renamed
    <3>4. \A t, u \in Threads : Knows(t)' /\ Knows(u)' /\ Process(t) = Process(u) => t = u
        BY <2>7 DEF DiscoveryInv, WholeInv
    <3>5. \A t \in Threads : At(t, "write")' => /\ thread'[t].out = "tmp"
                                                /\ tmp'[Process(t)] = Empty
        BY <2>2, <2>3, <3>3 DEF DiscoveryInv, WholeInv, At, Writing
    <3>6. \A t \in Threads : At(t, "replace")' => tmp'[Process(t)] = thread'[t].copy
        BY <2>2, <2>3, <3>3 DEF DiscoveryInv, WholeInv, At, Writing
    <3> QED
        BY <3>1, <3>4, <3>5, <3>6 DEF WholeInv
  <2>9. KeepInv'
    <3> SUFFICES ASSUME overlaps = {} PROVE KeepInv'
        BY <2>1 DEF KeepInv
    <3>1. file' = thread[s].copy /\ Knows(s) /\ Entries(file)' \subseteq thread[s].copy
        BY <2>1, RenamesOwnCopy DEF Entries
    <3>2. \A t \in Threads : Knows(t) => t = s
        BY <3>1 DEF DiscoveryInv, KeepInv
    <3> QED
        BY <2>2, <2>7, <3>1, <3>2 DEF KeepInv, Knows
  <2> QED
      BY <2>6, <2>8, <2>9 DEF DiscoveryInv
<1> QED
    BY <1>2, <1>3

LEMMA CrashInv ==
    ASSUME DiscoveryInv, NEW p \in Processes, Crash(p)
    PROVE  DiscoveryInv'
<1> USE DEF files
<1>1. DiscoveryTypeOK /\ thread \in [Threads -> Activities]
    BY DEF DiscoveryInv, DiscoveryTypeInv, DiscoveryTypeOK
<1>2. \A t \in Threads : thread'[t] \in {thread[t], Idle}
    BY DEF Crash
<1>3. thread' \in [Threads -> Activities]
    BY <1>1, IdleType DEF Crash
<1>4. \A t \in Threads : /\ Knows(t)' => thread'[t] = thread[t]
                         /\ thread'[t].step \in {"write", "replace"} => thread'[t] = thread[t]
    BY <1>2, IdleType DEF Knows, Idle
<1>5. tick' \in [Loops -> 0..SWEEP_EVERY - 1] /\ crashes' \in 0..MAX_CRASHES
    BY <1>1, PagesAreNaturals, DiscoveryAssumption DEF Crash, DiscoveryTypeOK
<1>6. DiscoveryTypeInv'
    BY <1>1, <1>3, <1>4, <1>5
    DEF DiscoveryInv, DiscoveryTypeInv, DiscoveryTypeOK, Crash, Writing
<1>7. WholeInv'
    BY <1>4 DEF DiscoveryInv, WholeInv, Crash, At, Knows
<1>8. KeepInv'
    BY <1>4 DEF DiscoveryInv, KeepInv, Crash, Entries, Knows
<1> QED
    BY <1>6, <1>7, <1>8 DEF DiscoveryInv

\* The invariant sees none of the rest.
LEMMA SameInv ==
    ASSUME DiscoveryInv, live' \subseteq Arbs, ckpt' \in {Empty, Torn} \cup Positions,
           UNCHANGED <<file, tmp, thread, tick, requests, crashes, overlaps>>
    PROVE  DiscoveryInv'
<1> USE DEF files
<1>1. DiscoveryTypeInv'
    BY DEF DiscoveryInv, DiscoveryTypeInv, DiscoveryTypeOK, Writing
<1>2. WholeInv' /\ KeepInv'
    BY DEF DiscoveryInv, WholeInv, KeepInv, Knows, At, Entries
<1> QED
    BY <1>1, <1>2 DEF DiscoveryInv

LEMMA StepInv == DiscoveryInv /\ [DiscoveryNext]_vars => DiscoveryInv'
<1> SUFFICES ASSUME DiscoveryInv, [DiscoveryNext]_vars PROVE DiscoveryInv'
    OBVIOUS
<1>1. live \subseteq Arbs /\ ckpt \in {Empty, Torn} \cup Positions
    BY DEF DiscoveryInv, DiscoveryTypeInv, DiscoveryTypeOK
<1>2. CASE UNCHANGED vars
    BY <1>1, <1>2, SameInv DEF vars, files
<1>3. ASSUME NEW a \in Arbs, PricesMove(a) PROVE DiscoveryInv'
  <2>1. live' \subseteq Arbs
      BY <1>1, <1>3 DEF PricesMove
  <2> QED
      BY <1>1, <1>3, <2>1, SameInv DEF PricesMove, files
<1>4. ASSUME NEW s \in Threads, GoesOn(s) PROVE DiscoveryInv'
    BY <1>4, QuietSteps, RecordInv, WriteInv, ReplaceInv DEF GoesOn
<1>5. CASE CursorExpires
  <2>1. ckpt' \in Positions
      BY <1>5 DEF CursorExpires, Positions
  <2> QED
      BY <1>1, <1>5, <2>1, SameInv DEF CursorExpires
<1> QED
    BY <1>2, <1>3, <1>4, <1>5, QuietSteps, CrashInv DEF DiscoveryNext

-----------------------------------------------------------------------------
(* The theorems *)

\* Every state is of its type.
THEOREM DiscoveryTypeCorrect == DiscoverySpec => []DiscoveryTypeOK
<1>1. DiscoveryInv => DiscoveryTypeOK
    BY DEF DiscoveryInv, DiscoveryTypeInv
<1> QED
    BY <1>1, InitInv, StepInv, PTL DEF DiscoverySpec

\* "Persisted atomically": for any threads and any matches, wherever processes
\* die, a reader finds a whole file, unless two steps of one process recorded at
\* the same time.
THEOREM StoreIsWhole == DiscoverySpec => []StoreWhole
<1>1. DiscoveryInv => StoreWhole
    BY DiscoveryAssumption DEF DiscoveryInv, WholeInv, StoreWhole
<1> QED
    BY <1>1, InitInv, StepInv, PTL DEF DiscoverySpec

\* "The store keeps everything forever": no step takes an entry out of the file,
\* unless two steps have used it at the same time.
THEOREM NothingIsLost == DiscoverySpec => KeepsEverything
<1>1. ASSUME DiscoveryInv, [DiscoveryNext]_vars
      PROVE  [Entries(file) \subseteq Entries(file') \/ overlaps # {}]_vars
  <2> SUFFICES ASSUME DiscoveryNext, overlaps = {}
               PROVE  Entries(file) \subseteq Entries(file')
      BY <1>1
  <2>1. CASE file' = file
      BY <2>1
  <2>2. ASSUME NEW s \in Threads, Renames(s)
        PROVE  Entries(file) \subseteq Entries(file')
    <3>1. file' = thread[s].copy /\ file' \in SUBSET Arbs /\ Knows(s)
        BY <1>1, <2>2, RenamesOwnCopy
    <3>2. Entries(file') = file'
        BY <3>1, DiscoveryAssumption DEF Entries
    <3> QED
        BY <1>1, <3>1, <3>2 DEF DiscoveryInv, KeepInv
  <2>3. ASSUME NEW s \in Threads, WriteDone(s)
        PROVE  file' = file
    <3>1. thread[s].out = "tmp"
        BY <1>1, <2>3 DEF WriteDone, DiscoveryInv, WholeInv
    <3> QED
        BY <2>3, <3>1 DEF WriteDone
  <2>4. ASSUME NEW s \in Threads, GoesOn(s)
        PROVE  file' = file \/ Renames(s)
      BY <2>3, <2>4 DEF GoesOn, SaveDone, Replace, Renames, NoArb, record, files
  <2>5. file' = file \/ \E s \in Threads : Renames(s)
      BY <2>4 DEF DiscoveryNext, BeginSweep, BeginOther, CrawlFails, CrawlDone,
                  PricesMove, CursorExpires, Crash, files
  <2> QED
      BY <2>1, <2>2, <2>5
<1> QED
    BY <1>1, InitInv, StepInv, PTL DEF DiscoverySpec, KeepsEverything
=============================================================================
