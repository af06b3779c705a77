----------------------------- MODULE Discovery ------------------------------
(***************************************************************************)
(* The discovery of cross-venue arbitrages of arb/: a step crawls some     *)
(* pages of the Kalshi and of the Polymarket listing from where the        *)
(* checkpoint file says, moves the checkpoint on, matches what it crawled, *)
(* prices the matches and records those that are arbitrages in the         *)
(* confirmed store, a JSON file.                                           *)
(*                                                                         *)
(* Steps are run by the discovery loop of the arb leader, one after the    *)
(* other, and by requests to /arb/discovery/step, in threads of the same   *)
(* process or of another worker: all use the two files without a lock.     *)
(* Every opening, writing and renaming of a file is an action of its own,  *)
(* and a process may die between any two.  A file that was opened for      *)
(* writing is empty until it is written; who writes to a file that has got *)
(* another content meanwhile may leave a mixture of both.                  *)
(***************************************************************************)
EXTENDS Integers, FiniteSets

CONSTANTS
    Threads,        \* threads that run discovery steps
    Loops,          \* those that run the loop; the others serve requests
    Together,       \* the threads of one process; the others have one each
    K_PAGES, P_PAGES,           \* pages of the two listings; the last Polymarket
                                \* page is short, or ends at the offset cap
    LOOP_PAGES, REQUEST_PAGES,  \* max_pages of a step
    SWEEP_EVERY,    \* the loop sweeps at every so many ticks
    Matches,        \* verified matches: <<Kalshi page, Polymarket page, rank>>, the
                    \* best match having the lowest rank
    Arbs,           \* those whose prices may make an arbitrage
    MAX_PRICED_CANDIDATES,  \* of one step
    Empty, Torn,    \* contents of a file that nobody can parse
    NoFile, NoCopy,
    MAX_REQUESTS, MAX_CRASHES   \* bounds

ASSUME DiscoveryAssumption ==
    /\ Loops \subseteq Threads /\ Together \subseteq Threads
    /\ {K_PAGES, P_PAGES, LOOP_PAGES, REQUEST_PAGES, SWEEP_EVERY} \subseteq Nat \ {0}
    /\ Matches \subseteq (0..K_PAGES - 1) \X (0..P_PAGES - 1) \X Nat
    /\ \A a, b \in Matches : a[3] = b[3] => a = b
    /\ Arbs \subseteq Matches
    /\ MAX_PRICED_CANDIDATES \in Nat \ {0}
    /\ \A C \in SUBSET Arbs : C \notin {Empty, Torn, NoFile, NoCopy}
    /\ MAX_REQUESTS \in Nat /\ MAX_CRASHES \in Nat

VARIABLES
    ckpt,       \* crawl_state.json
    file,       \* confirmed_arbs.json: the pairs it has entries of
    tmp,        \* confirmed_arbs.json.tmp.<pid> of each process
    thread,     \* what each thread is doing
    tick,       \* tick of each loop, modulo SWEEP_EVERY
    live,       \* the pairs that can be priced and cost less than 1 now
    requests, crashes,  \* history: how many there were
    overlaps    \* history: steps that used the store at the same time were of
                \* the "same" process, or of "others"

files == <<ckpt, file, tmp>>
vars == <<files, thread, tick, live, requests, crashes, overlaps>>

\* dead: Kalshi does not know the cursor any more.  A listing is started without one.
Positions == [k : 0..K_PAGES - 1, p : 0..P_PAGES - 1, dead : BOOLEAN]
Start == [k |-> 0, p |-> 0, dead |-> FALSE]
Contents == {Empty, Torn} \cup SUBSET Arbs

\* A process is named by one of its threads.
Process(s) == IF s \in Together THEN CHOOSE t \in Together : TRUE ELSE s
Processes == {Process(s) : s \in Threads}

\* at: the checkpoint loaded.  todo: matches that are still to be priced.
\* copy: the store's _cache, if it has been loaded.  out: where the file being
\* written is by now.
Steps == {"idle", "crawl", "saving", "price", "write", "replace"}
Idle == [step |-> "idle", at |-> Start, todo |-> {}, copy |-> NoCopy, out |-> "tmp"]

Activities == [step : Steps, at : Positions, todo : SUBSET Arbs,
               copy : {NoCopy} \cup SUBSET Arbs, out : {"tmp", "file", "gone"}]

DiscoveryTypeOK ==
    /\ ckpt \in {Empty, Torn} \cup Positions
    /\ file \in Contents
    /\ tmp \in [Processes -> {NoFile} \cup Contents]
    /\ thread \in [Threads -> Activities]
    /\ tick \in [Loops -> 0..SWEEP_EVERY - 1]
    /\ live \subseteq Arbs
    /\ requests \in 0..MAX_REQUESTS /\ crashes \in 0..MAX_CRASHES
    /\ overlaps \subseteq {"same", "others"}

DiscoveryInit ==
    /\ ckpt = Start
    /\ file = {}
    /\ tmp = [p \in Processes |-> NoFile]
    /\ thread = [s \in Threads |-> Idle]
    /\ tick = [s \in Loops |-> 0]
    /\ live \in SUBSET Arbs
    /\ requests = 0 /\ crashes = 0 /\ overlaps = {}

At(s, step) == thread[s].step = step
Becomes(s, rec) == thread' = [thread EXCEPT ![s] = rec]

\* What a file holds after new was written to the open file: to one that is
\* still as empty as it was when it was opened, or over somebody else's content.
Written(old, new) == IF old = Empty THEN {new} ELSE {new, Torn}

\* An absent or unreadable file counts as a fresh one.
Entries(content) == IF content \in {Empty, Torn} THEN {} ELSE content
load_checkpoint == IF ckpt \in {Empty, Torn} THEN Start ELSE ckpt

-----------------------------------------------------------------------------
(* Crawling *)

max_pages(s) == IF s \in Loops THEN LOOP_PAGES ELSE REQUEST_PAGES

\* A step comes to be run: the next tick of a loop, or a request.
Comes(s) ==
    /\ At(s, "idle")
    /\ IF s \in Loops
       THEN /\ tick' = [tick EXCEPT ![s] = (@ + 1) % SWEEP_EVERY]
            /\ UNCHANGED requests
       ELSE /\ requests < MAX_REQUESTS /\ requests' = requests + 1
            /\ UNCHANGED tick

\* mode "sweep".
BeginSweep(s) ==
    /\ s \in Loops => tick[s] = 0
    /\ Comes(s)
    /\ Becomes(s, [Idle EXCEPT !.step = "crawl", !.at = load_checkpoint])
    /\ UNCHANGED <<files, live, crashes, overlaps>>

\* The matches that are priced: the best ones.  Nothing comes of those that are never
\* an arbitrage.
Best(found) ==
    {a \in found : Cardinality({b \in found : b[3] < a[3]}) < MAX_PRICED_CANDIDATES}

ToPrice(s, found) ==
    LET todo == Best(found) \cap Arbs
    IN  Becomes(s, IF todo = {} THEN Idle ELSE [Idle EXCEPT !.step = "price", !.todo = todo])

\* The other modes match what is new or liquid, wherever it is listed, and leave
\* the checkpoint alone.
BeginOther(s) ==
    /\ s \in Loops => tick[s] # 0
    /\ Comes(s)
    /\ \E found \in SUBSET Matches : ToPrice(s, found)
    /\ UNCHANGED <<files, live, crashes, overlaps>>

\* Either venue fails: the step raises, and its caller logs it.
CrawlFails(s) ==
    /\ At(s, "crawl")
    /\ Becomes(s, Idle)
    /\ UNCHANGED <<files, tick, live, requests, crashes, overlaps>>

\* Both venues answer, and save_checkpoint opens its file.  Only the next checkpoint
\* would replace a dead cursor, and it is never reached: every sweep with it fails.
CrawlDone(s) ==
    /\ At(s, "crawl") /\ ~thread[s].at.dead
    /\ Becomes(s, [thread[s] EXCEPT !.step = "saving"])
    /\ ckpt' = Empty
    /\ UNCHANGED <<file, tmp, tick, live, requests, crashes, overlaps>>

\* (mutant) a venue that is at its end waits for the other one.
advance_checkpoint_Waits(at, n) ==
    IF at.k + n >= K_PAGES /\ at.p + n >= P_PAGES THEN Start
    ELSE [k |-> IF at.k + n >= K_PAGES THEN at.k ELSE at.k + n,
          p |-> IF at.p + n >= P_PAGES THEN at.p ELSE at.p + n, dead |-> FALSE]

\* A venue whose listing was walked to its end starts again.
advance_checkpoint(at, n) ==
    [k |-> IF at.k + n >= K_PAGES THEN 0 ELSE at.k + n,
     p |-> IF at.p + n >= P_PAGES THEN 0 ELSE at.p + n, dead |-> FALSE]

Matched(at, n) == {a \in Matches : a[1] \in at.k..at.k + n - 1 /\ a[2] \in at.p..at.p + n - 1}

\* The checkpoint is written; then the pages are matched.  A request without
\* "detect" prices nothing.
SaveDone(s) ==
    LET at == thread[s].at
        n == max_pages(s)
    IN  /\ At(s, "saving")
        /\ ckpt' \in Written(ckpt, advance_checkpoint(at, n))
        /\ \/ ToPrice(s, Matched(at, n))
           \/ s \notin Loops /\ Becomes(s, Idle)
        /\ UNCHANGED <<file, tmp, tick, live, requests, crashes, overlaps>>

-----------------------------------------------------------------------------
(* The confirmed store *)

Pick(s, a) == At(s, "price") /\ a \in thread[s].todo

\* What a thread does when it has dealt with a match.
Continues(rec) == IF rec.todo = {} THEN Idle ELSE [rec EXCEPT !.step = "price"]

\* price_fn found no prices, or no arbitrage.
NoArb(s, a) ==
    /\ Pick(s, a) /\ a \notin live
    /\ Becomes(s, Continues([thread[s] EXCEPT !.todo = @ \ {a}]))
    /\ UNCHANGED <<files, tick, live, requests, crashes, overlaps>>

\* (mutant) the store starts empty in every process.
_load_Nothing(s) == IF thread[s].copy = NoCopy THEN {} ELSE thread[s].copy

\* The file is read by the first record of a step only.
_load(s) == IF thread[s].copy = NoCopy THEN Entries(file) ELSE thread[s].copy

Overlapping(s) ==
    {IF Process(t) = Process(s) THEN "same" ELSE "others" :
        t \in {u \in Threads \ {s} : thread[u].copy # NoCopy}}

\* record, up to where _persist opens its temporary file.
record(s, a) ==
    /\ Pick(s, a) /\ a \in live
    /\ Becomes(s, [thread[s] EXCEPT !.step = "write", !.todo = @ \ {a},
                                    !.copy = _load(s) \cup {a}, !.out = "tmp"])
    /\ tmp' = [tmp EXCEPT ![Process(s)] = Empty]
    /\ overlaps' = overlaps \cup Overlapping(s)
    /\ UNCHANGED <<ckpt, file, tick, live, requests, crashes>>

\* (mutant) the file is written in place.
WriteDone_InPlace(s) ==
    /\ At(s, "write")
    /\ \/ /\ file # Empty /\ file' = Empty /\ UNCHANGED thread
       \/ /\ file = Empty /\ file' = thread[s].copy
          /\ Becomes(s, [thread[s] EXCEPT !.step = "replace", !.out = "tmp"])
    /\ tmp' = [tmp EXCEPT ![Process(s)] = thread[s].copy]
    /\ UNCHANGED <<ckpt, tick, live, requests, crashes, overlaps>>

\* The temporary file is written, or what another thread has made of it.
WriteDone(s) ==
    LET p == Process(s)
        out == thread[s].out
    IN  /\ At(s, "write")
        /\ Becomes(s, [thread[s] EXCEPT !.step = "replace", !.out = "tmp"])
        /\ IF out = "tmp"
           THEN \E c \in Written(tmp[p], thread[s].copy) : tmp' = [tmp EXCEPT ![p] = c]
           ELSE UNCHANGED tmp
        /\ IF out = "file" THEN file' \in Written(file, thread[s].copy) ELSE UNCHANGED file
        /\ UNCHANGED <<ckpt, tick, live, requests, crashes, overlaps>>

\* The file a thread is writing, after p has renamed its temporary file.
Renamed(t, p) ==
    IF ~At(t, "write") THEN thread[t].out
    ELSE IF thread[t].out = "file" THEN "gone"
    ELSE IF thread[t].out = "tmp" /\ Process(t) = p THEN "file"
    ELSE thread[t].out

\* os.replace.  The temporary file is there unless another thread of the process
\* has renamed it already: then record raises and the step ends.
Replace(s) ==
    LET p == Process(s)
    IN  /\ At(s, "replace")
        /\ IF tmp[p] = NoFile
           THEN Becomes(s, Idle) /\ UNCHANGED <<file, tmp>>
           ELSE /\ file' = tmp[p]
                /\ tmp' = [tmp EXCEPT ![p] = NoFile]
                /\ thread' = [t \in Threads |->
                                IF t = s THEN Continues(thread[s])
                                ELSE [thread[t] EXCEPT !.out = Renamed(t, p)]]
        /\ UNCHANGED <<ckpt, tick, live, requests, crashes, overlaps>>

-----------------------------------------------------------------------------
(* The rest of the world *)

PricesMove(a) ==
    /\ live' = IF a \in live THEN live \ {a} ELSE live \cup {a}
    /\ UNCHANGED <<files, thread, tick, requests, crashes, overlaps>>

\* Kalshi drops the cursor in the checkpoint.  A sweep that has loaded it may still
\* have been answered in time.
CursorExpires ==
    /\ ckpt \in Positions /\ ckpt.k # 0 /\ ~ckpt.dead
    /\ ckpt' = [ckpt EXCEPT !.dead = TRUE]
    /\ UNCHANGED <<file, tmp, thread, tick, live, requests, crashes, overlaps>>

\* A process dies, and comes back with its loop at tick 0.
Crash(p) ==
    /\ crashes < MAX_CRASHES /\ crashes' = crashes + 1
    /\ thread' = [s \in Threads |-> IF Process(s) = p THEN Idle ELSE thread[s]]
    /\ tick' = [s \in Loops |-> IF Process(s) = p THEN 0 ELSE tick[s]]
    /\ UNCHANGED <<files, live, requests, overlaps>>

GoesOn(s) ==
    \/ SaveDone(s) \/ WriteDone(s) \/ Replace(s)
    \/ \E a \in Arbs : NoArb(s, a) \/ record(s, a)

DiscoveryNext ==
    \/ \E s \in Threads :
        BeginSweep(s) \/ BeginOther(s) \/ CrawlFails(s) \/ CrawlDone(s) \/ GoesOn(s)
    \/ \E a \in Arbs : PricesMove(a)
    \/ CursorExpires
    \/ \E p \in Processes : Crash(p)

DiscoverySpec == DiscoveryInit /\ [][DiscoveryNext]_vars

\* The loops tick for ever, steps go on, and venues that are asked again and again
\* with cursors that they know answer again and again.
FairDiscoverySpec ==
    /\ DiscoverySpec
    /\ \A s \in Loops : WF_vars(BeginSweep(s) \/ BeginOther(s))
    /\ \A s \in Threads : WF_vars(GoesOn(s)) /\ WF_vars(CrawlDone(s) \/ CrawlFails(s))
    /\ \A s \in Loops : SF_vars(CrawlDone(s))

-----------------------------------------------------------------------------
(* Properties *)

\* "Persisted atomically": readers never find a broken file, wherever a process
\* dies, unless two steps of one process, and so of one temporary file, record at
\* the same time.
StoreWhole == file \in {Empty, Torn} => "same" \in overlaps

\* "The store keeps everything forever": as long as no two steps use it at the
\* same time, no entry is ever lost, whoever dies and whenever.
KeepsEverything == [][Entries(file) \subseteq Entries(file') \/ overlaps # {}]_vars

Laps(pages) == (pages + LOOP_PAGES - 1) \div LOOP_PAGES

Coprime(m, n) == \A d \in 2..m : m % d # 0 \/ n % d # 0

\* A sweep of the loop may find more and better matches on the pages of this one than
\* it prices.
CrowdedOut(a) ==
    \E at \in Positions :
        a \in Matched(at, LOOP_PAGES) \ Best(Matched(at, LOOP_PAGES))

\* "Repeated calls walk the whole universe": a pair that stays an arbitrage is
\* recorded in the end and stays recorded, wherever its two pages are, although
\* the checkpoint moves on before the pages are matched, crashes lose what was
\* crawled or the checkpoint itself, and requests move it about.  But pages are
\* matched only if one step crawls both, so that the laps round the two listings
\* must have coprime lengths; better matches must leave it room; and nobody replaces
\* a checkpoint whose cursor Kalshi has dropped.
EveryArbRecorded ==
    Coprime(Laps(K_PAGES), Laps(P_PAGES)) =>
        \A a \in Arbs :
            ~CrowdedOut(a) /\ <>[](a \in live) =>
                <>[](a \in Entries(file)) \/ <>[](ckpt \in Positions /\ ckpt.dead)

=============================================================================
