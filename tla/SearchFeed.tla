----------------------------- MODULE SearchFeed -----------------------------
(***************************************************************************)
(* The relay's profile search (cli/relay/jobs/search.go,                   *)
(* cli/common/meilisearch).  nmilat's SearchIndexer (external) applies     *)
(* stored profile changes in order to the live Meilisearch index and moves *)
(* the feed's watermark; a rebuild job pauses it (Exclusive), builds every *)
(* stored profile into a second index, swaps the two and sets the          *)
(* watermark back.  Meilisearch (external) runs tasks one after another in *)
(* the order they were enqueued, whether or not anybody still waits for    *)
(* them.  A wait may be given up (a cancelled job, a lost connection), a   *)
(* document task may fail, the relay may crash, and the index may be       *)
(* removed behind its back.                                                *)
(***************************************************************************)
EXTENDS Naturals, Sequences, SequenceTheorems, FiniteSets, FiniteSetTheorems, TLAPS

CONSTANTS Profiles,
          MaxChanges,    \* bound: profile changes stored
          MaxInFlight,   \* SearchIndex.MaxInFlight
          MaxRebuilds,   \* bound: rebuild jobs
          MaxFaults      \* bound: faults of any kind

VARIABLES store,      \* [Profiles -> version stored, 0 if none]
          changes,    \* the store's feed: profiles in the order they changed
          watermark,  \* the feed's watermark, persisted
          known,      \* searchState identity, persisted; 0 if none
          idx,        \* Meilisearch: ["live", "next" -> [id, docs]], id 0 if missing
          made,       \* indexes created so far: identities
          tasks,      \* Meilisearch's queue
          bad,        \* owners one of whose tasks failed
          indexer,    \* "idle" or "waiting"
          job,        \* the rebuild: [pc, asked, from, left]
          rebuilds, faults

vars == <<store, changes, watermark, known, idx, made, tasks, bad, indexer, job, rebuilds, faults>>

meili == <<idx, made>>
relay == <<store, changes, watermark, known>>
Head0 == Len(changes)
NoDocs == [p \in Profiles |-> 0]
NoJob == [pc |-> "idle", asked |-> FALSE, from |-> 0, left |-> {}]

Init == /\ store \in [Profiles -> {0, 1}]
        /\ changes = <<>> /\ watermark = 0
        /\ known = 0
        /\ idx = [n \in {"live", "next"} |-> [id |-> 0, docs |-> NoDocs]]
        /\ made = 0
        /\ tasks = <<>> /\ bad = {}
        /\ indexer = "idle" /\ job = NoJob
        /\ rebuilds = 0 /\ faults = 0

----------------------------------------------------------------------------
Task(owner, op, name, p, v) == [owner |-> owner, op |-> op, name |-> name, p |-> p, v |-> v]
AnyP == CHOOSE p \in Profiles : TRUE
Upsert(owner, name, p) == Task(owner, "upsert", name, p, store[p])
Enqueue(t) == tasks' = Append(tasks, t)
Mine(owner) == Cardinality({i \in DOMAIN tasks : tasks[i].owner = owner})
Abandoned(owners) == [i \in DOMAIN tasks |->
                       IF tasks[i].owner \in owners THEN [tasks[i] EXCEPT !.owner = "nobody"] ELSE tasks[i]]

\* Meilisearch applies the oldest task.  Adding documents to a missing
\* index creates it; a swap needs both.
Created(name) == IF idx[name].id = 0 THEN [id |-> made + 1, docs |-> NoDocs] ELSE idx[name]

Applies(t) ==
    CASE t.op \in {"upsert", "create"} ->
           /\ idx' = [idx EXCEPT ![t.name] =
                        IF t.op = "create" THEN Created(t.name)
                        ELSE [Created(t.name) EXCEPT !.docs[t.p] = t.v]]
           /\ made' = IF idx[t.name].id = 0 THEN made + 1 ELSE made
           /\ UNCHANGED bad
      [] t.op = "remove" ->
           /\ idx' = [idx EXCEPT ![t.name] = [id |-> 0, docs |-> NoDocs]]
           /\ UNCHANGED <<made, bad>>
      [] t.op = "swap" ->
           IF idx["live"].id # 0 /\ idx["next"].id # 0
             THEN idx' = [n \in {"live", "next"} |-> IF n = "live" THEN idx["next"] ELSE idx["live"]]
                  /\ UNCHANGED <<made, bad>>
             ELSE bad' = bad \cup ({t.owner} \ {"nobody"}) /\ UNCHANGED meili

Engine ==
    /\ tasks # <<>> /\ tasks' = Tail(tasks)
    /\ \/ Applies(Head(tasks)) /\ UNCHANGED faults
       \/ /\ Head(tasks).op = "upsert" /\ faults < MaxFaults /\ faults' = faults + 1
          /\ bad' = bad \cup ({Head(tasks).owner} \ {"nobody"})
          /\ UNCHANGED meili
    /\ UNCHANGED <<relay, indexer, job, rebuilds>>

\* A profile is stored or deleted.
Stored(p) == /\ Head0 < MaxChanges
             /\ changes' = Append(changes, p)
             /\ store' \in {[store EXCEPT ![p] = Head0 + 2], [store EXCEPT ![p] = 0]}
             /\ UNCHANGED <<watermark, known, meili, tasks, bad, indexer, job, rebuilds, faults>>

----------------------------------------------------------------------------
\* The live indexer: the next change, as the store has it now; the
\* watermark moves once Meilisearch applied it, else it is retried.
IndexerSends == /\ indexer = "idle" /\ job.pc = "idle" /\ watermark < Head0
                /\ Enqueue(Upsert("indexer", "live", changes[watermark + 1]))
                /\ indexer' = "waiting"
                /\ UNCHANGED <<relay, meili, bad, job, rebuilds, faults>>

IndexerDone == /\ indexer = "waiting" /\ Mine("indexer") = 0
               /\ indexer' = "idle"
               /\ watermark' = IF "indexer" \in bad THEN watermark ELSE watermark + 1
               /\ bad' = bad \ {"indexer"}
               /\ UNCHANGED <<store, changes, known, meili, tasks, job, rebuilds, faults>>

IndexerGivesUp == /\ indexer = "waiting" /\ faults < MaxFaults /\ faults' = faults + 1
                  /\ indexer' = "idle"
                  /\ tasks' = Abandoned({"indexer"}) /\ bad' = bad \ {"indexer"}
                  /\ UNCHANGED <<relay, meili, job, rebuilds>>

----------------------------------------------------------------------------
\* Mutant: any index of the name will do.
StatusAnyIndex == IF idx["live"].id = 0 THEN "needs_rebuild" ELSE "ready"

\* SearchIndex.Status
Status == CASE idx["live"].id = 0     -> "needs_rebuild"
            [] known # idx["live"].id -> "needs_rebuild"
            [] OTHER                  -> "ready"

\* rebuild begins under Indexer.Exclusive: from is the store's head now.
Begin == /\ job.pc = "idle" /\ indexer = "idle" /\ rebuilds < MaxRebuilds
         /\ rebuilds' = rebuilds + 1
         /\ job' = [pc |-> "clear", asked |-> FALSE, from |-> Head0, left |-> Profiles]
         /\ UNCHANGED <<relay, meili, tasks, bad, indexer, faults>>

To(pc) == job' = [job EXCEPT !.pc = pc, !.asked = FALSE]

\* next.RemoveIndex and next.Initialize; after the build live.Initialize,
\* SwapWith and next.RemoveIndex: each is waited for before the following.
Steps == {"clear", "fresh", "ensure", "swap", "tidy"}
Following(pc) == CASE pc = "clear"  -> "fresh"
                   [] pc = "fresh"  -> "scan"
                   [] pc = "ensure" -> "swap"
                   [] pc = "swap"   -> "tidy"
                   [] pc = "tidy"   -> "mark"
Asks(pc) == CASE pc \in {"clear", "tidy"} -> Task("job", "remove", "next", AnyP, 0)
              [] pc = "fresh"            -> Task("job", "create", "next", AnyP, 0)
              [] pc = "ensure"           -> Task("job", "create", "live", AnyP, 0)
              [] pc = "swap"             -> Task("job", "swap", "live", AnyP, 0)

Call == /\ job.pc \in Steps /\ ~job.asked
        /\ Enqueue(Asks(job.pc))
        /\ job' = [job EXCEPT !.asked = TRUE]
        /\ UNCHANGED <<relay, meili, bad, indexer, rebuilds, faults>>

Returned == /\ job.asked /\ Mine("job") = 0 /\ "job" \notin bad
            /\ To(Following(job.pc))
            /\ UNCHANGED <<relay, meili, tasks, bad, indexer, rebuilds, faults>>

\* buildInto: each profile as it is read, at most MaxInFlight batches under
\* way (a batch is one profile); then every batch is settled.
Scan == /\ job.pc = "scan" /\ Mine("build") < MaxInFlight /\ "build" \notin bad
        /\ \E p \in job.left :
             /\ job' = [job EXCEPT !.left = @ \ {p}]
             /\ IF store[p] = 0 THEN UNCHANGED tasks ELSE Enqueue(Upsert("build", "next", p))
        /\ UNCHANGED <<relay, meili, bad, indexer, rebuilds, faults>>

Settled == job.left = {} /\ Mine("build") = 0 /\ "build" \notin bad

ScanDone == /\ job.pc = "scan" /\ Settled /\ To("ensure")
            /\ UNCHANGED <<relay, meili, tasks, bad, indexer, rebuilds, faults>>

\* A failed task, or a wait given up, ends the job; a failed build removes
\* its index.
Fails ==
    /\ job.pc # "idle"
    /\ \/ (IF job.pc = "scan" THEN "build" ELSE "job") \in bad /\ UNCHANGED faults
       \/ faults < MaxFaults /\ faults' = faults + 1
    /\ tasks' = Abandoned({"job", "build"}) \o (IF job.pc = "scan" THEN <<Task("nobody", "remove", "next", AnyP, 0)>> ELSE <<>>)
    /\ bad' = bad \ {"job", "build"}
    /\ job' = NoJob
    /\ UNCHANGED <<relay, meili, indexer, rebuilds>>

\* Mutant: the watermark is set to the store's head after the build.
MarkedNow == Head0

\* SetFeedWatermark(from), then Identity and remember.
Marked == job.from

Mark == /\ job.pc = "mark" /\ watermark' = Marked /\ To("remember")
        /\ UNCHANGED <<store, changes, known, meili, tasks, bad, indexer, rebuilds, faults>>

Remember == /\ job.pc = "remember"
            /\ known' = idx["live"].id
            /\ job' = NoJob
            /\ UNCHANGED <<store, changes, watermark, meili, tasks, bad, indexer, rebuilds, faults>>

----------------------------------------------------------------------------
\* The relay crashes and starts again; the live index is removed.
Crash == /\ faults < MaxFaults /\ faults' = faults + 1
         /\ tasks' = Abandoned({"indexer", "job", "build"})
         /\ bad' = {} /\ indexer' = "idle" /\ job' = NoJob
         /\ UNCHANGED <<relay, meili, rebuilds>>

Removed == /\ faults < MaxFaults /\ faults' = faults + 1
           /\ idx["live"].id # 0
           /\ Enqueue(Task("nobody", "remove", "live", AnyP, 0))
           /\ UNCHANGED <<relay, meili, bad, indexer, job, rebuilds>>

Next == \/ Engine \/ \E p \in Profiles : Stored(p)
        \/ IndexerSends \/ IndexerDone \/ IndexerGivesUp
        \/ Begin \/ Call \/ Returned \/ Scan \/ ScanDone \/ Fails \/ Mark \/ Remember
        \/ Crash \/ Removed

Spec == Init /\ [][Next]_vars

----------------------------------------------------------------------------
(***************************************************************************)
(* When the index reports ready, nothing is under way and the feed is      *)
(* caught up, searching finds exactly the stored profiles as they are      *)
(* stored: no change made during a rebuild, and no failure, crash or       *)
(* abandoned task, loses one (rebuild, buildInto, Status, remember).       *)
(***************************************************************************)
ReadyIsComplete ==
    (Status = "ready" /\ job = NoJob /\ indexer = "idle" /\ tasks = <<>> /\ watermark = Head0)
        => idx["live"].docs = store

----------------------------------------------------------------------------
(* Proof of ReadyIsComplete, for any profiles, changes, rebuilds and faults *)

TaskType == [owner : {"indexer", "job", "build", "nobody"},
             op : {"upsert", "create", "remove", "swap"}, name : {"live", "next"},
             p : Profiles \cup {AnyP}, v : Nat]

FeedTypes ==
    /\ store \in [Profiles -> Nat] /\ changes \in Seq(Profiles) /\ watermark \in 0..Len(changes)
    /\ known \in Nat /\ made \in Nat /\ known <= made
    /\ idx \in [{"live", "next"} -> [id : Nat, docs : [Profiles -> Nat]]]
    /\ tasks \in Seq(TaskType) /\ bad \subseteq {"indexer", "job", "build"}
    /\ indexer \in {"idle", "waiting"}
    /\ job \in [pc : Steps \cup {"idle", "scan", "mark", "remember"}, asked : BOOLEAN,
                from : 0..Len(changes), left : SUBSET Profiles]

ChangedSince(p, n) == \E k \in n + 1..Len(changes) : changes[k] = p

\* v is the profile as stored, or the feed has a change of it after its n-th.
UpToDate(v, p, n) == v = store[p] \/ ChangedSince(p, n)

RemovesLive(t) == t.op = "remove" /\ t.name = "live"
RemovesNext(t) == t.op = "remove" /\ t.name = "next"
UpsertsLive(t) == t.op = "upsert" /\ t.name = "live"
Pending(owner) == \E i \in DOMAIN tasks : tasks[i].owner = owner

\* Identities are never used twice, and an index that does not exist is empty.
Identities ==
    /\ \A n \in {"live", "next"} : idx[n].id <= made /\ (idx[n].id = 0 => idx[n].docs = NoDocs)
    /\ idx["live"].id = idx["next"].id => idx["live"].id = 0

\* What is queued: the indexer's change, the job's call, the scan's profiles,
\* and what was abandoned; a profile about to be written live is still due.
QueuedAt(i) ==
    /\ tasks[i].op = "upsert" => tasks[i].p \in Profiles
    /\ UpsertsLive(tasks[i]) => ChangedSince(tasks[i].p, watermark)
    /\ tasks[i].owner = "indexer" =>
          /\ indexer = "waiting" /\ UpsertsLive(tasks[i]) /\ tasks[i].p = changes[watermark + 1]
          /\ UpToDate(tasks[i].v, tasks[i].p, watermark + 1)
    /\ tasks[i].owner = "job" => job.asked /\ tasks[i] = Asks(job.pc)
    /\ tasks[i].owner = "build" =>
          /\ job.pc = "scan" /\ tasks[i].op = "upsert" /\ tasks[i].name = "next" /\ tasks[i].p \notin job.left
          /\ UpToDate(tasks[i].v, tasks[i].p, job.from)
Queued == \A i \in DOMAIN tasks : QueuedAt(i)

\* The indexer is paused while a rebuild runs, and what is queued behind a call
\* that is waited for can only be a removal of the live index.
Turns ==
    /\ indexer = "waiting" => job.pc = "idle" /\ watermark < Len(changes)
    /\ job.asked => job.pc \in Steps
    /\ job.pc \in {"clear", "fresh"} => job.left = Profiles
    /\ indexer = "waiting" => \A i \in DOMAIN tasks : RemovesLive(tasks[i])
          \/ \E j \in i..Len(tasks) : tasks[j].owner = "indexer"
    /\ job.pc = "clear" /\ job.asked => \A i \in DOMAIN tasks : RemovesLive(tasks[i])
          \/ \E j \in i..Len(tasks) : tasks[j].owner = "job"
    /\ job.pc \notin {"idle", "clear"} =>
          \A i \in DOMAIN tasks : RemovesLive(tasks[i]) \/ tasks[i].owner \in {"job", "build"}

\* The index the relay knows does not come back once it was swapped out: the
\* other index is removed before the next swap.
SwapsApart ==
    /\ \A i, k \in DOMAIN tasks : i < k /\ tasks[i].op = "swap" /\ tasks[k].op = "swap" =>
          \E j \in i + 1..k - 1 : RemovesNext(tasks[j])
    /\ known # 0 /\ idx["next"].id = known =>
          \A k \in DOMAIN tasks : tasks[k].op = "swap" => \E j \in 1..k - 1 : RemovesNext(tasks[j])

\* The index the relay knows has every profile, but for the changes due.
KnownComplete ==
    known # 0 /\ idx["live"].id = known =>
        /\ \A p \in Profiles : UpToDate(idx["live"].docs[p], p, watermark)
        /\ indexer = "waiting" /\ ~Pending("indexer") /\ "indexer" \notin bad =>
              UpToDate(idx["live"].docs[changes[watermark + 1]], changes[watermark + 1], watermark + 1)

NextIsNew == idx["next"].id = 0 \/ idx["next"].id # known

\* What a rebuild has done at each of its steps.
Built ==
    /\ job.pc = "clear" /\ job.asked /\ ~Pending("job") => idx["next"].id = 0
    /\ job.pc = "fresh" => NextIsNew /\ idx["next"].docs = NoDocs
    /\ job.pc = "scan" =>
          /\ NextIsNew /\ \A p \in job.left : idx["next"].docs[p] = 0
          /\ \A p \in Profiles \ job.left :
                \/ UpToDate(idx["next"].docs[p], p, job.from) \/ "build" \in bad
                \/ \E i \in DOMAIN tasks : tasks[i].owner = "build" /\ tasks[i].p = p
    /\ job.pc = "ensure" \/ (job.pc = "swap" /\ (job.asked => Pending("job"))) =>
          NextIsNew /\ \A p \in Profiles : UpToDate(idx["next"].docs[p], p, job.from)

\* And after the swap.
SwapDone == \/ job.pc = "swap" /\ job.asked /\ ~Pending("job") /\ "job" \notin bad
            \/ job.pc \in {"tidy", "mark", "remember"}

Swapped ==
    /\ SwapDone => \/ idx["live"].id = 0
                   \/ /\ idx["live"].id # known
                      /\ \A p \in Profiles : UpToDate(idx["live"].docs[p], p, job.from)
    /\ job.pc = "remember" => watermark = job.from

FeedInv ==
    /\ FeedTypes /\ Identities /\ Queued /\ Turns /\ SwapsApart /\ KnownComplete /\ Built /\ Swapped

\* Nothing of an owner's is queued once the owner's count is zero.
LEMMA MineNone ==
    ASSUME tasks \in Seq(TaskType), NEW o, Mine(o) = 0
    PROVE  ~Pending(o)
<1>1. IsFiniteSet({i \in DOMAIN tasks : tasks[i].owner = o})
    <2>1. DOMAIN tasks = 1..Len(tasks) /\ Len(tasks) \in Nat BY LenProperties
    <2>2. IsFiniteSet(1..Len(tasks)) BY <2>1, FS_Interval
    <2> QED BY <2>1, <2>2, FS_Subset
<1>2. {i \in DOMAIN tasks : tasks[i].owner = o} = {} BY <1>1, FS_EmptySet DEF Mine
<1> QED BY <1>2 DEF Pending

\* Abandoning tasks changes nothing but whose they are.
LEMMA AbandonedTasks ==
    ASSUME tasks \in Seq(TaskType), NEW owners
    PROVE  /\ Abandoned(owners) \in Seq(TaskType) /\ Len(Abandoned(owners)) = Len(tasks)
           /\ \A i \in 1..Len(tasks) :
                /\ Abandoned(owners)[i].op = tasks[i].op /\ Abandoned(owners)[i].name = tasks[i].name
                /\ Abandoned(owners)[i].p = tasks[i].p /\ Abandoned(owners)[i].v = tasks[i].v
                /\ Abandoned(owners)[i].owner = IF tasks[i].owner \in owners THEN "nobody" ELSE tasks[i].owner
                /\ tasks[i].owner \notin owners => Abandoned(owners)[i] = tasks[i]
<1>1. DOMAIN tasks = 1..Len(tasks) /\ Len(tasks) \in Nat /\ \A i \in 1..Len(tasks) : tasks[i] \in TaskType
    BY LenProperties, ElementOfSeq
<1>2. \A i \in 1..Len(tasks) : [tasks[i] EXCEPT !.owner = "nobody"] \in TaskType
    BY <1>1 DEF TaskType
<1>3. Abandoned(owners) \in [1..Len(tasks) -> TaskType]
    BY <1>1, <1>2 DEF Abandoned
<1>4. Abandoned(owners) \in Seq(TaskType) /\ Len(Abandoned(owners)) = Len(tasks)
    BY <1>1, <1>3, SeqDef, LenProperties
<1>5. ASSUME NEW i \in 1..Len(tasks)
      PROVE  Abandoned(owners)[i] = IF tasks[i].owner \in owners THEN [tasks[i] EXCEPT !.owner = "nobody"] ELSE tasks[i]
    BY <1>1 DEF Abandoned
<1> QED BY <1>1, <1>4, <1>5 DEF TaskType

\* A task goes to the end of Meilisearch's queue.
LEMMA Enqueued ==
    ASSUME tasks \in Seq(TaskType), NEW t \in TaskType, Enqueue(t)
    PROVE  /\ tasks' \in Seq(TaskType) /\ Len(tasks') = Len(tasks) + 1
           /\ \A i \in 1..Len(tasks) : tasks'[i] = tasks[i]
           /\ tasks'[Len(tasks) + 1] = t
           /\ DOMAIN tasks' = 1..Len(tasks) + 1 /\ DOMAIN tasks = 1..Len(tasks) /\ Len(tasks) \in Nat
BY AppendProperties, LenProperties DEF Enqueue

\* Swaps stay apart where the queue and the two indexes are left alone.
LEMMA SwapsStay ==
    ASSUME SwapsApart, UNCHANGED <<known, idx, tasks>>
    PROVE  SwapsApart'
BY DEF SwapsApart, RemovesNext

\* Any other task may be queued without bringing a swap forward.
LEMMA NoSwapQueued ==
    ASSUME FeedInv, UNCHANGED <<known, idx>>, NEW t \in TaskType, Enqueue(t), t.op # "swap"
    PROVE  SwapsApart'
<1>1. /\ Len(tasks) \in Nat /\ DOMAIN tasks = 1..Len(tasks) /\ DOMAIN tasks' = 1..Len(tasks) + 1
      /\ \A i \in 1..Len(tasks) : tasks'[i] = tasks[i]
      /\ tasks'[Len(tasks) + 1] = t
    BY Enqueued DEF FeedInv, FeedTypes
<1>2. ASSUME NEW k \in DOMAIN tasks', tasks'[k].op = "swap" PROVE k \in 1..Len(tasks)
    <2>1. k # Len(tasks) + 1 BY <1>1, <1>2
    <2> QED BY <1>1, <2>1
<1>3. ASSUME NEW i \in DOMAIN tasks', NEW k \in DOMAIN tasks', i < k, tasks'[i].op = "swap", tasks'[k].op = "swap"
      PROVE  \E j \in i + 1..k - 1 : RemovesNext(tasks'[j])
    <2>1. i \in 1..Len(tasks) /\ k \in 1..Len(tasks) BY <1>2, <1>3
    <2>2. PICK j \in i + 1..k - 1 : RemovesNext(tasks[j]) BY <1>1, <1>3, <2>1 DEF FeedInv, SwapsApart
    <2> QED BY <1>1, <2>1, <2>2
<1>4. ASSUME known # 0, idx["next"].id = known, NEW k \in DOMAIN tasks', tasks'[k].op = "swap"
      PROVE  \E j \in 1..k - 1 : RemovesNext(tasks'[j])
    <2>1. k \in 1..Len(tasks) BY <1>2, <1>4
    <2>2. PICK j \in 1..k - 1 : RemovesNext(tasks[j]) BY <1>1, <1>4, <2>1 DEF FeedInv, SwapsApart
    <2> QED BY <1>1, <2>1, <2>2
<1> QED BY <1>3, <1>4 DEF SwapsApart, RemovesNext

\* Removed: the live index is removed behind the relay's back.
LEMMA RemovedStep == ASSUME FeedInv, Removed PROVE FeedInv'
<1> DEFINE t == Task("nobody", "remove", "live", AnyP, 0)
<1>1. t \in TaskType BY DEF TaskType, Task
<1>2. /\ tasks' \in Seq(TaskType) /\ Len(tasks') = Len(tasks) + 1
      /\ \A i \in 1..Len(tasks) : tasks'[i] = tasks[i]
      /\ tasks'[Len(tasks) + 1] = t
      /\ DOMAIN tasks' = 1..Len(tasks) + 1 /\ DOMAIN tasks = 1..Len(tasks) /\ Len(tasks) \in Nat
    BY <1>1, Enqueued DEF FeedInv, FeedTypes, Removed
<1>4. /\ t.owner = "nobody" /\ t.op = "remove" /\ t.name = "live" BY DEF Task
<1> HIDE DEF t
<1>5. UNCHANGED <<store, changes, watermark, known, idx, made, bad, indexer, job>>
    BY DEF Removed, relay, meili
<1>6. FeedTypes' BY <1>2, <1>5 DEF FeedInv, FeedTypes, TaskType
<1>7. Identities' BY <1>5 DEF FeedInv, Identities
<1>8. Queued'
    <2>1. Asks(job.pc)' = Asks(job.pc) BY <1>5 DEF Asks, Task
    <2>2. ASSUME NEW i \in 1..Len(tasks) PROVE QueuedAt(i)'
        BY <1>2, <1>5, <2>1 DEF FeedInv, Queued, QueuedAt, ChangedSince, UpToDate, UpsertsLive
    <2>3. ASSUME NEW i, i = Len(tasks) + 1 PROVE QueuedAt(i)'
        BY <1>2, <1>4, <2>3 DEF QueuedAt, UpsertsLive
    <2> QED BY <1>2, <2>2, <2>3 DEF Queued
<1>9. Turns' BY <1>2, <1>4, <1>5 DEF FeedInv, Turns, RemovesLive
<1>10. SwapsApart' BY <1>1, <1>4, <1>5, NoSwapQueued DEF Removed, t
<1>11. \A o : o # "nobody" => Pending(o)' = Pending(o) BY <1>2, <1>4 DEF Pending
<1>12. KnownComplete' BY <1>5, <1>11 DEF FeedInv, KnownComplete, UpToDate, ChangedSince
<1>13. Built' BY <1>2, <1>4, <1>5, <1>11 DEF FeedInv, Built, NextIsNew, UpToDate, ChangedSince
<1>14. Swapped' BY <1>5, <1>11 DEF FeedInv, Swapped, SwapDone, UpToDate, ChangedSince
<1> QED BY <1>6, <1>7, <1>8, <1>9, <1>10, <1>12, <1>13, <1>14 DEF FeedInv

\* Begin: a rebuild pauses the indexer and remembers the feed's head.
LEMMA BeginStep == ASSUME FeedInv, Begin PROVE FeedInv'
<1>1. /\ UNCHANGED <<store, changes, watermark, known, idx, made, tasks, bad, indexer>>
      /\ job.pc = "idle" /\ indexer = "idle"
    BY DEF Begin, relay, meili
<1>2. job'.pc = "clear" /\ job'.asked = FALSE /\ job'.from = Len(changes) /\ job'.left = Profiles
    BY DEF Begin, Head0
<1>3. FeedTypes'
    <2>1. Len(changes) \in Nat BY LenProperties DEF FeedInv, FeedTypes
    <2>2. job' \in [pc : Steps \cup {"idle", "scan", "mark", "remember"}, asked : BOOLEAN,
                    from : 0..Len(changes), left : SUBSET Profiles]
        BY <2>1 DEF Begin, Head0, Steps
    <2> QED BY <1>1, <2>2 DEF FeedInv, FeedTypes, TaskType, AnyP, Steps
<1>4. Identities' BY <1>1 DEF FeedInv, Identities
<1>5. Queued'
    <2>1. \A i \in DOMAIN tasks : tasks[i].owner \notin {"job", "build", "indexer"}
        BY <1>1 DEF FeedInv, Queued, QueuedAt, Turns, Steps
    <2> QED BY <1>1, <2>1 DEF FeedInv, Queued, QueuedAt, UpsertsLive, ChangedSince
<1>6. Turns' BY <1>1, <1>2 DEF FeedInv, Turns, Steps
<1>7. SwapsApart' BY <1>1, SwapsStay DEF FeedInv
<1>8. KnownComplete' BY <1>1 DEF FeedInv, KnownComplete, UpToDate, ChangedSince
<1>9. Built' BY <1>1, <1>2 DEF Built
<1>10. Swapped' BY <1>1, <1>2 DEF Swapped, SwapDone
<1> QED BY <1>3, <1>4, <1>5, <1>6, <1>7, <1>8, <1>9, <1>10 DEF FeedInv

\* Returned: a call of the rebuild that was waited for has been applied.
LEMMA ReturnedStep == ASSUME FeedInv, Returned PROVE FeedInv'
<1>1. /\ UNCHANGED <<store, changes, watermark, known, idx, made, tasks, bad, indexer>>
      /\ job.asked /\ job.pc \in Steps /\ "job" \notin bad /\ indexer = "idle"
    BY DEF Returned, relay, meili, FeedInv, FeedTypes, Turns, Steps
<1>2. ~Pending("job") BY MineNone DEF Returned, FeedInv, FeedTypes
<1>3. /\ job' \in [pc : Steps \cup {"idle", "scan", "mark", "remember"}, asked : BOOLEAN,
                   from : 0..Len(changes), left : SUBSET Profiles]
      /\ job'.pc = Following(job.pc) /\ job'.asked = FALSE /\ job'.from = job.from /\ job'.left = job.left
    BY <1>1 DEF Returned, To, Following, Steps, FeedInv, FeedTypes
<1>4. FeedTypes' BY <1>1, <1>3 DEF FeedInv, FeedTypes, TaskType, AnyP, Steps
<1>5. Identities' BY <1>1 DEF FeedInv, Identities
<1>6. \A i \in DOMAIN tasks : tasks[i].owner \notin {"job", "build", "indexer"}
    BY <1>1, <1>2 DEF FeedInv, Queued, QueuedAt, Pending, Steps
<1>7. Queued' BY <1>1, <1>6 DEF FeedInv, Queued, QueuedAt, UpsertsLive, ChangedSince, UpToDate
<1>8. Turns'
    <2>1. DOMAIN tasks = 1..Len(tasks) /\ Len(tasks) \in Nat BY LenProperties DEF FeedInv, FeedTypes
    <2>2. CASE job.pc = "clear"
        BY <1>1, <1>2, <1>3, <2>1, <2>2 DEF FeedInv, Turns, Pending, RemovesLive, Following, Steps
    <2>3. CASE job.pc # "clear"
        BY <1>1, <1>3, <1>6, <2>3 DEF FeedInv, Turns, RemovesLive, Following, Steps
    <2> QED BY <2>2, <2>3
<1>9. SwapsApart' BY <1>1, SwapsStay DEF FeedInv
<1>10. KnownComplete' BY <1>1 DEF FeedInv, KnownComplete, UpToDate, ChangedSince
<1>11. Built'
    <2>1. CASE job.pc = "clear"
        BY <1>1, <1>2, <1>3, <2>1 DEF FeedInv, Built, NextIsNew, Following, Identities
    <2>2. CASE job.pc = "fresh"
        BY <1>1, <1>2, <1>3, <2>2 DEF FeedInv, Built, NextIsNew, Following, NoDocs, Turns
    <2>3. CASE job.pc = "ensure"
        BY <1>1, <1>2, <1>3, <2>3 DEF FeedInv, Built, NextIsNew, Following, UpToDate, ChangedSince
    <2>4. CASE job.pc \in {"swap", "tidy"}
        BY <1>1, <1>2, <1>3, <2>4 DEF Built, Following
    <2> QED BY <1>1, <2>1, <2>2, <2>3, <2>4 DEF Steps
<1>12. Swapped'
    <2>1. CASE job.pc \in {"swap", "tidy"}
        BY <1>1, <1>2, <1>3, <2>1 DEF FeedInv, Swapped, SwapDone, Following, UpToDate, ChangedSince
    <2>2. CASE job.pc \notin {"swap", "tidy"}
        BY <1>1, <1>3, <2>2 DEF Swapped, SwapDone, Following, Steps
    <2> QED BY <2>1, <2>2
<1> QED BY <1>4, <1>5, <1>7, <1>8, <1>9, <1>10, <1>11, <1>12 DEF FeedInv

\* ScanDone: every batch of the build has settled.
LEMMA ScanDoneStep == ASSUME FeedInv, ScanDone PROVE FeedInv'
<1>1. /\ UNCHANGED <<store, changes, watermark, known, idx, made, tasks, bad, indexer>>
      /\ job.pc = "scan" /\ job.left = {} /\ "build" \notin bad /\ indexer = "idle" /\ ~job.asked
    BY DEF ScanDone, Settled, relay, meili, FeedInv, FeedTypes, Turns, Steps
<1>2. ~Pending("build") BY MineNone DEF ScanDone, Settled, FeedInv, FeedTypes
<1>3. /\ job' \in [pc : Steps \cup {"idle", "scan", "mark", "remember"}, asked : BOOLEAN,
                   from : 0..Len(changes), left : SUBSET Profiles]
      /\ job'.pc = "ensure" /\ job'.asked = FALSE /\ job'.from = job.from /\ job'.left = job.left
    BY DEF ScanDone, To, Steps, FeedInv, FeedTypes
<1>4. FeedTypes' BY <1>1, <1>3 DEF FeedInv, FeedTypes, TaskType, AnyP, Steps
<1>5. Identities' BY <1>1 DEF FeedInv, Identities
<1>6. \A i \in DOMAIN tasks : tasks[i].owner \notin {"job", "build", "indexer"}
    BY <1>1, <1>2 DEF FeedInv, Queued, QueuedAt, Pending
<1>7. Queued' BY <1>1, <1>6 DEF FeedInv, Queued, QueuedAt, UpsertsLive, ChangedSince
<1>8. Turns' BY <1>1, <1>3 DEF FeedInv, Turns, RemovesLive, Steps
<1>9. SwapsApart' BY <1>1, SwapsStay DEF FeedInv
<1>10. KnownComplete' BY <1>1 DEF FeedInv, KnownComplete, UpToDate, ChangedSince
<1>11. Built' BY <1>1, <1>2, <1>3 DEF FeedInv, Built, NextIsNew, Pending, UpToDate, ChangedSince
<1>12. Swapped' BY <1>3 DEF Swapped, SwapDone
<1> QED BY <1>4, <1>5, <1>7, <1>8, <1>9, <1>10, <1>11, <1>12 DEF FeedInv

\* Past the swap nothing is queued but removals of the live index.
LEMMA AfterSwap ==
    ASSUME FeedInv, job.pc \in {"mark", "remember"}
    PROVE  \A i \in DOMAIN tasks : RemovesLive(tasks[i]) /\ tasks[i].owner \notin {"job", "build", "indexer"}
BY DEF FeedInv, FeedTypes, Queued, QueuedAt, Turns, Steps

\* Mark: the watermark goes back to where the rebuild began.
LEMMA MarkStep == ASSUME FeedInv, Mark PROVE FeedInv'
<1>1. /\ UNCHANGED <<store, changes, known, idx, made, tasks, bad, indexer>>
      /\ watermark' = job.from /\ job.pc = "mark" /\ indexer = "idle"
    BY DEF Mark, Marked, meili, FeedInv, FeedTypes, Turns
<1>2. /\ job' \in [pc : Steps \cup {"idle", "scan", "mark", "remember"}, asked : BOOLEAN,
                   from : 0..Len(changes), left : SUBSET Profiles]
      /\ job'.pc = "remember" /\ job'.asked = FALSE /\ job'.from = job.from
    BY DEF Mark, To, Steps, FeedInv, FeedTypes
<1>3. \A i \in DOMAIN tasks : RemovesLive(tasks[i]) /\ tasks[i].owner \notin {"job", "build", "indexer"}
    BY <1>1, AfterSwap
<1>4. FeedTypes' BY <1>1, <1>2 DEF FeedInv, FeedTypes, TaskType, AnyP, Steps
<1>5. Identities' BY <1>1 DEF FeedInv, Identities
<1>6. Queued' BY <1>1, <1>3 DEF Queued, QueuedAt, UpsertsLive, RemovesLive
<1>7. Turns' BY <1>1, <1>2, <1>3 DEF Turns, RemovesLive
<1>8. SwapsApart' BY <1>1, SwapsStay DEF FeedInv
<1>9. KnownComplete' BY <1>1 DEF FeedInv, KnownComplete, Swapped, SwapDone
<1>10. Built' BY <1>2 DEF Built
<1>11. Swapped' BY <1>1, <1>2 DEF FeedInv, Swapped, SwapDone, UpToDate, ChangedSince
<1> QED BY <1>4, <1>5, <1>6, <1>7, <1>8, <1>9, <1>10, <1>11 DEF FeedInv

\* Remember: the index that is live now is the one the relay knows.
LEMMA RememberStep == ASSUME FeedInv, Remember PROVE FeedInv'
<1>1. /\ UNCHANGED <<store, changes, watermark, idx, made, tasks, bad, indexer>>
      /\ known' = idx["live"].id /\ job.pc = "remember" /\ indexer = "idle"
    BY DEF Remember, meili, FeedInv, FeedTypes, Turns
<1>2. job' = NoJob BY DEF Remember
<1>3. \A i \in DOMAIN tasks : RemovesLive(tasks[i]) /\ tasks[i].owner \notin {"job", "build", "indexer"}
    BY <1>1, AfterSwap
<1>4. FeedTypes'
    <2>1. NoJob \in [pc : Steps \cup {"idle", "scan", "mark", "remember"}, asked : BOOLEAN,
                     from : 0..Len(changes), left : SUBSET Profiles]
        BY LenProperties DEF NoJob, FeedInv, FeedTypes
    <2> QED BY <1>1, <1>2, <2>1 DEF FeedInv, FeedTypes, Identities, TaskType, AnyP, Steps
<1>5. Identities' BY <1>1 DEF FeedInv, Identities
<1>6. Queued' BY <1>1, <1>3 DEF Queued, QueuedAt, UpsertsLive, RemovesLive
<1>7. Turns' BY <1>1, <1>2 DEF Turns, NoJob
<1>8. SwapsApart' BY <1>1 DEF FeedInv, SwapsApart, RemovesNext, Identities
<1>9. KnownComplete' BY <1>1 DEF FeedInv, KnownComplete, Swapped, SwapDone, UpToDate, ChangedSince
<1>10. Built' BY <1>2 DEF Built, NoJob
<1>11. Swapped' BY <1>2 DEF Swapped, SwapDone, NoJob
<1> QED BY <1>4, <1>5, <1>6, <1>7, <1>8, <1>9, <1>10, <1>11 DEF FeedInv

\* Call: the rebuild asks Meilisearch for its next step.
LEMMA CallStep == ASSUME FeedInv, Call PROVE FeedInv'
<1> DEFINE t == Asks(job.pc)
<1>1. /\ UNCHANGED <<store, changes, watermark, known, idx, made, bad, indexer>>
      /\ job.pc \in Steps /\ ~job.asked /\ indexer = "idle"
    BY DEF Call, relay, meili, FeedInv, FeedTypes, Turns, Steps
<1>2. /\ t \in TaskType /\ t.owner = "job" /\ t.op # "upsert"
      /\ t.op = "swap" => job.pc = "swap"
    BY <1>1 DEF Asks, Task, TaskType, Steps
<1>3. /\ job' \in [pc : Steps \cup {"idle", "scan", "mark", "remember"}, asked : BOOLEAN,
                   from : 0..Len(changes), left : SUBSET Profiles]
      /\ job'.pc = job.pc /\ job'.asked = TRUE /\ job'.from = job.from /\ job'.left = job.left
    BY DEF Call, FeedInv, FeedTypes
<1>4. Asks(job.pc)' = t BY <1>3 DEF Asks, Task
<1> HIDE DEF t
<1>5. /\ tasks' \in Seq(TaskType) /\ Len(tasks') = Len(tasks) + 1
      /\ \A i \in 1..Len(tasks) : tasks'[i] = tasks[i]
      /\ tasks'[Len(tasks) + 1] = t
      /\ DOMAIN tasks' = 1..Len(tasks) + 1 /\ DOMAIN tasks = 1..Len(tasks) /\ Len(tasks) \in Nat
    BY <1>2, Enqueued DEF FeedInv, FeedTypes, Call, t
<1>6. \A i \in 1..Len(tasks) : tasks[i].owner \notin {"job", "build", "indexer"}
    BY <1>1, <1>5 DEF FeedInv, Queued, QueuedAt, Steps
<1>7. FeedTypes' BY <1>1, <1>3, <1>5 DEF FeedInv, FeedTypes, TaskType, AnyP, Steps
<1>8. Identities' BY <1>1 DEF FeedInv, Identities
<1>9. Queued'
    <2>1. ASSUME NEW i \in 1..Len(tasks) PROVE QueuedAt(i)'
        BY <1>1, <1>5, <1>6 DEF FeedInv, Queued, QueuedAt, UpsertsLive, ChangedSince
    <2>2. ASSUME NEW i, i = Len(tasks) + 1 PROVE QueuedAt(i)'
        BY <1>2, <1>3, <1>4, <1>5, <2>2 DEF QueuedAt, UpsertsLive
    <2> QED BY <1>5, <2>1, <2>2 DEF Queued
<1>10. Turns' BY <1>1, <1>2, <1>3, <1>5 DEF FeedInv, Turns, RemovesLive
<1>11. SwapsApart'
    <2>1. CASE t.op # "swap"
        BY <1>1, <1>2, <2>1, NoSwapQueued DEF Call, t
    <2>2. CASE t.op = "swap"
        <3>1. \A i \in 1..Len(tasks) : tasks[i].op # "swap"
            BY <1>2, <1>5, <1>6, <2>2 DEF FeedInv, Turns, RemovesLive
        <3>2. known = 0 \/ idx["next"].id # known
            BY <1>1, <1>2, <2>2 DEF FeedInv, Built, NextIsNew
        <3> QED BY <1>1, <1>5, <3>1, <3>2 DEF SwapsApart
    <2> QED BY <2>1, <2>2
<1>12. Pending("job")' BY <1>2, <1>5 DEF Pending
<1>13. KnownComplete' BY <1>1 DEF FeedInv, KnownComplete, UpToDate, ChangedSince
<1>14. Built' BY <1>1, <1>3, <1>12 DEF FeedInv, Built, NextIsNew, Steps, UpToDate, ChangedSince
<1>15. Swapped' BY <1>1, <1>3, <1>12 DEF FeedInv, Swapped, SwapDone, Steps, UpToDate, ChangedSince
<1> QED BY <1>7, <1>8, <1>9, <1>10, <1>11, <1>13, <1>14, <1>15 DEF FeedInv

\* IndexerSends: the next change of the feed goes to the live index.
LEMMA IndexerSendsStep == ASSUME FeedInv, IndexerSends PROVE FeedInv'
<1> DEFINE c == changes[watermark + 1]
           t == Upsert("indexer", "live", c)
<1>1. /\ UNCHANGED <<store, changes, watermark, known, idx, made, bad, job>>
      /\ job.pc = "idle" /\ ~job.asked /\ indexer = "idle" /\ indexer' = "waiting" /\ watermark < Len(changes)
    BY DEF IndexerSends, relay, meili, Head0, FeedInv, Turns, Steps
<1>2. watermark + 1 \in 1..Len(changes) /\ c \in Profiles /\ store[c] \in Nat
    BY <1>1, LenProperties, ElementOfSeq DEF FeedInv, FeedTypes
<1>3. /\ t \in TaskType /\ t.owner = "indexer" /\ t.op = "upsert" /\ t.name = "live" /\ t.p = c /\ t.v = store[c]
    BY <1>2 DEF Upsert, Task, TaskType
<1>4. Enqueue(t) BY DEF IndexerSends
<1> HIDE DEF t
<1>5. /\ tasks' \in Seq(TaskType) /\ Len(tasks') = Len(tasks) + 1
      /\ \A i \in 1..Len(tasks) : tasks'[i] = tasks[i]
      /\ tasks'[Len(tasks) + 1] = t
      /\ DOMAIN tasks' = 1..Len(tasks) + 1 /\ DOMAIN tasks = 1..Len(tasks) /\ Len(tasks) \in Nat
    BY <1>3, <1>4, Enqueued DEF FeedInv, FeedTypes
<1>6. \A i \in 1..Len(tasks) : tasks[i].owner \notin {"job", "build", "indexer"}
    BY <1>1, <1>5 DEF FeedInv, Queued, QueuedAt
<1>7. FeedTypes' BY <1>1, <1>5 DEF FeedInv, FeedTypes, TaskType, AnyP, Steps
<1>8. Identities' BY <1>1 DEF FeedInv, Identities
<1>9. Queued'
    <2>1. ASSUME NEW i \in 1..Len(tasks) PROVE QueuedAt(i)'
        BY <1>1, <1>5, <1>6 DEF FeedInv, Queued, QueuedAt, UpsertsLive, ChangedSince
    <2>2. ChangedSince(c, watermark) BY <1>2 DEF ChangedSince, FeedInv, FeedTypes
    <2>3. ASSUME NEW i, i = Len(tasks) + 1 PROVE QueuedAt(i)'
        BY <1>1, <1>2, <1>3, <1>5, <2>2, <2>3 DEF QueuedAt, UpsertsLive, ChangedSince, UpToDate
    <2> QED BY <1>5, <2>1, <2>3 DEF Queued
<1>10. Turns' BY <1>1, <1>3, <1>5 DEF Turns
<1>11. SwapsApart' BY <1>1, <1>3, <1>4, NoSwapQueued
<1>12. Pending("indexer")' BY <1>3, <1>5 DEF Pending
<1>13. KnownComplete' BY <1>1, <1>12 DEF FeedInv, KnownComplete, UpToDate, ChangedSince
<1>14. Built' BY <1>1 DEF Built
<1>15. Swapped' BY <1>1 DEF Swapped, SwapDone
<1> QED BY <1>7, <1>8, <1>9, <1>10, <1>11, <1>13, <1>14, <1>15 DEF FeedInv

\* Scan: the build reads one more profile.
LEMMA ScanStep == ASSUME FeedInv, Scan PROVE FeedInv'
<1>1. /\ UNCHANGED <<store, changes, watermark, known, idx, made, bad, indexer>>
      /\ job.pc = "scan" /\ ~job.asked /\ indexer = "idle"
    BY DEF Scan, relay, meili, FeedInv, FeedTypes, Turns, Steps
<1>2. PICK q \in job.left :
          /\ job' = [job EXCEPT !.left = @ \ {q}]
          /\ IF store[q] = 0 THEN UNCHANGED tasks ELSE Enqueue(Upsert("build", "next", q))
    BY DEF Scan
<1>3. /\ job' \in [pc : Steps \cup {"idle", "scan", "mark", "remember"}, asked : BOOLEAN,
                   from : 0..Len(changes), left : SUBSET Profiles]
      /\ job'.pc = "scan" /\ job'.asked = job.asked /\ job'.from = job.from /\ job'.left = job.left \ {q}
    BY <1>1, <1>2 DEF FeedInv, FeedTypes
<1>4. q \in Profiles /\ store[q] \in Nat BY <1>2 DEF FeedInv, FeedTypes
<1>5. Identities' BY <1>1 DEF FeedInv, Identities
<1>6. KnownComplete' BY <1>1 DEF FeedInv, KnownComplete, UpToDate, ChangedSince
<1>7. Swapped' BY <1>3 DEF Swapped, SwapDone
<1>8. CASE store[q] = 0
    <2>1. UNCHANGED tasks BY <1>2, <1>8
    <2>2. FeedTypes' BY <1>1, <1>3, <2>1 DEF FeedInv, FeedTypes, TaskType, AnyP, Steps
    <2>3. Queued' BY <1>1, <1>3, <2>1 DEF FeedInv, Queued, QueuedAt, UpsertsLive, ChangedSince, UpToDate
    <2>4. Turns' BY <1>1, <1>3, <2>1 DEF FeedInv, Turns, RemovesLive
    <2>5. SwapsApart' BY <1>1, <2>1, SwapsStay DEF FeedInv
    <2>6. Built' BY <1>1, <1>2, <1>3, <1>8, <2>1 DEF FeedInv, Built, NextIsNew, UpToDate, ChangedSince
    <2> QED BY <1>5, <1>6, <1>7, <2>2, <2>3, <2>4, <2>5, <2>6 DEF FeedInv
<1>9. CASE store[q] # 0
    <2> DEFINE t == Upsert("build", "next", q)
    <2>1. /\ t \in TaskType /\ t.owner = "build" /\ t.op = "upsert" /\ t.name = "next" /\ t.p = q /\ t.v = store[q]
        BY <1>4 DEF Upsert, Task, TaskType
    <2>2. Enqueue(t) BY <1>2, <1>9
    <2> HIDE DEF t
    <2>3. /\ tasks' \in Seq(TaskType) /\ Len(tasks') = Len(tasks) + 1
          /\ \A i \in 1..Len(tasks) : tasks'[i] = tasks[i]
          /\ tasks'[Len(tasks) + 1] = t
          /\ DOMAIN tasks' = 1..Len(tasks) + 1 /\ DOMAIN tasks = 1..Len(tasks) /\ Len(tasks) \in Nat
        BY <2>1, <2>2, Enqueued DEF FeedInv, FeedTypes
    <2>4. FeedTypes' BY <1>1, <1>3, <2>3 DEF FeedInv, FeedTypes, TaskType, AnyP, Steps
    <2>5. Queued'
        <3>1. ASSUME NEW i \in 1..Len(tasks) PROVE QueuedAt(i)'
            BY <1>1, <1>3, <2>3 DEF FeedInv, Queued, QueuedAt, UpsertsLive, ChangedSince, UpToDate
        <3>2. ASSUME NEW i, i = Len(tasks) + 1 PROVE QueuedAt(i)'
            BY <1>1, <1>3, <1>4, <2>1, <2>3, <3>2 DEF QueuedAt, UpsertsLive, UpToDate
        <3> QED BY <2>3, <3>1, <3>2 DEF Queued
    <2>6. Turns' BY <1>1, <1>3, <2>1, <2>3 DEF FeedInv, Turns, RemovesLive
    <2>7. SwapsApart' BY <1>1, <2>1, <2>2, NoSwapQueued
    <2>8. Built'
        <3>1. ASSUME NEW p \in Profiles \ job'.left
              PROVE  \/ UpToDate(idx["next"].docs[p], p, job.from)' \/ "build" \in bad'
                     \/ \E i \in DOMAIN tasks' : tasks'[i].owner = "build" /\ tasks'[i].p = p
            <4>1. CASE p = q BY <2>1, <2>3, <4>1
            <4>2. CASE p # q
                BY <1>1, <1>3, <2>3, <4>2 DEF FeedInv, Built, UpToDate, ChangedSince
            <4> QED BY <4>1, <4>2
        <3> QED BY <1>1, <1>3, <3>1 DEF FeedInv, Built, NextIsNew
    <2> QED BY <1>5, <1>6, <1>7, <2>4, <2>5, <2>6, <2>7, <2>8 DEF FeedInv
<1> QED BY <1>8, <1>9

\* IndexerDone: the watermark moves past a change that was applied.
LEMMA IndexerDoneStep == ASSUME FeedInv, IndexerDone PROVE FeedInv'
<1>1. /\ UNCHANGED <<store, changes, known, idx, made, tasks, job>>
      /\ job.pc = "idle" /\ ~job.asked /\ indexer = "waiting" /\ indexer' = "idle" /\ watermark < Len(changes)
      /\ bad' \subseteq bad
      /\ watermark' = IF "indexer" \in bad THEN watermark ELSE watermark + 1
    BY DEF IndexerDone, meili, FeedInv, Turns, Steps
<1>2. ~Pending("indexer") BY MineNone DEF IndexerDone, FeedInv, FeedTypes
<1>3. \A i \in DOMAIN tasks : RemovesLive(tasks[i]) /\ tasks[i].owner \notin {"job", "build", "indexer"}
    <2>1. DOMAIN tasks = 1..Len(tasks) /\ Len(tasks) \in Nat BY LenProperties DEF FeedInv, FeedTypes
    <2> QED BY <1>1, <1>2, <2>1 DEF FeedInv, Turns, Queued, QueuedAt, Pending
<1>4. FeedTypes'
    <2>1. watermark' \in 0..Len(changes) BY <1>1, LenProperties DEF FeedInv, FeedTypes
    <2> QED BY <1>1, <2>1 DEF FeedInv, FeedTypes, TaskType, AnyP, Steps
<1>5. Identities' BY <1>1 DEF FeedInv, Identities
<1>6. Queued' BY <1>1, <1>3 DEF Queued, QueuedAt, UpsertsLive, RemovesLive
<1>7. Turns' BY <1>1 DEF Turns
<1>8. SwapsApart' BY <1>1, SwapsStay DEF FeedInv
<1>9. KnownComplete'
    <2> SUFFICES ASSUME known # 0, idx["live"].id = known, NEW p \in Profiles
                 PROVE  UpToDate(idx["live"].docs[p], p, watermark')
        BY <1>1 DEF KnownComplete, UpToDate, ChangedSince
    <2>1. UpToDate(idx["live"].docs[p], p, watermark) BY DEF FeedInv, KnownComplete
    <2>2. CASE "indexer" \in bad BY <1>1, <2>1, <2>2
    <2>3. CASE "indexer" \notin bad
        <3>1. CASE p = changes[watermark + 1] BY <1>1, <1>2, <2>3, <3>1 DEF FeedInv, KnownComplete
        <3>2. CASE p # changes[watermark + 1]
            <4>1. ASSUME NEW k \in watermark + 1..Len(changes), changes[k] = p PROVE k \in watermark + 2..Len(changes)
                <5>1. k # watermark + 1 BY <3>2, <4>1
                <5> QED BY <5>1, LenProperties DEF FeedInv, FeedTypes
            <4>2. watermark' + 1 = watermark + 2 BY <1>1, <2>3 DEF FeedInv, FeedTypes
            <4> QED BY <2>1, <4>1, <4>2 DEF UpToDate, ChangedSince
        <3> QED BY <3>1, <3>2
    <2> QED BY <2>2, <2>3
<1>10. Built' BY <1>1 DEF Built
<1>11. Swapped' BY <1>1 DEF Swapped, SwapDone
<1> QED BY <1>4, <1>5, <1>6, <1>7, <1>8, <1>9, <1>10, <1>11 DEF FeedInv

\* Whatever is given up stays queued, and the index it may still reach is
\* the one the relay does not know, or will be told of again.
LEMMA LetGo ==
    ASSUME FeedInv, UNCHANGED <<store, changes, watermark, known, idx, made>>, bad' \subseteq bad,
           indexer' = "idle", job'.pc = "idle", ~job'.asked,
           job' \in [pc : Steps \cup {"idle", "scan", "mark", "remember"}, asked : BOOLEAN,
                     from : 0..Len(changes), left : SUBSET Profiles],
           tasks' \in Seq(TaskType), Len(tasks) <= Len(tasks'),
           \A i \in 1..Len(tasks) : /\ tasks'[i].op = tasks[i].op /\ tasks'[i].name = tasks[i].name
                                    /\ tasks'[i].p = tasks[i].p,
           \A i \in Len(tasks) + 1..Len(tasks') : RemovesNext(tasks'[i]),
           \A i \in 1..Len(tasks') : tasks'[i].owner \notin {"indexer", "job", "build"}
    PROVE  FeedInv'
<1>1. /\ Len(tasks) \in Nat /\ DOMAIN tasks = 1..Len(tasks)
      /\ Len(tasks') \in Nat /\ DOMAIN tasks' = 1..Len(tasks')
    BY LenProperties DEF FeedInv, FeedTypes
<1>2. FeedTypes' BY DEF FeedInv, FeedTypes, TaskType, AnyP, Steps
<1>3. Identities' BY DEF FeedInv, Identities
<1>4. Queued'
    <2>1. ASSUME NEW i \in 1..Len(tasks) PROVE QueuedAt(i)'
        BY <1>1 DEF FeedInv, Queued, QueuedAt, UpsertsLive, ChangedSince
    <2>2. ASSUME NEW i \in Len(tasks) + 1..Len(tasks') PROVE QueuedAt(i)'
        BY <1>1 DEF QueuedAt, UpsertsLive, RemovesNext
    <2> QED BY <1>1, <2>1, <2>2 DEF Queued
<1>5. Turns' BY DEF Turns
<1>6. SwapsApart'
    <2>1. ASSUME NEW k \in 1..Len(tasks'), tasks'[k].op = "swap" PROVE k \in 1..Len(tasks) /\ tasks[k].op = "swap"
        <3>1. k \notin Len(tasks) + 1..Len(tasks') BY <2>1 DEF RemovesNext
        <3> QED BY <1>1, <2>1, <3>1
    <2>2. ASSUME NEW i \in 1..Len(tasks'), NEW k \in 1..Len(tasks'), i < k, tasks'[i].op = "swap", tasks'[k].op = "swap"
          PROVE  \E j \in i + 1..k - 1 : RemovesNext(tasks'[j])
        <3>1. PICK j \in i + 1..k - 1 : RemovesNext(tasks[j]) BY <1>1, <2>1, <2>2 DEF FeedInv, SwapsApart
        <3>2. j \in 1..Len(tasks) BY <1>1, <2>1, <2>2
        <3> QED BY <3>1, <3>2 DEF RemovesNext
    <2>3. ASSUME known # 0, idx["next"].id = known, NEW k \in 1..Len(tasks'), tasks'[k].op = "swap"
          PROVE  \E j \in 1..k - 1 : RemovesNext(tasks'[j])
        <3>1. PICK j \in 1..k - 1 : RemovesNext(tasks[j]) BY <1>1, <2>1, <2>3 DEF FeedInv, SwapsApart
        <3>2. j \in 1..Len(tasks) BY <1>1, <2>1, <2>3
        <3> QED BY <3>1, <3>2 DEF RemovesNext
    <2> QED BY <1>1, <2>2, <2>3 DEF SwapsApart, RemovesNext
<1>7. KnownComplete' BY DEF FeedInv, KnownComplete, UpToDate, ChangedSince
<1>8. Built' BY DEF Built
<1>9. Swapped' BY DEF Swapped, SwapDone
<1> QED BY <1>2, <1>3, <1>4, <1>5, <1>6, <1>7, <1>8, <1>9 DEF FeedInv

\* No rebuild is a rebuild of the right type.
LEMMA NoJobTyped ==
    ASSUME FeedInv
    PROVE  /\ NoJob.pc = "idle" /\ ~NoJob.asked
           /\ NoJob \in [pc : Steps \cup {"idle", "scan", "mark", "remember"}, asked : BOOLEAN,
                         from : 0..Len(changes), left : SUBSET Profiles]
BY LenProperties DEF NoJob, FeedInv, FeedTypes

\* Crash: the relay forgets whom it waits for.
LEMMA CrashStep == ASSUME FeedInv, Crash PROVE FeedInv'
<1>1. tasks \in Seq(TaskType) /\ \A i \in 1..Len(tasks) : tasks[i] \in TaskType
    BY ElementOfSeq DEF FeedInv, FeedTypes
<1>2. /\ UNCHANGED <<store, changes, watermark, known, idx, made>> /\ bad' = {}
      /\ indexer' = "idle" /\ job' = NoJob /\ tasks' = Abandoned({"indexer", "job", "build"})
    BY DEF Crash, relay, meili
<1>3. /\ tasks' \in Seq(TaskType) /\ Len(tasks') = Len(tasks) /\ Len(tasks) \in Nat
      /\ \A i \in 1..Len(tasks) :
            /\ tasks'[i].op = tasks[i].op /\ tasks'[i].name = tasks[i].name /\ tasks'[i].p = tasks[i].p
            /\ tasks'[i].owner \notin {"indexer", "job", "build"}
    BY <1>1, <1>2, AbandonedTasks, LenProperties
<1> QED BY <1>2, <1>3, NoJobTyped, LetGo

\* IndexerGivesUp: a wait of the indexer's ends without an answer.
LEMMA IndexerGivesUpStep == ASSUME FeedInv, IndexerGivesUp PROVE FeedInv'
<1>1. tasks \in Seq(TaskType) /\ Len(tasks) \in Nat /\ DOMAIN tasks = 1..Len(tasks)
    BY LenProperties DEF FeedInv, FeedTypes
<1>2. /\ UNCHANGED <<store, changes, watermark, known, idx, made, job>> /\ bad' \subseteq bad
      /\ indexer' = "idle" /\ job.pc = "idle" /\ ~job.asked /\ tasks' = Abandoned({"indexer"})
    BY DEF IndexerGivesUp, relay, meili, FeedInv, Turns, Steps
<1>3. \A i \in 1..Len(tasks) : tasks[i].owner \notin {"job", "build"}
    BY <1>1, <1>2 DEF FeedInv, Queued, QueuedAt
<1>4. /\ tasks' \in Seq(TaskType) /\ Len(tasks') = Len(tasks)
      /\ \A i \in 1..Len(tasks) :
            /\ tasks'[i].op = tasks[i].op /\ tasks'[i].name = tasks[i].name /\ tasks'[i].p = tasks[i].p
            /\ tasks'[i].owner \notin {"indexer", "job", "build"}
    BY <1>1, <1>2, <1>3, AbandonedTasks
<1>5. job' \in [pc : Steps \cup {"idle", "scan", "mark", "remember"}, asked : BOOLEAN,
                from : 0..Len(changes), left : SUBSET Profiles]
    BY <1>2 DEF FeedInv, FeedTypes
<1> QED BY <1>1, <1>2, <1>4, <1>5, LetGo

\* Fails: the rebuild ends; a failed build has its index removed.
LEMMA FailsStep == ASSUME FeedInv, Fails PROVE FeedInv'
<1> DEFINE more == IF job.pc = "scan" THEN <<Task("nobody", "remove", "next", AnyP, 0)>> ELSE <<>>
           kept == Abandoned({"job", "build"})
<1>1. tasks \in Seq(TaskType) /\ Len(tasks) \in Nat /\ DOMAIN tasks = 1..Len(tasks)
    BY LenProperties DEF FeedInv, FeedTypes
<1>2. /\ UNCHANGED <<store, changes, watermark, known, idx, made, indexer>> /\ bad' \subseteq bad
      /\ indexer = "idle" /\ job' = NoJob /\ tasks' = kept \o more
    BY DEF Fails, relay, meili, FeedInv, FeedTypes, Turns
<1>3. \A i \in 1..Len(tasks) : tasks[i].owner # "indexer"
    BY <1>1, <1>2 DEF FeedInv, Queued, QueuedAt
<1>4. /\ more \in Seq(TaskType) /\ Len(more) \in Nat
      /\ \A i \in 1..Len(more) : RemovesNext(more[i]) /\ more[i].owner = "nobody"
    <2>1. Task("nobody", "remove", "next", AnyP, 0) \in TaskType BY DEF Task, TaskType
    <2> QED BY <2>1 DEF RemovesNext, Task
<1>5. /\ kept \in Seq(TaskType) /\ Len(kept) = Len(tasks)
      /\ \A i \in 1..Len(tasks) :
            /\ kept[i].op = tasks[i].op /\ kept[i].name = tasks[i].name /\ kept[i].p = tasks[i].p
            /\ kept[i].owner \notin {"indexer", "job", "build"}
    BY <1>1, <1>3, AbandonedTasks
<1> HIDE DEF more, kept
<1>6. /\ tasks' \in Seq(TaskType) /\ Len(tasks') = Len(tasks) + Len(more)
      /\ \A i \in 1..Len(tasks) + Len(more) : tasks'[i] = IF i <= Len(tasks) THEN kept[i] ELSE more[i - Len(tasks)]
    <2>1. /\ kept \o more \in Seq(TaskType) /\ Len(kept \o more) = Len(kept) + Len(more)
          /\ \A i \in 1..Len(kept) + Len(more) : (kept \o more)[i] = IF i <= Len(kept) THEN kept[i] ELSE more[i - Len(kept)]
        BY <1>4, <1>5, ConcatProperties
    <2> QED BY <1>2, <1>5, <2>1
<1>7. \A i \in 1..Len(tasks) : tasks'[i] = kept[i] BY <1>1, <1>4, <1>6
<1>8. ASSUME NEW i \in Len(tasks) + 1..Len(tasks') PROVE RemovesNext(tasks'[i]) /\ tasks'[i].owner = "nobody"
    <2>1. i - Len(tasks) \in 1..Len(more) /\ tasks'[i] = more[i - Len(tasks)] BY <1>1, <1>4, <1>6
    <2> QED BY <1>4, <2>1
<1>9. \A i \in 1..Len(tasks') : tasks'[i].owner \notin {"indexer", "job", "build"}
    BY <1>1, <1>4, <1>5, <1>6, <1>7, <1>8
<1>10. /\ Len(tasks) <= Len(tasks')
       /\ \A i \in 1..Len(tasks) : /\ tasks'[i].op = tasks[i].op /\ tasks'[i].name = tasks[i].name
                                    /\ tasks'[i].p = tasks[i].p
    BY <1>1, <1>4, <1>5, <1>6, <1>7
<1> QED BY <1>2, <1>6, <1>8, <1>9, <1>10, NoJobTyped, LetGo

\* Stored: a profile changes; whatever was written of it is out of date, and
\* the feed says so.
LEMMA StoredStep == ASSUME FeedInv, NEW q \in Profiles, Stored(q) PROVE FeedInv'
<1>1. /\ UNCHANGED <<watermark, known, idx, made, tasks, bad, indexer, job>>
      /\ store' \in [Profiles -> Nat] /\ \A p \in Profiles \ {q} : store'[p] = store[p]
    <2>1. Len(changes) \in Nat BY LenProperties DEF FeedInv, FeedTypes
    <2>2. store' \in {[store EXCEPT ![q] = Len(changes) + 2], [store EXCEPT ![q] = 0]} BY DEF Stored, Head0
    <2>3. store \in [Profiles -> Nat] BY DEF FeedInv, FeedTypes
    <2>4. store' \in [Profiles -> Nat] /\ \A p \in Profiles \ {q} : store'[p] = store[p] BY <2>1, <2>2, <2>3
    <2> QED BY <2>4 DEF Stored, meili
<1>2. /\ changes \in Seq(Profiles) /\ Len(changes) \in Nat
      /\ changes' \in Seq(Profiles) /\ Len(changes') = Len(changes) + 1
      /\ \A k \in 1..Len(changes) : changes'[k] = changes[k]
      /\ changes'[Len(changes) + 1] = q
    BY AppendProperties, LenProperties DEF Stored, FeedInv, FeedTypes
<1>3. /\ watermark \in 0..Len(changes) /\ job.from \in 0..Len(changes)
      /\ indexer = "waiting" => watermark + 1 \in 1..Len(changes)
      /\ indexer = "waiting" => changes[watermark + 1] \in Profiles /\ changes'[watermark + 1] = changes[watermark + 1]
    <2>1. watermark \in 0..Len(changes) /\ job.from \in 0..Len(changes) BY DEF FeedInv, FeedTypes
    <2>2. indexer = "waiting" => watermark + 1 \in 1..Len(changes) BY <1>2, <2>1 DEF FeedInv, Turns
    <2> QED BY <1>2, <2>1, <2>2, ElementOfSeq
<1>4. ASSUME NEW p, NEW n \in 0..Len(changes), ChangedSince(p, n)
      PROVE  \E k \in n + 1..Len(changes') : changes'[k] = p
    <2>1. PICK k \in n + 1..Len(changes) : changes[k] = p BY <1>4 DEF ChangedSince
    <2> QED BY <1>2, <2>1
<1>5. ASSUME NEW p \in Profiles, NEW v, NEW n \in 0..Len(changes), UpToDate(v, p, n)
      PROVE  v = store'[p] \/ \E k \in n + 1..Len(changes') : changes'[k] = p
    <2>1. CASE p = q BY <1>2, <2>1
    <2>2. CASE p # q BY <1>1, <1>4, <1>5, <2>2 DEF UpToDate
    <2> QED BY <2>1, <2>2
<1>6. FeedTypes'
    <2>1. /\ watermark \in 0..Len(changes) /\ 0..Len(changes) \subseteq 0..Len(changes')
          /\ job \in [pc : Steps \cup {"idle", "scan", "mark", "remember"}, asked : BOOLEAN,
                      from : 0..Len(changes), left : SUBSET Profiles]
        BY <1>2 DEF FeedInv, FeedTypes
    <2>2. /\ watermark' \in 0..Len(changes')
          /\ job' \in [pc : Steps \cup {"idle", "scan", "mark", "remember"}, asked : BOOLEAN,
                       from : 0..Len(changes'), left : SUBSET Profiles]
        BY <1>1, <2>1
    <2> QED BY <1>1, <1>2, <2>2 DEF FeedInv, FeedTypes, TaskType, AnyP, Steps
<1>7. Identities' BY <1>1 DEF FeedInv, Identities
<1>8. Queued'
    <2> SUFFICES ASSUME NEW i \in DOMAIN tasks PROVE QueuedAt(i)' BY <1>1 DEF Queued
    <2>1. QueuedAt(i) BY DEF FeedInv, Queued
    <2>2. Asks(job.pc)' = Asks(job.pc) BY <1>1 DEF Asks, Task
    <2>3. UpsertsLive(tasks[i]) => \E k \in watermark + 1..Len(changes') : changes'[k] = tasks[i].p
        BY <1>3, <1>4, <2>1 DEF QueuedAt
    <2>4. tasks[i].owner = "indexer" =>
            /\ indexer = "waiting" /\ UpsertsLive(tasks[i]) /\ tasks[i].p = changes'[watermark + 1]
            /\ tasks[i].v = store'[tasks[i].p] \/ \E k \in watermark + 1 + 1..Len(changes') : changes'[k] = tasks[i].p
        BY <1>3, <1>5, <2>1 DEF QueuedAt
    <2>5. tasks[i].owner = "build" =>
            /\ job.pc = "scan" /\ tasks[i].op = "upsert" /\ tasks[i].name = "next" /\ tasks[i].p \notin job.left
            /\ tasks[i].v = store'[tasks[i].p] \/ \E k \in job.from + 1..Len(changes') : changes'[k] = tasks[i].p
        BY <1>3, <1>5, <2>1 DEF QueuedAt
    <2> QED BY <1>1, <2>1, <2>2, <2>3, <2>4, <2>5 DEF QueuedAt, UpsertsLive, ChangedSince, UpToDate
<1>9. Turns' BY <1>1, <1>2, <1>3 DEF FeedInv, Turns, RemovesLive
<1>10. SwapsApart' BY <1>1, SwapsStay DEF FeedInv
<1>11. KnownComplete'
    <2>1. ASSUME known # 0, idx["live"].id = known, NEW p \in Profiles
          PROVE  UpToDate(idx["live"].docs[p], p, watermark)'
        <3>1. UpToDate(idx["live"].docs[p], p, watermark) BY <2>1 DEF FeedInv, KnownComplete
        <3>2. idx["live"].docs[p] = store'[p] \/ \E k \in watermark + 1..Len(changes') : changes'[k] = p
            BY <1>3, <1>5, <3>1
        <3> QED BY <1>1, <3>2 DEF UpToDate, ChangedSince
    <2>2. ASSUME known # 0, idx["live"].id = known, indexer = "waiting", ~Pending("indexer"), "indexer" \notin bad
          PROVE  UpToDate(idx["live"].docs[changes[watermark + 1]], changes[watermark + 1], watermark + 1)'
        <3>1. UpToDate(idx["live"].docs[changes[watermark + 1]], changes[watermark + 1], watermark + 1)
            BY <2>2 DEF FeedInv, KnownComplete
        <3>2. LET c == changes[watermark + 1]
              IN  idx["live"].docs[c] = store'[c] \/ \E k \in watermark + 1 + 1..Len(changes') : changes'[k] = c
            BY <1>3, <1>5, <2>2, <3>1
        <3>3. changes'[watermark + 1] = changes[watermark + 1] BY <1>3, <2>2
        <3> QED BY <1>1, <3>2, <3>3 DEF UpToDate, ChangedSince
    <2> QED BY <1>1, <2>1, <2>2 DEF KnownComplete, Pending
<1>12. \A p \in Profiles : UpToDate(idx["next"].docs[p], p, job.from) => UpToDate(idx["next"].docs[p], p, job.from)'
    <2> TAKE p \in Profiles
    <2>1. UpToDate(idx["next"].docs[p], p, job.from) =>
            idx["next"].docs[p] = store'[p] \/ \E k \in job.from + 1..Len(changes') : changes'[k] = p
        BY <1>3, <1>5
    <2> QED BY <1>1, <2>1 DEF UpToDate, ChangedSince
<1>13. \A p \in Profiles : UpToDate(idx["live"].docs[p], p, job.from) => UpToDate(idx["live"].docs[p], p, job.from)'
    <2> TAKE p \in Profiles
    <2>1. UpToDate(idx["live"].docs[p], p, job.from) =>
            idx["live"].docs[p] = store'[p] \/ \E k \in job.from + 1..Len(changes') : changes'[k] = p
        BY <1>3, <1>5
    <2> QED BY <1>1, <2>1 DEF UpToDate, ChangedSince
<1>14. Built' BY <1>1, <1>12 DEF FeedInv, Built, NextIsNew, Pending
<1>15. Swapped' BY <1>1, <1>13 DEF FeedInv, Swapped, SwapDone, Pending
<1> QED BY <1>6, <1>7, <1>8, <1>9, <1>10, <1>11, <1>14, <1>15 DEF FeedInv

-----------------------------------------------------------------------------
\* What Meilisearch makes of the oldest task t: it fails, writes a document,
\* makes sure of an index, drops one or exchanges the two.
Other(name) == IF name = "live" THEN "next" ELSE "live"
Refused(t) == /\ t.op \in {"upsert", "swap"} /\ UNCHANGED <<idx, made>>
              /\ bad' = bad \cup ({t.owner} \ {"nobody"})
Ensured(t) == /\ bad' = bad /\ idx'[Other(t.name)] = idx[Other(t.name)]
              /\ \/ idx[t.name].id = 0 /\ idx'[t.name].id = made + 1 /\ made' = made + 1
                 \/ idx[t.name].id # 0 /\ idx'[t.name].id = idx[t.name].id /\ made' = made
Wrote(t) == t.op = "upsert" /\ Ensured(t) /\ idx'[t.name].docs = [idx[t.name].docs EXCEPT ![t.p] = t.v]
MadeSure(t) == t.op = "create" /\ Ensured(t) /\ idx'[t.name].docs = idx[t.name].docs
Dropped(t) == /\ t.op = "remove" /\ bad' = bad /\ made' = made
              /\ idx'[Other(t.name)] = idx[Other(t.name)]
              /\ idx'[t.name].id = 0 /\ idx'[t.name].docs = NoDocs
Exchanged(t) == /\ t.op = "swap" /\ bad' = bad /\ made' = made
                /\ idx["live"].id # 0 /\ idx["next"].id # 0
                /\ idx'["live"] = idx["next"] /\ idx'["next"] = idx["live"]
Effect(t) == Refused(t) \/ Wrote(t) \/ MadeSure(t) \/ Dropped(t) \/ Exchanged(t)

\* Engine takes the oldest task and has one of these effects.
LEMMA EngineEffect ==
    ASSUME FeedInv, Engine
    PROVE  /\ UNCHANGED <<store, changes, watermark, known, indexer, job>>
           /\ tasks' \in Seq(TaskType) /\ Len(tasks) \in Nat \ {0} /\ Len(tasks') = Len(tasks) - 1
           /\ DOMAIN tasks = 1..Len(tasks) /\ DOMAIN tasks' = 1..Len(tasks')
           /\ \A i \in 1..Len(tasks') : tasks'[i] = tasks[i + 1]
           /\ tasks[1] \in TaskType /\ Effect(tasks[1])
           /\ idx' \in [{"live", "next"} -> [id : Nat, docs : [Profiles -> Nat]]]
<1>1. tasks \in Seq(TaskType) /\ tasks # <<>> /\ tasks' = Tail(tasks)
    BY DEF FeedInv, FeedTypes, Engine
<1>2. /\ tasks' \in Seq(TaskType) /\ Len(tasks) \in Nat \ {0} /\ Len(tasks') = Len(tasks) - 1
      /\ DOMAIN tasks = 1..Len(tasks) /\ DOMAIN tasks' = 1..Len(tasks')
      /\ \A i \in 1..Len(tasks') : tasks'[i] = tasks[i + 1]
    BY <1>1, HeadTailProperties, LenProperties, EmptySeq
<1>3. Head(tasks) = tasks[1] /\ tasks[1] \in TaskType
    BY <1>1, <1>2, ElementOfSeq
<1>4. UNCHANGED <<store, changes, watermark, known, indexer, job>> BY DEF Engine, relay
<1> DEFINE t == tasks[1]
<1>5. /\ t.name \in {"live", "next"} /\ t.op \in {"upsert", "create", "remove", "swap"} /\ t.v \in Nat
      /\ t.op = "upsert" => t.p \in Profiles
    BY <1>2, <1>3 DEF TaskType, FeedInv, Queued, QueuedAt
<1>6. /\ idx \in [{"live", "next"} -> [id : Nat, docs : [Profiles -> Nat]]] /\ made \in Nat
      /\ NoDocs \in [Profiles -> Nat] /\ \A n \in {"live", "next"} : idx[n].id = 0 => idx[n].docs = NoDocs
    BY DEF FeedInv, FeedTypes, NoDocs, Identities
<1>7. \/ Applies(t)
      \/ t.op = "upsert" /\ bad' = bad \cup ({t.owner} \ {"nobody"}) /\ UNCHANGED meili
    BY <1>3 DEF Engine
<1> HIDE DEF t
<1>8. CASE ~Applies(t) 
    <2>1. Refused(t) /\ idx' = idx BY <1>7, <1>8 DEF Refused, meili
    <2> QED BY <1>2, <1>3, <1>4, <1>6, <2>1 DEF Effect, t
<1>9. CASE Applies(t) /\ t.op \in {"upsert", "create"}
    <2> DEFINE new == Created(t.name)
               put == IF t.op = "create" THEN new ELSE [new EXCEPT !.docs[t.p] = t.v]
    <2>1. /\ idx' = [idx EXCEPT ![t.name] = put] /\ bad' = bad
          /\ made' = IF idx[t.name].id = 0 THEN made + 1 ELSE made
        BY <1>9 DEF Applies
    <2>2. /\ new \in [id : Nat, docs : [Profiles -> Nat]] /\ new.docs = idx[t.name].docs
          /\ new.id = IF idx[t.name].id = 0 THEN made + 1 ELSE idx[t.name].id
        BY <1>5, <1>6 DEF Created
    <2> HIDE DEF new
    <2>3. /\ put \in [id : Nat, docs : [Profiles -> Nat]] /\ put.id = new.id
          /\ t.op = "create" => put.docs = new.docs
          /\ t.op = "upsert" => put.docs = [new.docs EXCEPT ![t.p] = t.v]
        BY <1>5, <1>9, <2>2
    <2> HIDE DEF put
    <2>4. /\ idx' \in [{"live", "next"} -> [id : Nat, docs : [Profiles -> Nat]]]
          /\ idx'[t.name] = put /\ idx'[Other(t.name)] = idx[Other(t.name)]
        BY <1>5, <1>6, <2>1, <2>3 DEF Other
    <2> QED BY <1>2, <1>3, <1>4, <1>9, <2>1, <2>2, <2>3, <2>4 DEF Effect, Wrote, MadeSure, Ensured, t
<1>10. CASE Applies(t) /\ t.op = "remove"
    <2>1. idx' = [idx EXCEPT ![t.name] = [id |-> 0, docs |-> NoDocs]] /\ bad' = bad /\ made' = made
        BY <1>10 DEF Applies
    <2>2. [id |-> 0, docs |-> NoDocs] \in [id : Nat, docs : [Profiles -> Nat]] BY <1>6
    <2> QED BY <1>2, <1>3, <1>4, <1>5, <1>6, <1>10, <2>1, <2>2 DEF Effect, Dropped, Other, t
<1>11. CASE Applies(t) /\ t.op = "swap"
    <2>1. \/ /\ idx["live"].id # 0 /\ idx["next"].id # 0 /\ bad' = bad /\ made' = made
             /\ idx' = [n \in {"live", "next"} |-> IF n = "live" THEN idx["next"] ELSE idx["live"]]
          \/ bad' = bad \cup ({t.owner} \ {"nobody"}) /\ UNCHANGED meili
        BY <1>11 DEF Applies
    <2> QED BY <1>2, <1>3, <1>4, <1>6, <1>11, <2>1 DEF Effect, Exchanged, Refused, meili, t
<1> QED BY <1>2, <1>3, <1>4, <1>5, <1>8, <1>9, <1>10, <1>11 DEF t

\* What is left of the queue is in order.
LEMMA EngineQueue ==
    ASSUME FeedInv, Engine
    PROVE  Queued' /\ Turns' /\ Identities' /\ FeedTypes'
<1> DEFINE t == tasks[1]
<1>1. UNCHANGED <<store, changes, watermark, known, indexer, job>> BY EngineEffect
<1>2. /\ tasks' \in Seq(TaskType) /\ Len(tasks) \in Nat \ {0} /\ Len(tasks') = Len(tasks) - 1
      /\ DOMAIN tasks = 1..Len(tasks) /\ DOMAIN tasks' = 1..Len(tasks')
      /\ \A i \in 1..Len(tasks') : tasks'[i] = tasks[i + 1]
    BY EngineEffect
<1>3. Queued'
    <2>1. Asks(job.pc)' = Asks(job.pc) BY <1>1 DEF Asks, Task
    <2>2. ASSUME NEW i \in 1..Len(tasks') PROVE QueuedAt(i)'
        <3>1. tasks'[i] = tasks[i + 1] /\ QueuedAt(i + 1) BY <1>2 DEF FeedInv, Queued
        <3> QED BY <1>1, <2>1, <3>1 DEF QueuedAt, UpsertsLive, ChangedSince, UpToDate
    <2> QED BY <1>2, <2>2 DEF Queued
<1>4. Turns'
    <2>1. ASSUME NEW o, \A i \in DOMAIN tasks : RemovesLive(tasks[i])
                          \/ \E j \in i..Len(tasks) : tasks[j].owner = o
          PROVE  \A i \in DOMAIN tasks' : RemovesLive(tasks'[i])
                          \/ \E j \in i..Len(tasks') : tasks'[j].owner = o
        <3> TAKE i \in DOMAIN tasks'
        <3>1. i + 1 \in DOMAIN tasks /\ tasks'[i] = tasks[i + 1] BY <1>2
        <3>2. CASE RemovesLive(tasks[i + 1]) BY <3>1, <3>2
        <3>3. ASSUME NEW j \in i + 1..Len(tasks), tasks[j].owner = o PROVE \E k \in i..Len(tasks') : tasks'[k].owner = o
            <4>1. j - 1 \in i..Len(tasks') /\ j - 1 \in 1..Len(tasks') /\ tasks'[j - 1] = tasks[j] BY <1>2, <3>3
            <4> QED BY <3>3, <4>1
        <3> QED BY <2>1, <3>1, <3>2, <3>3
    <2>2. job.pc \notin {"idle", "clear"} =>
            \A i \in DOMAIN tasks' : RemovesLive(tasks'[i]) \/ tasks'[i].owner \in {"job", "build"}
        BY <1>2 DEF FeedInv, Turns
    <2> QED BY <1>1, <2>1, <2>2 DEF FeedInv, Turns, RemovesLive
<1>5. Effect(t) /\ t.name \in {"live", "next"} /\ t.owner \in {"indexer", "job", "build", "nobody"}
    BY EngineEffect DEF TaskType
<1>6. /\ \A n \in {"live", "next"} : idx[n].id <= made /\ idx[n].id \in Nat /\ (idx[n].id = 0 => idx[n].docs = NoDocs)
      /\ idx["live"].id = idx["next"].id => idx["live"].id = 0
      /\ made \in Nat /\ known \in Nat /\ known <= made /\ bad \subseteq {"indexer", "job", "build"}
    BY DEF FeedInv, FeedTypes, Identities
<1> HIDE DEF t
<1>7. Identities' /\ made' \in Nat /\ made <= made' /\ bad' \subseteq {"indexer", "job", "build"}
    <2>1. CASE Refused(t)
        <3>1. bad' \subseteq {"indexer", "job", "build"} BY <1>5, <1>6, <2>1 DEF Refused
        <3>2. UNCHANGED <<idx, made>> BY <2>1 DEF Refused
        <3> QED BY <1>6, <3>1, <3>2 DEF FeedInv, Identities
    <2>2. CASE Wrote(t) \/ MadeSure(t)
        <3>1. Ensured(t) BY <2>2 DEF Wrote, MadeSure
        <3>2. CASE t.name = "live" BY <1>6, <3>1, <3>2 DEF Ensured, Other, Identities
        <3>3. CASE t.name = "next" BY <1>6, <3>1, <3>3 DEF Ensured, Other, Identities
        <3> QED BY <1>5, <3>2, <3>3
    <2>3. CASE Dropped(t) BY <1>5, <1>6, <2>3 DEF Dropped, Other, Identities, NoDocs
    <2>4. CASE Exchanged(t) BY <1>6, <2>4 DEF Exchanged, Identities
    <2> QED BY <1>5, <2>1, <2>2, <2>3, <2>4 DEF Effect
<1>8. FeedTypes'
    <2>1. idx' \in [{"live", "next"} -> [id : Nat, docs : [Profiles -> Nat]]] BY EngineEffect
    <2>2. known' \in Nat /\ known' <= made' BY <1>1, <1>6, <1>7
    <2> QED BY <1>1, <1>2, <1>7, <2>1, <2>2 DEF FeedInv, FeedTypes, TaskType, AnyP, Steps
<1> QED BY <1>3, <1>4, <1>7, <1>8

\* The index the relay knows, once exchanged for another, is dropped before
\* the two are exchanged again.
LEMMA EngineSwaps == ASSUME FeedInv, Engine PROVE SwapsApart'
<1> DEFINE t == tasks[1]
<1>1. UNCHANGED known BY EngineEffect
<1>2. /\ Len(tasks) \in Nat \ {0} /\ Len(tasks') = Len(tasks) - 1
      /\ DOMAIN tasks = 1..Len(tasks) /\ DOMAIN tasks' = 1..Len(tasks')
      /\ \A i \in 1..Len(tasks') : tasks'[i] = tasks[i + 1]
    BY EngineEffect
<1>3. ASSUME NEW i \in 1..Len(tasks), NEW k \in 1..Len(tasks'), NEW j \in i + 1..k, RemovesNext(tasks[j])
      PROVE  \E l \in i..k - 1 : RemovesNext(tasks'[l])
    <2>1. j - 1 \in i..k - 1 /\ j - 1 \in 1..Len(tasks') /\ tasks'[j - 1] = tasks[j] BY <1>2, <1>3
    <2> QED BY <1>3, <2>1
<1>4. ASSUME NEW i \in DOMAIN tasks', NEW k \in DOMAIN tasks', i < k, tasks'[i].op = "swap", tasks'[k].op = "swap"
      PROVE  \E j \in i + 1..k - 1 : RemovesNext(tasks'[j])
    <2>1. i + 1 \in 1..Len(tasks) /\ k + 1 \in 1..Len(tasks) /\ tasks[i + 1].op = "swap" /\ tasks[k + 1].op = "swap"
        BY <1>2, <1>4
    <2>2. PICK j \in i + 1 + 1..k + 1 - 1 : RemovesNext(tasks[j]) BY <1>2, <1>4, <2>1 DEF FeedInv, SwapsApart
    <2>3. j \in i + 1 + 1..k BY <1>2, <2>2
    <2> QED BY <1>2, <1>3, <2>1, <2>2, <2>3
<1>5. Effect(t) /\ t.name \in {"live", "next"} BY EngineEffect DEF TaskType
<1>6. known \in Nat /\ made \in Nat /\ known <= made BY DEF FeedInv, FeedTypes
<1>7. ASSUME known # 0, idx'["next"].id = known
      PROVE  t.op = "swap" \/ (idx["next"].id = known /\ ~RemovesNext(t))
    <2> HIDE DEF t
    <2>1. CASE Refused(t) BY <1>7, <2>1 DEF Refused, RemovesNext
    <2>2. CASE Wrote(t) \/ MadeSure(t)
        BY <1>5, <1>6, <1>7, <2>2 DEF Wrote, MadeSure, Ensured, Other, RemovesNext
    <2>3. CASE Dropped(t) BY <1>5, <1>7, <2>3 DEF Dropped, Other, RemovesNext
    <2>4. CASE Exchanged(t) BY <2>4 DEF Exchanged
    <2> QED BY <1>5, <2>1, <2>2, <2>3, <2>4 DEF Effect
<1>8. ASSUME known # 0, idx'["next"].id = known, NEW k \in DOMAIN tasks', tasks'[k].op = "swap"
      PROVE  \E j \in 1..k - 1 : RemovesNext(tasks'[j])
    <2>1. k + 1 \in 1..Len(tasks) /\ 1 \in 1..Len(tasks) /\ tasks[k + 1].op = "swap" BY <1>2, <1>8
    <2>2. PICK j \in 2..k : RemovesNext(tasks[j])
        <3>1. CASE t.op = "swap" BY <1>2, <2>1, <3>1 DEF FeedInv, SwapsApart
        <3>2. CASE idx["next"].id = known /\ ~RemovesNext(t)
            <4>1. PICK j \in 1..k : RemovesNext(tasks[j]) BY <1>2, <1>8, <2>1, <3>2 DEF FeedInv, SwapsApart
            <4>2. j # 1 BY <3>2, <4>1 DEF RemovesNext
            <4> QED BY <4>1, <4>2
        <3> QED BY <1>7, <1>8, <3>1, <3>2
    <2>3. j \in 1 + 1..k BY <1>2, <2>2
    <2> QED BY <1>2, <1>3, <2>1, <2>2, <2>3
<1> QED BY <1>1, <1>4, <1>8 DEF SwapsApart, RemovesNext

\* The index the relay knows stays complete but for the changes due.
LEMMA EngineKnown == ASSUME FeedInv, Engine PROVE KnownComplete'
<1> DEFINE t == tasks[1]
           c == changes[watermark + 1]
           Live(p, n) == UpToDate(idx'["live"].docs[p], p, n)
<1>1. UNCHANGED <<store, changes, watermark, known, indexer>> BY EngineEffect
<1>2. /\ Len(tasks) \in Nat \ {0} /\ Len(tasks') = Len(tasks) - 1
      /\ DOMAIN tasks = 1..Len(tasks) /\ DOMAIN tasks' = 1..Len(tasks')
      /\ \A i \in 1..Len(tasks') : tasks'[i] = tasks[i + 1]
    BY EngineEffect
<1>3. /\ Effect(t) /\ t.name \in {"live", "next"} /\ t.op \in {"upsert", "create", "remove", "swap"}
      /\ QueuedAt(1) /\ known \in Nat /\ made \in Nat /\ known <= made
      /\ idx \in [{"live", "next"} -> [id : Nat, docs : [Profiles -> Nat]]]
    <2>1. 1 \in DOMAIN tasks BY <1>2
    <2>2. QueuedAt(1) BY <2>1 DEF FeedInv, Queued
    <2>3. Effect(t) /\ t \in TaskType BY EngineEffect
    <2> QED BY <2>2, <2>3 DEF TaskType, FeedInv, FeedTypes
<1>4. ASSUME Pending("indexer"), ~Pending("indexer")' PROVE t.owner = "indexer"
    <2>1. PICK i \in 1..Len(tasks) : tasks[i].owner = "indexer" BY <1>2, <1>4 DEF Pending
    <2>2. CASE i # 1
        <3>1. i - 1 \in 1..Len(tasks') /\ tasks'[i - 1] = tasks[i] BY <1>2, <2>1, <2>2
        <3> QED BY <1>2, <1>4, <2>1, <3>1 DEF Pending
    <2> QED BY <2>1, <2>2
<1>5. SUFFICES ASSUME known # 0, idx'["live"].id = known
               PROVE  /\ \A p \in Profiles : Live(p, watermark)
                      /\ indexer = "waiting" /\ ~Pending("indexer")' /\ "indexer" \notin bad' => Live(c, watermark + 1)
    BY <1>1 DEF KnownComplete, UpToDate, ChangedSince
<1>6. idx["live"].id = known => /\ \A p \in Profiles : UpToDate(idx["live"].docs[p], p, watermark)
                                /\ indexer = "waiting" /\ ~Pending("indexer") /\ "indexer" \notin bad =>
                                      UpToDate(idx["live"].docs[c], c, watermark + 1)
    BY <1>5 DEF FeedInv, KnownComplete
<1>7. CASE idx'["live"] = idx["live"] /\ bad \subseteq bad' /\ (t.owner = "indexer" => "indexer" \in bad')
    <2>1. idx["live"].id = known BY <1>5, <1>7
    <2> QED BY <1>4, <1>6, <1>7, <2>1
<1>8. t.owner = "indexer" => t.op = "upsert" /\ t.name = "live" BY <1>3 DEF QueuedAt, UpsertsLive
<1>9. CASE Refused(t) BY <1>7, <1>9 DEF Refused
<1>10. CASE MadeSure(t) \/ (Wrote(t) /\ t.name = "next")
    <2>1. Ensured(t) /\ t.owner # "indexer" BY <1>8, <1>10 DEF MadeSure, Wrote
    <2>2. CASE t.name = "next" BY <1>7, <2>1, <2>2 DEF Ensured, Other
    <2>3. CASE t.name = "live"
        <3>1. MadeSure(t) BY <1>10, <2>3
        <3>2. idx'["live"].id = idx["live"].id /\ bad' = bad BY <1>3, <1>5, <2>1, <2>3 DEF Ensured
        <3>3. idx'["live"].docs = idx["live"].docs BY <2>3, <3>1 DEF MadeSure
        <3> QED BY <1>4, <1>5, <1>6, <2>1, <3>2, <3>3
    <2> QED BY <1>3, <2>2, <2>3
<1>11. CASE Wrote(t) /\ t.name = "live"
    <2>1. idx'["live"].id = idx["live"].id /\ bad' = bad BY <1>3, <1>5, <1>11 DEF Wrote, Ensured
    <2>2. idx'["live"].docs = [idx["live"].docs EXCEPT ![t.p] = t.v] /\ t.op = "upsert" BY <1>11 DEF Wrote
    <2>3. t.p \in Profiles /\ ChangedSince(t.p, watermark) BY <1>3, <1>11, <2>2 DEF QueuedAt, UpsertsLive
    <2>4. idx["live"].docs \in [Profiles -> Nat] BY <1>3
    <2>5. ASSUME NEW p \in Profiles PROVE Live(p, watermark)
        <3>1. CASE p = t.p BY <2>3, <3>1 DEF UpToDate
        <3>2. CASE p # t.p
            <4>1. idx'["live"].docs[p] = idx["live"].docs[p] BY <2>2, <2>4, <3>2
            <4> QED BY <1>5, <1>6, <2>1, <4>1
        <3> QED BY <3>1, <3>2
    <2>6. ASSUME indexer = "waiting", ~Pending("indexer")' PROVE Live(c, watermark + 1)
        <3>1. t.owner = "indexer"
            <4>1. Pending("indexer")
                <5>1. ~RemovesLive(t) BY <2>2 DEF RemovesLive
                <5>2. PICK j \in 1..Len(tasks) : tasks[j].owner = "indexer" BY <1>2, <2>6, <5>1 DEF FeedInv, Turns
                <5> QED BY <1>2, <5>2 DEF Pending
            <4> QED BY <1>4, <2>6, <4>1
        <3>2. t.p = c /\ UpToDate(t.v, t.p, watermark + 1) BY <1>3, <3>1 DEF QueuedAt
        <3>3. idx'["live"].docs[c] = t.v BY <2>2, <2>3, <2>4, <3>2
        <3> QED BY <3>2, <3>3
    <2> QED BY <2>5, <2>6
<1>12. CASE Dropped(t)
    <2>1. t.name = "next" BY <1>3, <1>5, <1>12 DEF Dropped
    <2> QED BY <1>7, <1>8, <1>12, <2>1 DEF Dropped, Other
<1>13. CASE Exchanged(t)
    <2>1. idx["next"].id = known /\ t.op = "swap" BY <1>5, <1>13 DEF Exchanged
    <2>2. PICK j \in 1..1 - 1 : RemovesNext(tasks[j]) BY <1>2, <1>5, <2>1 DEF FeedInv, SwapsApart
    <2> QED BY <2>2
<1> QED BY <1>3, <1>9, <1>10, <1>11, <1>12, <1>13 DEF Effect

\* A rebuild's next step finds the other index as the last one left it.
LEMMA EngineBuilt == ASSUME FeedInv, Engine PROVE Built'
<1> DEFINE t == tasks[1]
           Next1(p) == UpToDate(idx'["next"].docs[p], p, job.from)
<1>1. UNCHANGED <<store, changes, watermark, known, indexer, job>> BY EngineEffect
<1>2. /\ Len(tasks) \in Nat \ {0} /\ Len(tasks') = Len(tasks) - 1
      /\ DOMAIN tasks = 1..Len(tasks) /\ DOMAIN tasks' = 1..Len(tasks')
      /\ \A i \in 1..Len(tasks') : tasks'[i] = tasks[i + 1]
    BY EngineEffect
<1>3. /\ Effect(t) /\ t.name \in {"live", "next"} /\ t.op \in {"upsert", "create", "remove", "swap"}
      /\ QueuedAt(1) /\ known \in Nat /\ made \in Nat /\ known <= made
      /\ idx \in [{"live", "next"} -> [id : Nat, docs : [Profiles -> Nat]]]
    <2>1. 1 \in DOMAIN tasks BY <1>2
    <2>2. QueuedAt(1) BY <2>1 DEF FeedInv, Queued
    <2>3. Effect(t) /\ t \in TaskType BY EngineEffect
    <2> QED BY <2>2, <2>3 DEF TaskType, FeedInv, FeedTypes
<1>4. ASSUME NEW i \in 1..Len(tasks), i # 1 PROVE i - 1 \in DOMAIN tasks' /\ tasks'[i - 1] = tasks[i]
    BY <1>2, <1>4
<1>5. ASSUME Pending("job"), ~Pending("job")' PROVE t.owner = "job"
    BY <1>2, <1>4, <1>5 DEF Pending
<1>6. t.owner = "job" => job.asked /\ t = Asks(job.pc) BY <1>3 DEF QueuedAt
<1>7. job.pc \notin {"idle", "clear"} => RemovesLive(t) \/ t.owner \in {"job", "build"}
    BY <1>2 DEF FeedInv, Turns
<1>8. t.owner = "build" => job.pc = "scan" BY <1>3 DEF QueuedAt
<1>9. RemovesLive(t) => idx'["next"] = idx["next"] BY <1>3 DEF RemovesLive, Effect, Refused, Wrote, MadeSure, Dropped, Exchanged, Other
<1> HIDE DEF t
<1>10. job.pc = "clear" /\ job.asked /\ ~Pending("job")' => idx'["next"].id = 0
    <2> SUFFICES ASSUME job.pc = "clear", job.asked, ~Pending("job")' PROVE idx'["next"].id = 0
        OBVIOUS
    <2>1. CASE t.owner = "job"
        <3>1. t.op = "remove" /\ t.name = "next" BY <1>6, <2>1 DEF Asks, Task
        <3> QED BY <1>3, <3>1 DEF Effect, Refused, Wrote, MadeSure, Dropped, Exchanged
    <2>2. CASE t.owner # "job"
        <3>1. ~Pending("job") BY <1>5, <2>2
        <3>2. RemovesLive(t)
            <4>1. RemovesLive(t) \/ \E j \in 1..Len(tasks) : tasks[j].owner = "job" BY <1>2 DEF FeedInv, Turns, t
            <4> QED BY <1>2, <3>1, <4>1 DEF Pending
        <3> QED BY <1>9, <3>1, <3>2 DEF FeedInv, Built
    <2> QED BY <2>1, <2>2
<1>11. job.pc = "fresh" => NextIsNew' /\ idx'["next"].docs = NoDocs
    <2> SUFFICES ASSUME job.pc = "fresh" PROVE NextIsNew' /\ idx'["next"].docs = NoDocs
        OBVIOUS
    <2>1. NextIsNew /\ idx["next"].docs = NoDocs BY DEF FeedInv, Built
    <2>2. CASE RemovesLive(t) BY <1>1, <1>9, <2>1, <2>2 DEF NextIsNew
    <2>3. CASE t.owner = "job"
        <3>1. t.op = "create" /\ t.name = "next" BY <1>6, <2>3 DEF Asks, Task
        <3>2. Ensured(t) /\ idx'["next"].docs = idx["next"].docs
            BY <1>3, <3>1 DEF Effect, Refused, Wrote, MadeSure, Dropped, Exchanged
        <3> QED BY <1>1, <1>3, <2>1, <3>1, <3>2 DEF Ensured, NextIsNew
    <2> QED BY <1>7, <1>8, <2>2, <2>3
<1>12. job.pc = "scan" =>
          /\ NextIsNew' /\ \A p \in job.left : idx'["next"].docs[p] = 0
          /\ \A p \in Profiles \ job.left :
                \/ Next1(p) \/ "build" \in bad'
                \/ \E i \in DOMAIN tasks' : tasks'[i].owner = "build" /\ tasks'[i].p = p
    <2> DEFINE Queued1(p) == \E i \in DOMAIN tasks' : tasks'[i].owner = "build" /\ tasks'[i].p = p
    <2> SUFFICES ASSUME job.pc = "scan"
                 PROVE  /\ NextIsNew' /\ \A p \in job.left : idx'["next"].docs[p] = 0
                        /\ \A p \in Profiles \ job.left : Next1(p) \/ "build" \in bad' \/ Queued1(p)
        OBVIOUS
    <2>1. /\ NextIsNew /\ \A p \in job.left : idx["next"].docs[p] = 0
          /\ \A p \in Profiles \ job.left :
                \/ UpToDate(idx["next"].docs[p], p, job.from) \/ "build" \in bad
                \/ \E i \in DOMAIN tasks : tasks[i].owner = "build" /\ tasks[i].p = p
        BY DEF FeedInv, Built
    <2>2. \A p : (\E i \in DOMAIN tasks : tasks[i].owner = "build" /\ tasks[i].p = p)
                    => Queued1(p) \/ (t.owner = "build" /\ t.p = p)
        BY <1>2, <1>4 DEF t
    <2> HIDE DEF Queued1
    <2>3. CASE RemovesLive(t)
        <3>1. t.owner # "build" BY <1>3, <2>3 DEF QueuedAt, RemovesLive, t
        <3>2. Dropped(t) BY <1>3, <2>3 DEF RemovesLive, Effect, Refused, Wrote, MadeSure, Exchanged
        <3>3. bad' = bad BY <3>2 DEF Dropped
        <3> QED BY <1>1, <1>9, <2>1, <2>2, <2>3, <3>1, <3>3 DEF NextIsNew
    <2>4. CASE t.owner = "build"
        <3>1. /\ t.op = "upsert" /\ t.name = "next" /\ t.p \in Profiles \ job.left
              /\ UpToDate(t.v, t.p, job.from)
            BY <1>3, <2>4 DEF QueuedAt, t
        <3>2. CASE Refused(t)
            <4>1. "build" \in bad' /\ idx' = idx BY <2>4, <3>2 DEF Refused
            <4> QED BY <1>1, <2>1, <4>1 DEF NextIsNew
        <3>3. CASE Wrote(t)
            <4>1. idx'["next"].docs = [idx["next"].docs EXCEPT ![t.p] = t.v] /\ bad' = bad /\ NextIsNew'
                BY <1>1, <1>3, <2>1, <3>1, <3>3 DEF Wrote, Ensured, NextIsNew
            <4>2. idx["next"].docs \in [Profiles -> Nat] /\ job.left \subseteq Profiles
                BY <1>3 DEF FeedInv, FeedTypes
            <4>3. idx'["next"].docs[t.p] = t.v /\ \A p \in Profiles \ {t.p} : idx'["next"].docs[p] = idx["next"].docs[p]
                BY <3>1, <4>1, <4>2
            <4>4. \A p \in job.left : idx'["next"].docs[p] = 0 BY <2>1, <3>1, <4>2, <4>3
            <4>5. ASSUME NEW p \in Profiles \ job.left PROVE Next1(p) \/ "build" \in bad' \/ Queued1(p)
                <5>1. CASE p = t.p BY <3>1, <4>3, <5>1
                <5>2. CASE p # t.p BY <2>1, <2>2, <4>1, <4>3, <5>2
                <5> QED BY <5>1, <5>2
            <4> QED BY <4>1, <4>4, <4>5
        <3> QED BY <1>3, <3>1, <3>2, <3>3 DEF Effect, MadeSure, Dropped, Exchanged
    <2>5. t.owner # "job" BY <1>6 DEF FeedInv, Turns, Steps
    <2> QED BY <1>7, <2>3, <2>4, <2>5
<1>13. job.pc = "ensure" \/ (job.pc = "swap" /\ (job.asked => Pending("job")')) =>
          NextIsNew' /\ \A p \in Profiles : Next1(p)
    <2> SUFFICES ASSUME job.pc = "ensure" \/ (job.pc = "swap" /\ (job.asked => Pending("job")'))
                 PROVE  NextIsNew' /\ \A p \in Profiles : Next1(p)
        OBVIOUS
    <2>1. Pending("job")' => Pending("job") BY <1>2 DEF Pending
    <2>2. NextIsNew /\ \A p \in Profiles : UpToDate(idx["next"].docs[p], p, job.from)
        BY <2>1 DEF FeedInv, Built
    <2>3. CASE idx'["next"] = idx["next"] BY <1>1, <2>2, <2>3 DEF NextIsNew
    <2>4. CASE t.owner = "job" /\ job.pc = "ensure"
        <3>1. t.op = "create" /\ t.name = "live" BY <1>6, <2>4 DEF Asks, Task
        <3> QED BY <1>3, <2>3, <3>1 DEF Effect, Refused, Wrote, MadeSure, Ensured, Dropped, Exchanged, Other
    <2>5. ~(t.owner = "job" /\ job.pc = "swap")
        <3> SUFFICES ASSUME t.owner = "job", job.pc = "swap" PROVE FALSE
            OBVIOUS
        <3>1. t.op = "swap" /\ Pending("job")' BY <1>6 DEF Asks, Task
        <3>2. PICK k \in 1..Len(tasks) : k # 1 /\ tasks[k].owner = "job"
            <4>1. PICK i \in 1..Len(tasks') : tasks'[i].owner = "job" BY <1>2, <3>1 DEF Pending
            <4>2. i + 1 \in 1..Len(tasks) /\ i + 1 # 1 /\ tasks[i + 1].owner = "job" BY <1>2, <4>1
            <4> QED BY <4>2
        <3>3. tasks[k].op = "swap"
            <4>1. tasks[k] = Asks(job.pc) BY <1>2, <3>2 DEF FeedInv, Queued, QueuedAt
            <4> QED BY <4>1 DEF Asks, Task
        <3>4. PICK j \in 1 + 1..k - 1 : RemovesNext(tasks[j])
            BY <1>2, <3>1, <3>2, <3>3 DEF FeedInv, SwapsApart, t
        <3>5. j \in DOMAIN tasks BY <1>2, <3>4
        <3>6. tasks[j].owner \in {"job", "build"} BY <3>4, <3>5 DEF FeedInv, Turns, RemovesLive, RemovesNext
        <3>7. tasks[j].owner = "job" /\ tasks[j] = Asks(job.pc) BY <3>5, <3>6 DEF FeedInv, Queued, QueuedAt
        <3> QED BY <3>4, <3>7 DEF Asks, Task, RemovesNext
    <2> QED BY <1>7, <1>8, <1>9, <2>3, <2>4, <2>5
<1> QED BY <1>1, <1>10, <1>11, <1>12, <1>13 DEF Built, UpToDate, ChangedSince

\* After the swap the live index is the one that was built, or none.
LEMMA EngineSwapped == ASSUME FeedInv, Engine PROVE Swapped'
<1> DEFINE t == tasks[1]
           Live(p) == UpToDate(idx'["live"].docs[p], p, job.from)
<1>1. UNCHANGED <<store, changes, watermark, known, indexer, job>> BY EngineEffect
<1>2. /\ Len(tasks) \in Nat \ {0} /\ Len(tasks') = Len(tasks) - 1
      /\ DOMAIN tasks = 1..Len(tasks) /\ DOMAIN tasks' = 1..Len(tasks')
      /\ \A i \in 1..Len(tasks') : tasks'[i] = tasks[i + 1]
    BY EngineEffect
<1>3. Effect(t) /\ t.name \in {"live", "next"} /\ QueuedAt(1)
    <2>1. 1 \in DOMAIN tasks BY <1>2
    <2> QED BY <2>1, EngineEffect DEF FeedInv, Queued, TaskType
<1>4. ASSUME NEW i \in 1..Len(tasks), i # 1 PROVE i - 1 \in DOMAIN tasks' /\ tasks'[i - 1] = tasks[i]
    BY <1>2, <1>4
<1>5. ASSUME Pending("job"), ~Pending("job")' PROVE t.owner = "job"
    BY <1>2, <1>4, <1>5 DEF Pending
<1>6. t.owner = "job" => job.asked /\ t = Asks(job.pc) BY <1>3 DEF QueuedAt
<1>7. job.pc \notin {"idle", "clear"} => RemovesLive(t) \/ t.owner \in {"job", "build"}
    BY <1>2 DEF FeedInv, Turns
<1>8. t.owner = "build" => job.pc = "scan" BY <1>3 DEF QueuedAt
<1> HIDE DEF t
<1>9. RemovesLive(t) => idx'["live"].id = 0
    BY <1>3 DEF RemovesLive, Effect, Refused, Wrote, MadeSure, Dropped, Exchanged
<1>10. SUFFICES ASSUME SwapDone', ~RemovesLive(t)
                PROVE  idx'["live"].id = 0 \/ (idx'["live"].id # known /\ \A p \in Profiles : Live(p))
    <2>1. job.pc = "remember" => watermark = job.from BY DEF FeedInv, Swapped
    <2> QED BY <1>1, <1>9, <2>1 DEF Swapped, UpToDate, ChangedSince
<1>11. job.pc \in {"swap", "tidy", "mark", "remember"} BY <1>1, <1>10 DEF SwapDone
<1>12. t.owner = "job" /\ t = Asks(job.pc) /\ job.asked BY <1>6, <1>7, <1>8, <1>10, <1>11
<1>13. job.pc \in {"swap", "tidy"} BY <1>11, <1>12 DEF FeedInv, Turns, Steps
<1>14. CASE job.pc = "swap"
    <2>1. t.op = "swap" BY <1>12, <1>14 DEF Asks, Task
    <2>2. "job" \notin bad' BY <1>1, <1>10, <1>14 DEF SwapDone
    <2>3. Exchanged(t) BY <1>3, <1>12, <2>1, <2>2 DEF Effect, Refused, Wrote, MadeSure, Dropped
    <2>4. Pending("job") BY <1>2, <1>12 DEF Pending, t
    <2>5. NextIsNew /\ \A p \in Profiles : UpToDate(idx["next"].docs[p], p, job.from)
        BY <1>14, <2>4 DEF FeedInv, Built
    <2> QED BY <2>3, <2>5 DEF Exchanged, NextIsNew
<1>15. CASE job.pc = "tidy"
    <2>1. t.op = "remove" /\ t.name = "next" BY <1>12, <1>15 DEF Asks, Task
    <2>2. idx'["live"] = idx["live"]
        BY <1>3, <2>1 DEF Effect, Refused, Wrote, MadeSure, Dropped, Exchanged, Other
    <2>3. SwapDone BY <1>15 DEF SwapDone
    <2> QED BY <2>2, <2>3 DEF FeedInv, Swapped
<1> QED BY <1>13, <1>14, <1>15

\* Initially nothing is known, indexed or queued.
LEMMA FeedInit == Init => FeedInv
<1> SUFFICES ASSUME Init PROVE FeedInv
    OBVIOUS
<1>1. /\ tasks = <<>> /\ DOMAIN tasks = {} /\ tasks \in Seq(TaskType) /\ changes \in Seq(Profiles) /\ Len(changes) = 0
    BY DEF Init
<1>2. job.pc = "idle" /\ ~job.asked BY DEF Init, NoJob
<1>3. FeedTypes
    <2>1. NoJob \in [pc : Steps \cup {"idle", "scan", "mark", "remember"}, asked : BOOLEAN,
                     from : 0..Len(changes), left : SUBSET Profiles]
        BY <1>1 DEF NoJob
    <2>2. [id |-> 0, docs |-> NoDocs] \in [id : Nat, docs : [Profiles -> Nat]] BY DEF NoDocs
    <2>3. idx \in [{"live", "next"} -> [id : Nat, docs : [Profiles -> Nat]]] BY <2>2 DEF Init
    <2> QED BY <1>1, <2>1, <2>3 DEF Init, FeedTypes
<1>4. Identities BY DEF Init, Identities
<1>5. Queued /\ Turns /\ SwapsApart BY <1>1, <1>2 DEF Init, Queued, Turns, SwapsApart
<1>6. KnownComplete /\ Built /\ Swapped BY <1>2 DEF Init, KnownComplete, Built, Swapped, SwapDone
<1> QED BY <1>3, <1>4, <1>5, <1>6 DEF FeedInv

\* Every step of the feed preserves the invariant.
LEMMA FeedNext == FeedInv /\ [Next]_vars => FeedInv'
<1> SUFFICES ASSUME FeedInv, [Next]_vars PROVE FeedInv'
    OBVIOUS
<1>1. CASE Engine BY <1>1, EngineQueue, EngineSwaps, EngineKnown, EngineBuilt, EngineSwapped DEF FeedInv
<1>2. ASSUME NEW p \in Profiles, Stored(p) PROVE FeedInv' BY <1>2, StoredStep
<1>3. CASE IndexerSends BY <1>3, IndexerSendsStep
<1>4. CASE IndexerDone BY <1>4, IndexerDoneStep
<1>5. CASE IndexerGivesUp BY <1>5, IndexerGivesUpStep
<1>6. CASE Begin BY <1>6, BeginStep
<1>7. CASE Call BY <1>7, CallStep
<1>8. CASE Returned BY <1>8, ReturnedStep
<1>9. CASE Scan BY <1>9, ScanStep
<1>10. CASE ScanDone BY <1>10, ScanDoneStep
<1>11. CASE Fails BY <1>11, FailsStep
<1>12. CASE Mark BY <1>12, MarkStep
<1>13. CASE Remember BY <1>13, RememberStep
<1>14. CASE Crash BY <1>14, CrashStep
<1>15. CASE Removed BY <1>15, RemovedStep
<1>16. CASE UNCHANGED vars
    <2> USE <1>16 DEF vars, FeedInv
    <2>1. FeedTypes' BY DEF FeedTypes, TaskType, AnyP, Steps
    <2>2. Identities' BY DEF Identities
    <2>3. Queued'
        <3>1. Asks(job.pc)' = Asks(job.pc) BY DEF Asks, Task
        <3> QED BY <3>1 DEF Queued, QueuedAt, UpsertsLive, ChangedSince, UpToDate
    <2>4. Turns' BY DEF Turns, RemovesLive
    <2>5. SwapsApart' BY SwapsStay
    <2>6. KnownComplete' BY DEF KnownComplete, Pending, ChangedSince, UpToDate
    <2>7. Built' BY DEF Built, NextIsNew, Pending, ChangedSince, UpToDate
    <2>8. Swapped' BY DEF Swapped, SwapDone, Pending, ChangedSince, UpToDate
    <2> QED BY <2>1, <2>2, <2>3, <2>4, <2>5, <2>6, <2>7, <2>8
<1> QED
    BY <1>1, <1>2, <1>3, <1>4, <1>5, <1>6, <1>7, <1>8, <1>9, <1>10, <1>11, <1>12, <1>13, <1>14, <1>15, <1>16 DEF Next

(***************************************************************************)
(* ReadyIsComplete for any number of profiles, changes, rebuilds and       *)
(* faults: whatever order changes, rebuilds, crashes, abandoned waits and  *)
(* removals come in (rebuild, buildInto, SwapWith, remember, Status), an   *)
(* index that reports ready with nothing under way has every profile.      *)
(***************************************************************************)
THEOREM SearchComplete == Spec => []ReadyIsComplete
<1>1. ASSUME FeedInv PROVE ReadyIsComplete
    <2> SUFFICES ASSUME Status = "ready", watermark = Len(changes) PROVE idx["live"].docs = store
        BY DEF ReadyIsComplete, Head0
    <2>1. idx["live"].id # 0 /\ known = idx["live"].id BY DEF Status
    <2>2. idx["live"].docs \in [Profiles -> Nat] /\ store \in [Profiles -> Nat] /\ Len(changes) \in Nat
        BY <1>1, LenProperties DEF FeedInv, FeedTypes
    <2>3. ASSUME NEW p \in Profiles PROVE idx["live"].docs[p] = store[p]
        <3>1. UpToDate(idx["live"].docs[p], p, watermark) BY <1>1, <2>1 DEF FeedInv, KnownComplete
        <3> QED BY <2>2, <3>1 DEF UpToDate, ChangedSince
    <2> QED BY <2>2, <2>3
<1> QED BY <1>1, FeedInit, FeedNext, PTL DEF Spec
=============================================================================
