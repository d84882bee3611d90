------------------------------ MODULE NegSync -------------------------------
(***************************************************************************)
(* The sync workflow (client/neg_sync.go): NIP-77 reconciliation of a      *)
(* local store with one relay, then pulling what it lacks and pushing what *)
(* the relay lacks, in batches.  The negentropy rounds are taken from the  *)
(* library: a round reveals some of the differences and the last one none. *)
(* The order of the ids is the library's; a batch is any of those left.    *)
(***************************************************************************)
EXTENDS Integers, FiniteSets

CONSTANTS
    Events,
    InFirst,       \* events the first filter matches (the one NEG-OPEN carries)
    Weak,          \* events whose proof of work does not hold
    Unwanted,      \* events the relay rejects
    MaxLimit,      \* the most events the relay returns for a REQ
    BatchSize,     \* PullBatchSize
    MaxRounds,     \* MaxReconcileRounds
    Directions,    \* subset of {"down", "up", "both"}
    StrictPow,     \* strictPow and not Trusted
    MaxFaults, MaxRuns

VARIABLES
    dir,
    local, remote,  \* the two stores
    pc,             \* "idle", "rounds", "pull", "pulling", "push", "pushing"
    round,
    items,          \* allItems: what the local store had when the run began
    have, need,     \* haveIDs, needIDs
    pending, batch, \* ids left, the batch in flight
    coming,         \* events the relay sends for the REQ in flight
    got,            \* events of this batch received (returned)
    acks,           \* events sent, no OK yet
    unserved, pushed,
    complete,       \* the last run ended with every difference found and every answer served
    faults, runs

vars == <<dir, local, remote, pc, round, items, have, need, pending, batch, coming, got, acks, unserved,
          pushed, complete, faults, runs>>

Init ==
    /\ dir \in Directions
    /\ local \in SUBSET Events /\ remote \in SUBSET Events
    /\ pc = "idle" /\ round = 0 /\ items = {} /\ have = {} /\ need = {}
    /\ pending = {} /\ batch = {} /\ coming = {} /\ got = {} /\ acks = {}
    /\ unserved = {} /\ pushed = {} /\ complete = FALSE /\ faults = 0 /\ runs = 0

Min2(m, n) == IF m < n THEN m ELSE n
Fault == faults < MaxFaults /\ faults' = faults + 1

\* The differences reconciliation can find: the relay answers for the first filter only.
Have == items \ (remote \intersect InFirst)
Need == (remote \intersect InFirst) \ items

\* execute up to NEG-OPEN: the items of every filter are loaded, the relay is dialed.
Open ==
    /\ pc = "idle" /\ runs < MaxRuns
    /\ runs' = runs + 1 /\ round' = 0 /\ items' = local
    /\ have' = {} /\ need' = {} /\ unserved' = {} /\ pushed' = {} /\ complete' = FALSE
    /\ pc' = "rounds"
    /\ UNCHANGED <<dir, local, remote, pending, batch, coming, got, acks, faults>>

\* The store does not open, a query, the dial or the login fails.
OpenFails ==
    /\ pc = "idle" /\ runs < MaxRuns /\ Fault
    /\ runs' = runs + 1 /\ complete' = FALSE
    /\ UNCHANGED <<dir, local, remote, pc, round, items, have, need, pending, batch, coming, got, acks,
                   unserved, pushed>>

ToPull(h, n) == pc' = "pull" /\ pending' = IF dir \in {"down", "both"} THEN n ELSE {}

\* NEG-MSG: some differences more; complete when none is left, else the next round.
Round ==
    /\ pc = "rounds" /\ round < MaxRounds
    /\ \E h \in SUBSET (Have \ have), n \in SUBSET (Need \ need) :
        /\ have' = have \union h /\ need' = need \union n
        /\ IF have' = Have /\ need' = Need
           THEN complete' = TRUE /\ ToPull(have', need')
           ELSE UNCHANGED <<pc, pending, complete>>
    /\ round' = round + 1
    /\ UNCHANGED <<dir, local, remote, items, batch, coming, got, acks, unserved, pushed, faults, runs>>

\* A NOTICE or another message also uses up a round.
RoundWasted ==
    /\ pc = "rounds" /\ round < MaxRounds /\ Fault
    /\ round' = round + 1
    /\ UNCHANGED <<dir, local, remote, pc, items, have, need, pending, batch, coming, got, acks, unserved,
                   pushed, complete, runs>>

\* Max rounds: sync what was found so far.
RoundsOver ==
    /\ pc = "rounds" /\ round = MaxRounds
    /\ ToPull(have, need)
    /\ UNCHANGED <<dir, local, remote, round, items, have, need, batch, coming, got, acks, unserved, pushed,
                   complete, faults, runs>>

\* NEG-ERR, a connection error or the context's end anywhere ends the run.
RunFails ==
    /\ pc # "idle" /\ Fault
    /\ pc' = "idle" /\ pending' = {} /\ batch' = {} /\ coming' = {} /\ got' = {} /\ acks' = {}
    /\ complete' = FALSE
    /\ UNCHANGED <<dir, local, remote, round, items, have, need, unserved, pushed, runs>>

-----------------------------------------------------------------------------
(* pullEvents *)

\* The next batch: BatchSize of the ids left, or all of them.
Batches == {b \in SUBSET pending : Cardinality(b) = Min2(Cardinality(pending), BatchSize)}

\* A batch's REQ; the relay returns at most MaxLimit of it, then EOSE.
PullAsk ==
    /\ pc = "pull" /\ pending # {}
    /\ \E b \in Batches :
        /\ batch' = b /\ pending' = pending \ b
        /\ \E c \in SUBSET (b \intersect remote) :
            /\ Cardinality(c) = Min2(Cardinality(b \intersect remote), MaxLimit)
            /\ coming' = c
    /\ got' = {} /\ pc' = "pulling"
    /\ UNCHANGED <<dir, local, remote, round, items, have, need, acks, unserved, pushed, complete, faults, runs>>

\* The relay drops an event it advertised before it is asked for.
RelayForgets ==
    /\ pc = "pull" /\ Fault
    /\ \E e \in need \intersect remote : remote' = remote \ {e}
    /\ UNCHANGED <<dir, local, pc, round, items, have, need, pending, batch, coming, got, acks, unserved,
                   pushed, complete, runs>>

PullEvent ==
    /\ pc = "pulling" /\ \E e \in coming : coming' = coming \ {e} /\ got' = got \union {e}
    /\ UNCHANGED <<dir, local, remote, pc, round, items, have, need, pending, batch, acks, unserved, pushed,
                   complete, faults, runs>>

\* Mutant: what a batch did not return is not asked for again.
AskAgainNever(missing) == {}

\* Missing ids are asked for again while batches still return something.
AskAgain(missing) == IF got # {} THEN missing ELSE {}

HasValidPow(e) == e \notin Weak

\* EOSE: insert the batch, less the events --strict-pow drops.
PullEose ==
    /\ pc = "pulling" /\ coming = {}
    /\ local' = local \union {e \in got : StrictPow => HasValidPow(e)}
    /\ pending' = AskAgain(batch \ got) \union pending
    /\ unserved' = IF got = {} THEN unserved \union batch ELSE unserved
    /\ batch' = {} /\ got' = {} /\ pc' = "pull"
    /\ UNCHANGED <<dir, remote, round, items, have, need, coming, acks, pushed, complete, faults, runs>>

\* InsertEvents fails: logged, the run goes on.
InsertFails ==
    /\ pc = "pulling" /\ coming = {} /\ got # {} /\ Fault
    /\ pending' = AskAgain(batch \ got) \union pending
    /\ complete' = FALSE
    /\ batch' = {} /\ got' = {} /\ pc' = "pull"
    /\ UNCHANGED <<dir, local, remote, round, items, have, need, coming, acks, unserved, pushed, runs>>

PullDone ==
    /\ pc = "pull" /\ pending = {}
    /\ pc' = "push"
    /\ pending' = IF dir \in {"up", "both"} THEN have ELSE {}
    /\ UNCHANGED <<dir, local, remote, round, items, have, need, batch, coming, got, acks, unserved, pushed,
                   complete, faults, runs>>

-----------------------------------------------------------------------------
(* pushEvents *)

\* What the local store still holds of a batch.
ReadEventsFromStoreByIDs(ids) == ids \intersect local

\* A batch is read from the store and sent.
PushSend ==
    /\ pc = "push" /\ pending # {}
    /\ \E b \in Batches : acks' = ReadEventsFromStoreByIDs(b) /\ pending' = pending \ b
    /\ pc' = "pushing"
    /\ UNCHANGED <<dir, local, remote, round, items, have, need, batch, coming, got, unserved, pushed,
                   complete, faults, runs>>

\* The relay takes or rejects an event, and its OK comes back.
PushOk ==
    /\ pc = "pushing"
    /\ \E e \in acks :
        /\ acks' = acks \ {e}
        /\ remote' = IF e \in Unwanted THEN remote ELSE remote \union {e}
        /\ pushed' = IF e \in Unwanted THEN pushed ELSE pushed \union {e}
    /\ UNCHANGED <<dir, local, pc, round, items, have, need, pending, batch, coming, got, unserved, complete,
                   faults, runs>>

\* No OK for it within pushAckTimeout; the relay may have taken it.
PushTimeout ==
    /\ pc = "pushing" /\ acks # {} /\ Fault
    /\ \E taken \in SUBSET (acks \ Unwanted) : remote' = remote \union taken
    /\ acks' = {} /\ complete' = FALSE
    /\ UNCHANGED <<dir, local, pc, round, items, have, need, pending, batch, coming, got, unserved, pushed, runs>>

\* Mutant: the next batch, or the close, does not wait for the OKs.
PushWaitedNot == TRUE

\* A batch's OKs are waited for before the next one, or the close.
PushWaited == acks = {}

PushDone ==
    /\ pc = "pushing" /\ PushWaited
    /\ pc' = "push"
    /\ acks' = {}
    /\ UNCHANGED <<dir, local, remote, round, items, have, need, pending, batch, coming, got, unserved,
                   pushed, complete, faults, runs>>

Done ==
    /\ pc = "push" /\ pending = {}
    /\ pc' = "idle"
    /\ UNCHANGED <<dir, local, remote, round, items, have, need, pending, batch, coming, got, acks, unserved,
                   pushed, complete, faults, runs>>

Next ==
    \/ Open \/ OpenFails \/ Round \/ RoundWasted \/ RoundsOver \/ RunFails \/ PullAsk \/ RelayForgets
    \/ PullEvent \/ PullEose \/ InsertFails \/ PullDone \/ PushSend \/ PushOk \/ PushTimeout \/ PushDone \/ Done

Spec == Init /\ [][Next]_vars

-----------------------------------------------------------------------------
(* Properties *)

Kept == IF StrictPow THEN Weak ELSE {}

\* A run that ended with every difference found leaves both stores with what the other
\* had, whatever the relay's limit and the batches were: pulled or reported unserved,
\* pushed or rejected (execute, pullEvents, pushEvents).
SyncComplete ==
    pc = "idle" /\ complete =>
        /\ dir \in {"down", "both"} => (remote \intersect InFirst) \subseteq local \union Kept \union unserved
        /\ dir \in {"up", "both"} => items \subseteq remote \union Unwanted
=============================================================================
