--------------------------- MODULE StreamRecovery ---------------------------
(***************************************************************************)
(* The recovery manager of a stream (client/recovery.go): events that a    *)
(* destination refused or could not take are queued, saved to a store by   *)
(* one worker, retried in batches per destination by a ticker, and flushed *)
(* once more when the stream stops.  What is on disk survives a crash.     *)
(*                                                                         *)
(* An entry is an <<event, destination>> pair, as in the key of saveMeta.  *)
(* A batch works on the copies collectPending made, while the save worker  *)
(* may write the same entries.                                             *)
(***************************************************************************)
EXTENDS Integers, Sequences, FiniteSets

CONSTANTS
    Handed,      \* events the stream's flows hand over
    Dests,       \* destinations
    QueueCap,    \* capacity of saveQueue
    MaxRetries,
    MaxSaves, MaxOutages, MaxKills

Entries == Handed \X Dests
DestOf(x) == x[2]

ASSUME RecoveryAssumption == QueueCap \in Nat /\ MaxRetries \in Nat

VARIABLES
    phase,     \* "running", "cancelled" (Stop: the loops end), "flushing", "stopped", "crashed"
    queue,     \* saveQueue
    saving,    \* the save worker: {} or {[entry, step]}
    onDisk,    \* events in the recovery store, as entries
    meta,      \* BUCKET_RECOVERY: [entry -> attempts] of the saved entries
    due,       \* entries whose NextRetry has passed
    batch,     \* [destination -> the entries and attempts its batch still has], {} when none
    conns,     \* [destination -> "none", "open" or "dead"]
    relay,     \* [destination -> "up" or "down"]
    fate,      \* history: [entry -> what became of it last]
    count      \* [saves, outages, crashes] so far

rvars == <<phase, queue, saving, onDisk, meta, due, batch, conns, relay, fate, count>>

RInit ==
    /\ phase = "running"
    /\ queue = <<>> /\ saving = {} /\ onDisk = {}
    /\ meta = <<>> /\ due = {}
    /\ batch = [d \in Dests |-> {}]
    /\ conns = [d \in Dests |-> "none"]
    /\ relay = [d \in Dests |-> "up"]
    /\ fate = [x \in Entries |-> "new"]
    /\ count = [saves |-> 0, outages |-> 0, crashes |-> 0]

Saved == DOMAIN meta
Put(x, n) == [y \in Saved \union {x} |-> IF y = x THEN n ELSE meta[y]]
Removed(x) == [y \in Saved \ {x} |-> meta[y]]
Becomes(x, f) == fate' = [fate EXCEPT ![x] = f]

-----------------------------------------------------------------------------
(* Saving *)

\* SaveFailedEvent, by a flow of the stream; a full queue refuses the event, and
\* the flow counts it as lost.
SaveFailedEvent(x) ==
    /\ phase = "running" /\ count.saves < MaxSaves
    /\ count' = [count EXCEPT !.saves = @ + 1]
    /\ IF Len(queue) < QueueCap
       THEN queue' = Append(queue, x) /\ Becomes(x, "accepted")
       ELSE UNCHANGED <<queue, fate>>
    /\ UNCHANGED <<phase, saving, onDisk, meta, due, batch, conns, relay>>

\* saveWorker takes a request; cancelled, it drains what is queued and ends.
SaveTakes ==
    /\ phase \in {"running", "cancelled"} /\ saving = {} /\ queue # <<>>
    /\ saving' = {[entry |-> Head(queue), step |-> "insert"]}
    /\ queue' = Tail(queue)
    /\ UNCHANGED <<phase, onDisk, meta, due, batch, conns, relay, fate, count>>

\* saveEventSync: the event first, its metadata after it.
SaveInserts ==
    \E s \in saving :
        /\ s.step = "insert"
        /\ onDisk' = onDisk \union {s.entry}
        /\ saving' = {[s EXCEPT !.step = "meta"]}
        /\ UNCHANGED <<phase, queue, meta, due, batch, conns, relay, fate, count>>

\* saveMeta: a new save of the same entry starts its attempts anew.
SaveMeta ==
    \E s \in saving :
        /\ s.step = "meta"
        /\ meta' = Put(s.entry, 0)
        /\ due' = due \ {s.entry}
        /\ saving' = {}
        /\ UNCHANGED <<phase, queue, onDisk, batch, conns, relay, fate, count>>

-----------------------------------------------------------------------------
(* Retrying *)

\* NextRetry passes.
Due(x) ==
    /\ phase = "running" /\ x \in Saved \ due
    /\ due' = due \union {x}
    /\ UNCHANGED <<phase, queue, saving, onDisk, meta, batch, conns, relay, fate, count>>

\* collectPending and retryBatchGroups: a copy of every entry, by destination.
Batches(which) ==
    [d \in Dests |-> {[entry |-> x, attempts |-> meta[x]] : x \in {y \in which : DestOf(y) = d}}]

NoBatch == \A d \in Dests : batch[d] = {}

\* A tick of retryLoop; the next waits until every batch is done.
ProcessRetries ==
    /\ phase = "running" /\ NoBatch /\ due # {}
    /\ batch' = Batches(due)
    /\ UNCHANGED <<phase, queue, saving, onDisk, meta, due, conns, relay, fate, count>>

\* handleRetryFailure: on the batch's copy of the attempts.
RetryFailure(m) ==
    /\ due' = due \ {m.entry}
    /\ IF m.attempts + 1 >= MaxRetries
       THEN meta' = Removed(m.entry) /\ Becomes(m.entry, "dropped")
       ELSE meta' = Put(m.entry, m.attempts + 1) /\ UNCHANGED fate

Running == phase \in {"running", "flushing"}

\* getConnection: a pooled connection, or a new one.
Dial(d) ==
    /\ Running /\ batch[d] # {} /\ conns[d] = "none" /\ relay[d] = "up"
    /\ conns' = [conns EXCEPT ![d] = "open"]
    /\ UNCHANGED <<phase, queue, saving, onDisk, meta, due, batch, relay, fate, count>>

\* The dial fails: one attempt of each entry of the batch is spent.
DialFails(d, m) ==
    /\ Running /\ m \in batch[d] /\ conns[d] = "none" /\ relay[d] = "down"
    /\ RetryFailure(m)
    /\ batch' = [batch EXCEPT ![d] = @ \ {m}]
    /\ UNCHANGED <<phase, queue, saving, onDisk, conns, relay, count>>

\* PublishEvent is answered: delivered, and its metadata deleted.
Delivered(d, m) ==
    /\ Running /\ m \in batch[d] /\ conns[d] = "open" /\ relay[d] = "up"
    /\ meta' = Removed(m.entry) /\ due' = due \ {m.entry}
    /\ Becomes(m.entry, "delivered")
    /\ batch' = [batch EXCEPT ![d] = @ \ {m}]
    /\ UNCHANGED <<phase, queue, saving, onDisk, conns, relay, count>>

\* Mutant: the dead connection stays in the pool.
PublishFailsKeeps(d, m) ==
    /\ Running /\ m \in batch[d] /\ conns[d] = "dead"
    /\ RetryFailure(m)
    /\ batch' = [batch EXCEPT ![d] = @ \ {m}]
    /\ UNCHANGED <<phase, queue, saving, onDisk, conns, relay, count>>

\* PublishEvent fails on a dead connection, which leaves the pool.
PublishFails(d, m) ==
    /\ Running /\ m \in batch[d] /\ conns[d] = "dead"
    /\ RetryFailure(m)
    /\ conns' = [conns EXCEPT ![d] = IF batch[d] = {m} THEN "none" ELSE "dead"]
    /\ batch' = [batch EXCEPT ![d] = @ \ {m}]
    /\ UNCHANGED <<phase, queue, saving, onDisk, relay, count>>

\* The destination goes away, and with it an open connection, or comes back.
Outage(d) ==
    /\ relay[d] = "up" /\ count.outages < MaxOutages
    /\ count' = [count EXCEPT !.outages = @ + 1]
    /\ relay' = [relay EXCEPT ![d] = "down"]
    /\ conns' = [conns EXCEPT ![d] = IF @ = "open" THEN "dead" ELSE @]
    /\ UNCHANGED <<phase, queue, saving, onDisk, meta, due, batch, fate>>

Returns(d) ==
    /\ relay[d] = "down"
    /\ relay' = [relay EXCEPT ![d] = "up"]
    /\ UNCHANGED <<phase, queue, saving, onDisk, meta, due, batch, conns, fate, count>>

-----------------------------------------------------------------------------
(* Stop, crash, restart *)

\* Stop cancels rm.ctx: a batch leaves the entries it has not tried as they are.
Cancel ==
    /\ phase = "running"
    /\ phase' = "cancelled"
    /\ batch' = [d \in Dests |-> {}]
    /\ UNCHANGED <<queue, saving, onDisk, meta, due, conns, relay, fate, count>>

\* Mutant: the flush starts without waiting for the save worker's drain.
FlushSoon ==
    /\ phase = "cancelled"
    /\ phase' = "flushing"
    /\ saving' = {} /\ queue' = <<>>
    /\ batch' = Batches(Saved)
    /\ conns' = [d \in Dests |-> "none"]
    /\ UNCHANGED <<onDisk, meta, due, relay, fate, count>>

\* Both loops have ended, the queue is drained: flushPending, whatever NextRetry says.
Flush ==
    /\ phase = "cancelled" /\ queue = <<>> /\ saving = {}
    /\ phase' = "flushing"
    /\ batch' = Batches(Saved)
    /\ conns' = [d \in Dests |-> "none"]
    /\ UNCHANGED <<queue, saving, onDisk, meta, due, relay, fate, count>>

\* The batches are done, or the flush's deadline passes; the store is closed.
Stopped ==
    /\ phase = "flushing"
    /\ phase' = "stopped"
    /\ batch' = [d \in Dests |-> {}]
    /\ conns' = [d \in Dests |-> "none"]
    /\ UNCHANGED <<queue, saving, onDisk, meta, due, relay, fate, count>>

\* The process dies: what was queued or half saved is gone, the rest is on disk.
Crash ==
    /\ phase \in {"running", "cancelled", "flushing"} /\ count.crashes < MaxKills
    /\ count' = [count EXCEPT !.crashes = @ + 1]
    /\ phase' = "crashed"
    /\ fate' = [x \in Entries |-> IF x \in {queue[i] : i \in DOMAIN queue} \union {s.entry : s \in saving}
                                  THEN "crashed" ELSE fate[x]]
    /\ queue' = <<>> /\ saving' = {}
    /\ batch' = [d \in Dests |-> {}]
    /\ conns' = [d \in Dests |-> "none"]
    /\ UNCHANGED <<onDisk, meta, due, relay>>

\* NewRecoveryManager on the same path, and Start.
StartAgain ==
    /\ phase \in {"stopped", "crashed"}
    /\ phase' = "running"
    /\ UNCHANGED <<queue, saving, onDisk, meta, due, batch, conns, relay, fate, count>>

RNext ==
    \/ \E x \in Entries : SaveFailedEvent(x) \/ Due(x)
    \/ SaveTakes \/ SaveInserts \/ SaveMeta
    \/ ProcessRetries
    \/ \E d \in Dests :
        \/ Dial(d) \/ Outage(d) \/ Returns(d)
        \/ \E m \in batch[d] : DialFails(d, m) \/ Delivered(d, m) \/ PublishFails(d, m)
    \/ Cancel \/ Flush \/ Stopped \/ Crash \/ StartAgain

RSpec == RInit /\ [][RNext]_rvars

\* A batch goes on: one of its messages is delivered or fails.
BatchStep(d) == \E m \in batch[d] : DialFails(d, m) \/ Delivered(d, m) \/ PublishFails(d, m)

\* The worker, the ticker and the batches run, and time passes.
RFairness ==
    /\ WF_rvars(SaveTakes) /\ WF_rvars(SaveInserts) /\ WF_rvars(SaveMeta) /\ WF_rvars(ProcessRetries)
    /\ \A x \in Entries : WF_rvars(Due(x))
    /\ \A d \in Dests :
        /\ WF_rvars(Dial(d))
        /\ WF_rvars(BatchStep(d))

RFairSpec == RSpec /\ RFairness

-----------------------------------------------------------------------------
(* Properties *)

Copy == [entry : Entries, attempts : Nat]

RTypeOK ==
    /\ phase \in {"running", "cancelled", "flushing", "stopped", "crashed"}
    /\ queue \in Seq(Entries)
    /\ saving \subseteq [entry : Entries, step : {"insert", "meta"}]
    /\ onDisk \subseteq Entries /\ Saved \subseteq Entries /\ due \subseteq Saved
    /\ meta \in [Saved -> Nat]
    /\ batch \in [Dests -> SUBSET Copy]
    /\ conns \in [Dests -> {"none", "open", "dead"}]
    /\ relay \in [Dests -> {"up", "down"}]
    /\ fate \in [Entries -> {"new", "accepted", "delivered", "dropped", "crashed"}]

InQueue(x) == \E i \in DOMAIN queue : queue[i] = x
InHand(x) == \E s \in saving : s.entry = x

\* An event handed to recovery is delivered, dropped after its attempts, or still
\* held: in the queue, in the save worker's hands, or on disk with its metadata,
\* also after Stop and a restart (Stop: "anything left over stays durably on disk
\* for the next run to pick up").  Only a crash before the save forgets it.
NothingForgotten ==
    \A x \in Entries : fate[x] = "accepted" =>
        InQueue(x) \/ InHand(x) \/ (x \in Saved /\ x \in onDisk)

Waiting(x) == x \in Saved /\ meta[x] = 0 /\ NoBatch
Reachable(x) == relay[DestOf(x)] = "up" /\ phase = "running"
Arrived(x) == fate[x] = "delivered"

\* An entry just saved is delivered if its destination stays up and the stream
\* keeps running, even where the pool still holds a connection that died before
\* (retryLoop, getConnection, processBatch).
ReachableDelivers ==
    \A x \in Entries :
        [](Waiting(x) /\ []Reachable(x) => <>Arrived(x))
=============================================================================
