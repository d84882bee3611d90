---------------------------- MODULE StreamLocal -----------------------------
(***************************************************************************)
(* A local destination of a stream: LocalSubscription.Write, writeOneSafe  *)
(* and writeOne (client/stream.go).  One dispatch loop reads events, takes *)
(* the deletion barrier in read order and hands each event to one of       *)
(* Workers workers; a failed write ends the cycle and the flow retries.    *)
(* The event store is external: a deletion removes its target if the       *)
(* target is there, and leaves nothing behind for one that comes later.    *)
(***************************************************************************)
EXTENDS Integers, Sequences, FiniteSets

CONSTANTS
    Input,      \* the sequence of events delivered to the destination
    TargetOf,   \* [event -> the event it deletes, or itself]
    Workers,    \* writeConcurrency
    MaxFaults   \* failed writes and panics at most

Events == {Input[i] : i \in DOMAIN Input}
IsDelete(e) == TargetOf[e] # e

VARIABLES
    taken,    \* how many of Input the dispatch loop has read, over all cycles
    disp,     \* the dispatch loop: "select", "lock", "spawn", "wait", "retry", "closed"
    shared,   \* events that hold deleteBarrier's RLock
    excl,     \* events that hold its Lock
    work,     \* [event -> "insert" or "report"] of the running workers
    store,    \* events in the store
    acked,    \* events whose acceptance was reported
    failed,   \* errors of this cycle, and of those before
    broken    \* whether a worker failed in this cycle: gctx is done

vars == <<taken, disp, shared, excl, work, store, acked, failed, broken>>

Init ==
    /\ taken = 0 /\ disp = "select"
    /\ shared = {} /\ excl = {} /\ work = <<>>
    /\ store = {} /\ acked = {} /\ failed = {} /\ broken = FALSE

Current == Input[taken]
Busy == DOMAIN work

\* The loop's select takes the next event, even if gctx is done as well.
Take ==
    /\ disp = "select" /\ taken < Len(Input)
    /\ taken' = taken + 1
    /\ disp' = "lock"
    /\ UNCHANGED <<shared, excl, work, store, acked, failed, broken>>

\* Mutant: a deletion takes the barrier as an insert does.
LockShared ==
    /\ disp = "lock" /\ excl = {}
    /\ shared' = shared \union {Current}
    /\ disp' = "spawn"
    /\ UNCHANGED <<taken, excl, work, store, acked, failed, broken>>

\* The barrier is taken here, in read order: RLock for an insert, Lock for a deletion.
Lock ==
    /\ disp = "lock" /\ excl = {}
    /\ IF IsDelete(Current)
       THEN shared = {} /\ excl' = {Current} /\ UNCHANGED shared
       ELSE shared' = shared \union {Current} /\ UNCHANGED excl
    /\ disp' = "spawn"
    /\ UNCHANGED <<taken, work, store, acked, failed, broken>>

\* g.Go waits for a free worker.
Spawn ==
    /\ disp = "spawn" /\ Cardinality(Busy) < Workers
    /\ work' = [e \in Busy \union {Current} |-> IF e = Current THEN "insert" ELSE work[e]]
    /\ disp' = "select"
    /\ UNCHANGED <<taken, shared, excl, store, acked, failed, broken>>

\* writeOne: the store runs the insert task.
Insert(e) ==
    /\ e \in Busy /\ work[e] = "insert"
    /\ store' = (store \ (IF IsDelete(e) THEN {TargetOf[e]} ELSE {})) \union {e}
    /\ work' = [work EXCEPT ![e] = "report"]
    /\ UNCHANGED <<taken, disp, shared, excl, acked, failed, broken>>

Done(e) ==
    /\ work' = [x \in Busy \ {e} |-> work[x]]
    /\ shared' = shared \ {e} /\ excl' = excl \ {e}

\* It reports acceptance, and the worker's deferred unlock runs.
Report(e) ==
    /\ e \in Busy /\ work[e] = "report"
    /\ acked' = acked \union {e}
    /\ Done(e)
    /\ UNCHANGED <<taken, disp, store, failed, broken>>

\* Mutant: the panic leaves the lock taken.
FailKeepsLock(e) ==
    /\ e \in Busy /\ work[e] = "insert" /\ Cardinality(failed) < MaxFaults
    /\ failed' = failed \union {e} /\ broken' = TRUE
    /\ work' = [x \in Busy \ {e} |-> work[x]]
    /\ UNCHANGED <<taken, disp, shared, excl, store, acked>>

\* The store fails, or writeOneSafe turns a panic into an error.
Fail(e) ==
    /\ e \in Busy /\ work[e] = "insert" /\ Cardinality(failed) < MaxFaults
    /\ failed' = failed \union {e} /\ broken' = TRUE
    /\ Done(e)
    /\ UNCHANGED <<taken, disp, store, acked>>

\* The loop sees gctx done, or the flow closed.
Leave ==
    /\ disp = "select" /\ broken
    /\ disp' = "wait"
    /\ UNCHANGED <<taken, shared, excl, work, store, acked, failed, broken>>

\* g.Wait returns: the first error goes to handleFlow, which reloads the flow.
Wait ==
    /\ disp = "wait" /\ Busy = {}
    /\ disp' = "retry"
    /\ UNCHANGED <<taken, shared, excl, work, store, acked, failed, broken>>

\* StreamWorker.Retry runs Write again, with a new errgroup.
Retry ==
    /\ disp = "retry"
    /\ disp' = "select" /\ broken' = FALSE
    /\ UNCHANGED <<taken, shared, excl, work, store, acked, failed>>

\* Close: fc is closed and the loop ends; the workers' tasks are abandoned.
Close ==
    /\ disp \in {"select", "retry"}
    /\ disp' = "closed"
    /\ work' = <<>> /\ shared' = {} /\ excl' = {}
    /\ UNCHANGED <<taken, store, acked, failed, broken>>

Next ==
    \/ Take \/ Lock \/ Spawn \/ Leave \/ Wait \/ Retry \/ Close
    \/ \E e \in Events : Insert(e) \/ Report(e) \/ Fail(e)

Spec == Init /\ [][Next]_vars

\* The store answers every task, and the loops run.
Fairness ==
    /\ WF_vars(Take) /\ WF_vars(Lock) /\ WF_vars(Spawn) /\ WF_vars(Leave) /\ WF_vars(Wait)
    /\ WF_vars(Retry)
    /\ \A e \in Events : WF_vars(Insert(e)) /\ WF_vars(Report(e))

FairSpec == Spec /\ Fairness

-----------------------------------------------------------------------------
Position(e) == CHOOSE i \in DOMAIN Input : Input[i] = e

\* A deletion written after its target was read leaves the target deleted, however
\* the workers run: the barrier orders the two (deleteBarrier, LocalSubscription).
DeletionTakesEffect ==
    \A d \in Events : IsDelete(d) /\ d \in store /\ Position(TargetOf[d]) < Position(d) =>
        TargetOf[d] \notin store

Accounted(e) == e \in acked \union failed \/ disp = "closed"

\* Every event delivered is accepted or has failed, unless the flow is closed: a
\* failure of one neither loses the others nor stops the destination (the dispatch
\* loop waits for its workers, and each uses the parent's context).
EveryEventEnds == \A e \in Events : <>Accounted(e)

\* Each event is delivered once: nothing is promised of one that comes again
\* after its deletion.
LocalAssumption ==
    /\ Input \in Seq(Events)
    /\ \A i, j \in DOMAIN Input : Input[i] = Input[j] => i = j
=============================================================================
