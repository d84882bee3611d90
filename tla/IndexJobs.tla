------------------------------ MODULE IndexJobs ------------------------------
(***************************************************************************)
(* The relay's index jobs (cli/relay/jobs): Manager, which runs at most    *)
(* one job per index and keeps a history across restarts, and Reconciler,  *)
(* which starts what each index needs.  Start, Cancel, Wait, Shutdown and  *)
(* the end of a job are sections under m.mu; a job's own goroutine         *)
(* (execute) runs between them.                                            *)
(*                                                                         *)
(* What an index needs, and how its operations end, is up to the index     *)
(* (Status and Run, backed by nmilat's store and Meilisearch): any need    *)
(* may arise and any operation may fail or stop when told to.  Jobs are    *)
(* numbered in the order they start.                                       *)
(***************************************************************************)
EXTENDS Naturals, FiniteSets, Sequences

CONSTANTS
    Indexes,
    Enabled,        \* those that are on
    StoreIndexes,   \* those whose WritesStore() is true
    Admins,         \* concurrent admin calls of Start
    Needs,          \* the kinds of job the Status of each index may ask for
    MaxJobs,        \* bound on jobs
    KeptJobs,       \* keptJobs
    CrashLoopRuns,  \* crashLoopRuns
    Window,         \* crashLoopWindow
    MaxTime         \* bound on the clock

Kinds == {"catch_up", "rebuild", "rescore", "reap", "drop"}

\* What the constants of an instance satisfy.
JobsAssumption ==
    /\ StoreIndexes \subseteq Indexes /\ Enabled \subseteq Indexes
    /\ Needs \in [Indexes -> SUBSET (Kinds \ {"drop"})]
    /\ MaxJobs \in Nat /\ MaxTime \in Nat /\ Window \in Nat
    /\ CrashLoopRuns \in Nat \ {0} /\ KeptJobs \in Nat /\ CrashLoopRuns <= KeptJobs

VARIABLES
    now,
    up,        \* the process runs
    closed,    \* m.closed
    running,   \* m.running: the job of each index, 0 if none
    job,       \* every job started, with its goroutine's position
    started,   \* number of jobs started
    hist,      \* m.history of each index, newest first
    file,      \* the job file: per index, the running job and the history
    writer,    \* the job holding m.writer, 0 if free
    admin,     \* admin calls of Start in progress
    rec        \* the reconciler's pass: indexes left to scan, what is due, whether
               \* a store index is brought current, the failures counted

mgrVars == <<running, started, hist, file>>
vars == <<now, up, closed, mgrVars, job, writer, admin, rec>>

Jobs == 1..MaxJobs

\* cancel causes, and how an operation may return
Causes == {"none", "cancelled", "superseded", "shutdown"}
Ends == {"ok", "error", "stopped"}

NoJob == [pc |-> "unused", index |-> "none", kind |-> "none", trigger |-> "none",
          cause |-> "none", seen |-> "none", end |-> "ok", at |-> 0]

IdleAdmin == [index |-> "none", kind |-> "none", on |-> 0]

\* A job as the history and the file have it.
Record(jobs, j, state) == [id |-> j, state |-> state, died |-> FALSE, parked |-> FALSE,
                           trigger |-> jobs[j].trigger, at |-> jobs[j].at]

\* A job whose goroutine no longer works: what the properties ask of it.
Past(jb, pc) == [NoJob EXCEPT !.pc = pc, !.index = jb.index, !.trigger = jb.trigger,
                              !.at = jb.at, !.end = IF jb.end = "ok" THEN "ok" ELSE "error"]

-----------------------------------------------------------------------------
(* The history and its file *)

\* Mutant: off by one in the bound.
NewestLate(s, n) == IF Len(s) <= n + 1 THEN s ELSE SubSeq(s, 1, n)

\* trimLocked, for one index.
Newest(s, n) == IF Len(s) <= n THEN s ELSE SubSeq(s, 1, n)

\* saveLocked: the running job, then the finished ones.
Saved(run, h, jobs) ==
    [i \in Indexes |->
        (IF run[i] = 0 THEN <<>> ELSE <<Record(jobs, run[i], "running")>>) \o h[i]]

\* load: a job recorded as running died with the process.
Died(r) == IF r.state = "running" THEN [r EXCEPT !.state = "interrupted", !.died = TRUE] ELSE r

\* Mutant: off by one in the number of deaths.
LoopsLate(h) ==
    /\ Len(h) >= CrashLoopRuns + 1
    /\ \A n \in 1..CrashLoopRuns + 1 : h[n].state = "interrupted" /\ h[n].died
    /\ h[1].at - h[CrashLoopRuns + 1].at <= Window

\* parkLocked: the newest of CrashLoopRuns deaths in a row within Window.
Loops(h) ==
    /\ Len(h) >= CrashLoopRuns
    /\ \A n \in 1..CrashLoopRuns : h[n].state = "interrupted" /\ h[n].died
    /\ h[1].at - h[CrashLoopRuns].at <= Window

Park(h) ==
    IF Loops(h) THEN [h EXCEPT ![1].state = "failed", ![1].parked = TRUE] ELSE h

\* load, for one index, before parking: the newest KeptJobs records.  They
\* are in the order of their start already, newest first.
Revived(f) == Newest([n \in DOMAIN f |-> Died(f[n])], KeptJobs)

\* Parked: what LastJob says.
Parked(i) == hist[i] # <<>> /\ hist[i][1].parked

-----------------------------------------------------------------------------
\* The reconciler about to begin a pass.
FreshPass(counted) == [left |-> Indexes, due |-> {}, busy |-> FALSE, counted |-> counted]

Init ==
    /\ now = 0 /\ up = TRUE /\ closed = FALSE
    /\ running = [i \in Indexes |-> 0]
    /\ job = [j \in Jobs |-> NoJob]
    /\ started = 0
    /\ hist = [i \in Indexes |-> <<>>]
    /\ file = [i \in Indexes |-> <<>>]
    /\ writer = 0
    /\ admin = [a \in Admins |-> IdleAdmin]
    /\ rec = FreshPass([i \in Indexes |-> 0])

Tick ==
    /\ now < MaxTime /\ now' = now + 1
    /\ UNCHANGED <<up, closed, mgrVars, job, writer, admin, rec>>

-----------------------------------------------------------------------------
(* Manager.Start *)

NewJob(i, k, trigger) ==
    [NoJob EXCEPT !.pc = IF i \in StoreIndexes THEN "waiting" ELSE "performing",
                  !.index = i, !.kind = k, !.trigger = trigger, !.at = now]

\* A job begins: recorded as running, saved, and its goroutine started.
Begin(i, k, trigger) ==
    LET j == started + 1
    IN  /\ started < MaxJobs
        /\ started' = j
        /\ running' = [running EXCEPT ![i] = j]
        /\ job' = [job EXCEPT ![j] = NewJob(i, k, trigger)]
        /\ file' = Saved(running', hist, job')
        /\ UNCHANGED hist

\* The first cause given to cancel wins.
Stop(js, cause) ==
    job' = [j \in Jobs |-> IF j \in js /\ job[j].cause = "none"
                           THEN [job[j] EXCEPT !.cause = cause] ELSE job[j]]

\* Start's checks of the index's Status.
Allowed(i, k) == IF k = "drop" THEN i \notin Enabled ELSE k = "reap" \/ i \in Enabled

\* An admin call at the head of Start's loop: a new one, or one whose superseded
\* job is done.
AtLoop(a, i, k) ==
    /\ up /\ Allowed(i, k)
    /\ admin[a] = IdleAdmin \/ (/\ admin[a].index = i /\ admin[a].kind = k
                                /\ job[admin[a].on].pc = "left")

AdminReturns(a) == admin' = [admin EXCEPT ![a] = IdleAdmin]

\* Mutant: the superseded job is told to stop, and not waited for.
AdminStartsNoWait(a, i, k) ==
    /\ AtLoop(a, i, k) /\ started < MaxJobs
    /\ AdminReturns(a)
    /\ started' = started + 1
    /\ running' = [running EXCEPT ![i] = started + 1]
    /\ job' = [j \in Jobs |->
                  CASE j = started + 1 -> NewJob(i, k, "admin")
                    [] j = running[i] -> [job[j] EXCEPT !.cause = "superseded"]
                    [] OTHER -> job[j]]
    /\ file' = Saved(running', hist, job')
    /\ UNCHANGED <<now, up, closed, hist, writer, rec>>

\* Start on an idle index.
AdminStarts(a, i, k) ==
    /\ AtLoop(a, i, k) /\ ~closed /\ running[i] = 0
    /\ Begin(i, k, "admin") /\ AdminReturns(a)
    /\ UNCHANGED <<now, up, closed, writer, rec>>

Supersedes(i, k) ==
    /\ running[i] # 0 /\ job[running[i]].kind # k
    /\ job[running[i]].trigger = "reconcile" /\ k \in {"rebuild", "drop"}

\* A reconcile job of another kind is told to stop and waited for.
AdminSupersedes(a, i, k) ==
    /\ AtLoop(a, i, k) /\ ~closed /\ Supersedes(i, k)
    /\ admin' = [admin EXCEPT ![a] = [index |-> i, kind |-> k, on |-> running[i]]]
    /\ Stop({running[i]}, "superseded")
    /\ UNCHANGED <<now, up, closed, mgrVars, writer, rec>>

\* A waiting call that finds the Manager closed, the same kind running or an
\* admin's job there returns without a job; a new call would change nothing.
AdminRefused(a, i, k) ==
    /\ AtLoop(a, i, k) /\ admin[a] # IdleAdmin
    /\ closed \/ (running[i] # 0 /\ ~Supersedes(i, k))
    /\ AdminReturns(a)
    /\ UNCHANGED <<now, up, closed, mgrVars, job, writer, rec>>

\* Cancel: a running job, except the search index's catch-up.
Cancel(j) ==
    /\ up /\ \E i \in Indexes : running[i] = j
    /\ ~(job[j].kind = "catch_up" /\ job[j].index \notin StoreIndexes)
    /\ job[j].cause = "none"
    /\ Stop({j}, "cancelled")
    /\ UNCHANGED <<now, up, closed, mgrVars, writer, admin, rec>>

-----------------------------------------------------------------------------
(* Manager.execute *)

\* what a step of a job's goroutine never touches
JobVars == <<now, up, closed, admin>>

AcquireWriter(j) ==
    /\ up /\ job[j].pc = "waiting" /\ writer = 0
    /\ writer' = j
    /\ job' = [job EXCEPT ![j].pc = "performing"]
    /\ UNCHANGED <<JobVars, mgrVars, rec>>

\* context.Cause(ctx) is read, and the index told of an admin's cancel, once
\* the operation is over and before the lock is taken.
Ended(j, end) == [job EXCEPT ![j].pc = "settle", ![j].end = end, ![j].seen = job[j].cause]

GiveUpWaiting(j) ==
    /\ up /\ job[j].pc = "waiting" /\ job[j].cause # "none"
    /\ job' = Ended(j, "stopped")
    /\ UNCHANGED <<JobVars, writer, mgrVars, rec>>

\* The index operation returns: done (also when it was told to stop, or there
\* was nothing to do), failed or panicked, or stopped by its context.
Perform(j, end) ==
    /\ up /\ job[j].pc = "performing"
    /\ end = "stopped" => job[j].cause # "none"
    /\ job' = Ended(j, end)
    /\ UNCHANGED <<JobVars, writer, mgrVars, rec>>

\* The state a finished job is recorded with.
Outcome(j) ==
    CASE job[j].end = "ok" -> "succeeded"
      [] job[j].end # "ok" /\ job[j].seen = "superseded" -> "superseded"
      [] job[j].end # "ok" /\ job[j].seen = "shutdown" -> "interrupted"
      [] job[j].end # "ok" /\ job[j].seen = "cancelled" -> "cancelled"
      [] OTHER -> "failed"

\* Mutant: the finished job is recorded in memory only.
SettleUnsaved(j) ==
    /\ up /\ job[j].pc = "settle"
    /\ running' = [running EXCEPT ![job[j].index] = 0]
    /\ hist' = [hist EXCEPT ![job[j].index] = Newest(<<Record(job, j, Outcome(j))>> \o @, KeptJobs)]
    /\ job' = [job EXCEPT ![j] = Past(@, "leaving")]
    /\ UNCHANGED <<JobVars, writer, started, file, rec>>

\* The locked end of execute; the wake-up of the reconciler follows.
Settle(j) ==
    /\ up /\ job[j].pc = "settle"
    /\ running' = [running EXCEPT ![job[j].index] = 0]
    /\ hist' = [hist EXCEPT ![job[j].index] = Newest(<<Record(job, j, Outcome(j))>> \o @, KeptJobs)]
    /\ job' = [job EXCEPT ![j] = Past(@, "leaving")]
    /\ file' = Saved(running', hist', job')
    /\ UNCHANGED <<JobVars, writer, started, rec>>

\* The deferred calls: the writer slot, then done, then the wait group.
Leave(j) ==
    /\ up /\ job[j].pc = "leaving"
    /\ writer' = IF writer = j THEN 0 ELSE writer
    /\ job' = [job EXCEPT ![j].pc = "left"]
    /\ UNCHANGED <<JobVars, mgrVars, rec>>

-----------------------------------------------------------------------------
(* Reconciler.run, pass and note.  A pass may start at any time: on a tick,  *)
(* after a job, on a nudge.                                                  *)

\* note: the last job failed and is not counted yet.
Fails(i) ==
    /\ hist[i] # <<>>
    /\ hist[i][1].trigger = "reconcile" /\ hist[i][1].state = "failed"
    /\ ~hist[i][1].parked /\ hist[i][1].id # rec.counted[i]

\* The pass is over once every index is scanned and nothing is due.
NextIndex(r) == IF r.left = {} /\ r.due = {} THEN FreshPass(r.counted) ELSE r

\* The first loop of pass, for one index whose Status asks for action.  A
\* failure counted now sets retryAt, so the index waits at least this pass
\* out; later on the backoff makes it wait as if Status asked for nothing.
Scan(i, action) ==
    LET waits == running[i] # 0 \/ Parked(i) \/ action = "none" \/ Fails(i)
        brings == IF running[i] # 0 THEN job[running[i]].kind # "reap"
                  ELSE ~waits /\ action # "reap"
    IN  /\ up /\ i \in rec.left
        /\ rec' = NextIndex(
              [left |-> rec.left \ {i},
               due |-> IF waits THEN rec.due ELSE rec.due \union {<<i, action>>},
               busy |-> rec.busy \/ (i \in StoreIndexes /\ brings),
               counted |-> IF Fails(i) THEN [rec.counted EXCEPT ![i] = hist[i][1].id]
                           ELSE rec.counted])
        /\ UNCHANGED <<now, up, closed, mgrVars, job, writer, admin>>

\* The second loop, for one due index: Start refuses a disabled index, when
\* closed, and when a job runs there by now.
ReconcileStarts(d) ==
    /\ up /\ rec.left = {} /\ d \in rec.due
    /\ rec' = NextIndex([rec EXCEPT !.due = @ \ {d}])
    /\ IF \/ rec.busy /\ d[1] \notin StoreIndexes /\ d[2] \in {"rebuild", "rescore"}
          \/ ~Allowed(d[1], d[2]) \/ closed \/ running[d[1]] # 0
       THEN UNCHANGED <<mgrVars, job>>
       ELSE Begin(d[1], d[2], "reconcile")
    /\ UNCHANGED <<now, up, closed, writer, admin>>

-----------------------------------------------------------------------------
(* Shutdown, the end of the process, and the next one *)

\* Mutant: the Manager is closed and the jobs are left to end on their own.
ShutdownOnlyCloses ==
    /\ up /\ ~closed
    /\ closed' = TRUE
    /\ UNCHANGED <<now, up, mgrVars, job, writer, admin, rec>>

Shutdown ==
    /\ up /\ ~closed
    /\ closed' = TRUE
    /\ Stop({running[i] : i \in Indexes}, "shutdown")
    /\ UNCHANGED <<now, up, mgrVars, writer, admin, rec>>

AtWork == {"waiting", "performing", "settle"}

\* The process ends: after Shutdown waited for the jobs, when its time is over,
\* or by a crash at any moment.  Only the file is left.
Down ==
    /\ up /\ up' = FALSE /\ closed' = FALSE
    /\ job' = [j \in Jobs |->
                  CASE job[j].pc \in AtWork -> Past(job[j], "died")
                    [] job[j].pc = "leaving" -> Past(job[j], "left")
                    [] OTHER -> job[j]]
    /\ running' = [i \in Indexes |-> 0]
    /\ hist' = [i \in Indexes |-> <<>>]
    /\ writer' = 0
    /\ admin' = [a \in Admins |-> IdleAdmin]
    /\ rec' = FreshPass([i \in Indexes |-> 0])
    /\ UNCHANGED <<now, started, file>>

\* New and load; a newly parked job is saved.
Restart ==
    /\ ~up /\ up' = TRUE
    /\ hist' = [i \in Indexes |-> Park(Revived(file[i]))]
    /\ file' = IF \E i \in Indexes : Loops(Revived(file[i]))
               THEN Saved(running, hist', job) ELSE file
    /\ UNCHANGED <<now, closed, running, started, job, writer, admin, rec>>

-----------------------------------------------------------------------------
Execute(j) ==
    \/ AcquireWriter(j) \/ GiveUpWaiting(j) \/ Settle(j) \/ Leave(j)
    \/ \E end \in Ends : Perform(j, end)

Start(a) ==
    \E i \in Indexes, k \in {"rebuild", "drop"} :
        AdminStarts(a, i, k) \/ AdminSupersedes(a, i, k) \/ AdminRefused(a, i, k)

Next ==
    \/ Tick \/ Shutdown \/ Down \/ Restart
    \/ \E i \in Indexes : \E action \in Needs[i] \union {"none"} : Scan(i, action)
    \/ \E d \in rec.due : ReconcileStarts(d)
    \/ \E a \in Admins : Start(a)
    \/ \E j \in Jobs : Cancel(j) \/ Execute(j)

Spec == Init /\ [][Next]_vars

\* A job whose context is cancelled ends; a call of the admin API goes on.
EndsAsTold(j) == job[j].cause # "none" /\ \E end \in Ends : Perform(j, end)
Resumes(a) == admin[a] # IdleAdmin /\ Start(a)

\* A goroutine that can go on does; an operation returns once its context is
\* cancelled, and otherwise may take for ever.
Fairness ==
    /\ \A j \in Jobs :
          /\ WF_vars(GiveUpWaiting(j))
          /\ WF_vars(Settle(j)) /\ WF_vars(Leave(j))
          /\ WF_vars(EndsAsTold(j))
    /\ \A a \in Admins : WF_vars(Resumes(a))

FairSpec == Spec /\ Fairness

-----------------------------------------------------------------------------
(* Properties *)

States == {"running", "succeeded", "failed", "cancelled", "superseded", "interrupted"}

RecordType == [id : Jobs, state : States, died : BOOLEAN, parked : BOOLEAN,
               trigger : {"admin", "reconcile"}, at : 0..MaxTime]

\* The history of each index holds at most KeptJobs finished jobs, the file
\* one running job more, and the writer slot is held by a job that has not
\* returned it.
TypeOK ==
    /\ now \in 0..MaxTime /\ up \in BOOLEAN /\ closed \in BOOLEAN
    /\ running \in [Indexes -> 0..started] /\ started \in 0..MaxJobs
    /\ \A j \in Jobs : job[j].cause \in Causes /\ job[j].end \in Ends
    /\ \A i \in Indexes :
          /\ Len(hist[i]) <= KeptJobs /\ Len(file[i]) <= KeptJobs + 1
          /\ \A n \in DOMAIN hist[i] : hist[i][n] \in RecordType
          /\ \A n \in DOMAIN file[i] : file[i][n] \in RecordType
    /\ writer = 0 \/ job[writer].pc \in (AtWork \ {"waiting"}) \union {"leaving"}

\* No two goroutines work on one index, even while a rebuild supersedes a
\* running job, and the one that does is the one the Manager knows; at most
\* one operation writes the store.
OneJobPerIndex ==
    /\ \A j \in Jobs : job[j].pc \in AtWork => running[job[j].index] = j
    /\ Cardinality({j \in Jobs : job[j].pc = "performing"
                                 /\ job[j].index \in StoreIndexes}) <= 1

\* What the record of a job must say of how it really ended.
Faithful(r, jb) ==
    IF jb.pc = "died" THEN r.died /\ r.state \in {"interrupted", "failed"}
    ELSE /\ ~r.died
         /\ (r.state = "succeeded") <=> (jb.end = "ok")

\* Every job started is running or in the history, and after a crash in what
\* the next process will load, with the end it really had, unless KeptJobs
\* newer ones of its index have pushed it out: "a crash leaves a record of
\* what was running".
EveryJobRecorded ==
    \A j \in 1..started :
        LET i == job[j].index
            h == IF up THEN hist[i] ELSE Revived(file[i])
        IN  \/ up /\ running[i] = j
            \/ \E n \in DOMAIN h : h[n].id = j /\ Faithful(h[n], job[j])
            \/ Cardinality({k \in j + 1..started : job[k].index = i}) >= KeptJobs

\* The reconciler does not resume a job that died with the relay
\* CrashLoopRuns times in a row within the window.
CrashLoopStops ==
    \A j \in 1..started :
        LET before == {k \in 1..j - 1 : job[k].index = job[j].index}
            last == {k \in before : Cardinality({l \in before : l > k}) < CrashLoopRuns}
        IN  ~ /\ job[j].trigger = "reconcile"
              /\ Cardinality(last) = CrashLoopRuns
              /\ \A k \in last : job[k].trigger = "reconcile" /\ job[k].pc = "died"
              /\ \A k, l \in last : job[k].at - job[l].at <= Window

ShuttingDown == closed
Quiet == \/ ~up
         \/ /\ \A j \in Jobs : job[j].pc \in {"unused", "left", "died"}
            /\ \A a \in Admins : admin[a] = IdleAdmin

\* After Shutdown every job ends and every Start that waits for a superseded
\* job returns, unless the process is gone before.
ShutdownCompletes == ShuttingDown ~> Quiet
=============================================================================
