---------------------------- MODULE IndexCommand ----------------------------
(***************************************************************************)
(* `ncli relay index rebuild|drop` and `ncli relay jobs show|cancel`       *)
(* (cli/relay/index_cmd.go) against a running relay, over its admin API    *)
(* (cli/relay/jobs/routes.go, called through apiRequest).  The command     *)
(* lists, plans, asks, starts one job per index and polls them; meanwhile  *)
(* the relay's reconciler and other admins start and cancel jobs, jobs end *)
(* and the relay restarts, perhaps with another configuration.  How the    *)
(* relay runs its jobs is IndexJobs; here a job only starts and ends.      *)
(***************************************************************************)
EXTENDS Integers, Sequences, FiniteSets, SequencesExt

CONSTANTS
    Indexes,
    NoStore,       \* indexes that do not write the store (search)
    Commands,      \* subset of {"rebuild", "drop", "show", "cancel"}
    Args,          \* what is named: an index, or "all"
    Faults,        \* subset of {"lost", "restart"}
    MaxJobs, MaxFaults

VARIABLES
    enabled, hasData, \* the indexes whose feature is on; those holding entries
    job,           \* Manager.running and history, by id: [index, kind, trigger, state, cause, was]
    next,          \* the next id
    handler,       \* start requests whose handler waits for a superseded job: {[index, kind, from]}
    cmd, arg, pc,  \* the command, its argument and where it is
    names,         \* indexes it is still to plan or start
    planned,       \* those planned
    list,          \* followJobs' copies of the jobs, the relay's answers
    exit,          \* how it ended
    faults

relay == <<enabled, hasData, job, next, handler>>
cli == <<pc, names, planned, list, exit>>
vars == <<relay, cmd, arg, cli, faults>>

Ids == 1..MaxJobs
NoJob == [index |-> "none", kind |-> "none", trigger |-> "none", state |-> "unused", cause |-> "none"]
Running(i) == {n \in Ids : job[n].state = "running" /\ job[n].index = i}
Ended(j) == j.state # "running"

Init ==
    /\ enabled \in SUBSET Indexes /\ hasData \in SUBSET Indexes
    /\ job = [n \in Ids |-> NoJob] /\ next = 1 /\ handler = {}
    /\ cmd \in Commands /\ arg \in Args
    /\ pc = IF cmd \in {"show", "cancel"} THEN "ask" ELSE "targets"
    /\ names = <<>> /\ planned = <<>> /\ list = <<>> /\ exit = "none" /\ faults = 0

Fault(f) == f \in Faults /\ faults < MaxFaults /\ faults' = faults + 1

-----------------------------------------------------------------------------
(* The relay *)

Begin(i, k, trigger) ==
    /\ next \in Ids
    /\ job' = [job EXCEPT ![next] = [index |-> i, kind |-> k, trigger |-> trigger, state |-> "running", cause |-> "none"]]
    /\ next' = next + 1

\* Plan and Start refuse alike: a drop of an index in use, a rebuild of one that is off.
PlanRefused(i, k) == IF k = "drop" THEN i \in enabled ELSE i \notin enabled

\* Mutant: the state the plan saw is not looked at again.
StartTrusted(i, k) == FALSE

StartRefused(i, k) == PlanRefused(i, k)

\* Mutant: the answer that nothing was needed reads like a job that runs.
NothingRunning(i, k) ==
    [index |-> i, kind |-> k, trigger |-> "admin", state |-> "running", cause |-> "none", id |-> 0]

\* A drop of what holds nothing starts no job: the answer has no id and has ended.
Nothing(i, k) ==
    [index |-> i, kind |-> k, trigger |-> "admin", state |-> "succeeded", cause |-> "none", id |-> 0]

Answer(n) == [index |-> job'[n].index, kind |-> job'[n].kind, trigger |-> job'[n].trigger,
              state |-> job'[n].state, cause |-> "none", id |-> n]

\* The same kind already runs: that job is the answer, with Noop set.
Joins(i, k) == \E n \in Running(i) : job[n].kind = k

\* An admin's rebuild or drop stops a reconcile job and waits for its end.
Supersedes(i) == \E n \in Running(i) : job[n].trigger = "reconcile"

Stopping(i, cause) ==
    job' = [n \in Ids |-> IF n \in Running(i) /\ job[n].cause = "none" THEN [job[n] EXCEPT !.cause = cause] ELSE job[n]]

\* execute's outcome: what the operation did, and if it was stopped, by whom.
JobEnds(n, how) ==
    /\ job[n].state = "running"
    /\ how = "stopped" => job[n].cause # "none"
    /\ job' = [job EXCEPT ![n].state = CASE how = "ok" -> "succeeded"
                                         [] how = "stopped" -> job[n].cause
                                         [] OTHER -> IF job[n].cause = "none" THEN "failed" ELSE job[n].cause]
    /\ hasData' = CASE how = "ok" /\ job[n].kind = "drop" -> hasData \ {job[n].index}
                    [] how = "ok" /\ job[n].kind # "drop" -> hasData \union {job[n].index}
                    [] OTHER -> hasData
    /\ UNCHANGED <<enabled, next, handler, cmd, arg, cli, faults>>

\* The reconciler starts a catch-up of an index that is on and free.
Reconcile(i) ==
    /\ i \in enabled /\ Running(i) = {}
    /\ Begin(i, "catch_up", "reconcile")
    /\ UNCHANGED <<enabled, hasData, handler, cmd, arg, cli, faults>>

\* Another admin, from the dashboard or another terminal.
OtherStarts(i, k) ==
    /\ ~StartRefused(i, k) /\ Running(i) = {}
    /\ Begin(i, k, "admin")
    /\ UNCHANGED <<enabled, hasData, handler, cmd, arg, cli, faults>>

Cancellable(n) == job[n].state = "running" /\ (job[n].kind = "catch_up" => job[n].index \notin NoStore)

Cancelled(n) == job' = [job EXCEPT ![n].cause = IF @ = "none" THEN "cancelled" ELSE @]

OtherCancels(n) ==
    /\ Cancellable(n) /\ Cancelled(n)
    /\ UNCHANGED <<enabled, hasData, next, handler, cmd, arg, cli, faults>>

\* The relay stops and starts again: what ran is recorded interrupted, its handlers are
\* gone, and its configuration may have changed.
Restart ==
    /\ Fault("restart")
    /\ job' = [n \in Ids |-> IF job[n].state = "running" THEN [job[n] EXCEPT !.state = "interrupted"] ELSE job[n]]
    /\ enabled' \in SUBSET Indexes
    /\ handler' = {}
    /\ UNCHANGED <<hasData, next, cmd, arg, cli>>

-----------------------------------------------------------------------------
(* The command: each step is one request and its answer *)

Exit(how) == exit' = how /\ pc' = "ended"

\* apiRequest fails: the relay is away, or the answer is lost after it acted.
Unanswered == Fault("lost") /\ Exit("network") /\ UNCHANGED <<names, planned, list>>

\* GET indexes, as far as the command reads it.
Listing == [i \in Indexes |-> [on |-> i \in enabled, holds |-> i \in hasData]]

\* "all" is every index the command applies to.
Applies(ix) == IF cmd = "rebuild" THEN ix.on ELSE ~ix.on /\ ix.holds

Targets ==
    /\ pc = "targets"
    /\ \/ /\ names' = IF arg = "all" THEN SetToSeq({i \in Indexes : Applies(Listing[i])}) ELSE <<arg>>
          /\ pc' = "plan" /\ UNCHANGED <<planned, list, exit, faults>>
       \/ arg = "all" /\ Unanswered
    /\ UNCHANGED <<relay, cmd, arg>>

\* A dry run of each name in turn; the first refusal ends the command.
PlanOne ==
    /\ pc = "plan" /\ names # <<>>
    /\ \/ /\ PlanRefused(Head(names), cmd) /\ Exit("refused") /\ UNCHANGED <<names, planned, list, faults>>
       \/ /\ ~PlanRefused(Head(names), cmd)
          /\ planned' = Append(planned, Head(names)) /\ names' = Tail(names)
          /\ UNCHANGED <<pc, list, exit, faults>>
       \/ Unanswered
    /\ UNCHANGED <<relay, cmd, arg>>

\* confirmDrop: the answer is no, or there is no terminal to ask on and no --yes.
Declines == cmd = "drop" /\ planned # <<>> /\ Exit("aborted")

\* --dry-run prints the plans; no name left is "nothing to do"; a drop is confirmed.
Planned ==
    /\ pc = "plan" /\ names = <<>>
    /\ \/ Exit("dry_run") /\ UNCHANGED <<names, planned>>
       \/ planned = <<>> /\ Exit("nothing") /\ UNCHANGED <<names, planned>>
       \/ Declines /\ UNCHANGED <<names, planned>>
       \/ planned # <<>> /\ pc' = "start" /\ names' = planned /\ planned' = <<>> /\ UNCHANGED exit
    /\ UNCHANGED <<relay, cmd, arg, list, faults>>

Started(answer) ==
    /\ list' = Append(list, answer) /\ names' = Tail(names)
    /\ UNCHANGED <<pc, planned, exit>>

\* POST rebuild or drop of one index, and its answer.
Action(i) ==
    \/ /\ StartRefused(i, cmd) /\ Exit("refused")
       /\ UNCHANGED <<relay, names, planned, list, faults>>
    \/ /\ ~StartRefused(i, cmd) /\ cmd = "drop" /\ i \notin hasData
       /\ Started(Nothing(i, cmd)) /\ UNCHANGED <<relay, faults>>
    \/ /\ ~StartRefused(i, cmd) /\ (cmd = "drop" => i \in hasData)
       /\ \/ /\ Joins(i, cmd) /\ UNCHANGED <<relay, faults>>
             /\ \E n \in Running(i) : Started(Answer(n))
          \/ /\ Running(i) # {} /\ ~Joins(i, cmd) /\ Supersedes(i)
             /\ Stopping(i, "superseded")
             /\ handler' = handler \union {[index |-> i, kind |-> cmd]}
             /\ pc' = "waiting" /\ UNCHANGED <<enabled, hasData, next, names, planned, list, exit, faults>>
          \/ /\ Running(i) # {} /\ ~Joins(i, cmd) /\ ~Supersedes(i)
             /\ Exit("busy") /\ UNCHANGED <<relay, names, planned, list, faults>>
          \/ /\ Running(i) = {} /\ Begin(i, cmd, "admin") /\ UNCHANGED <<enabled, hasData, handler>>
             /\ \/ Started(Answer(next)) /\ UNCHANGED faults
                \/ Unanswered

\* The start loop: the first error ends the command, whatever was started before it.
StartOne == pc = "start" /\ names # <<>> /\ Action(Head(names)) /\ UNCHANGED <<cmd, arg>>

\* Start's loop goes round once the superseded job is gone.
Superseded(h) ==
    /\ h \in handler /\ Running(h.index) = {}
    /\ Begin(h.index, h.kind, "admin")
    /\ handler' = handler \ {h}
    /\ IF pc = "waiting" THEN pc' = "start" /\ list' = Append(list, Answer(next)) /\ names' = Tail(names)
       ELSE UNCHANGED <<pc, list, names>>
    /\ UNCHANGED <<enabled, hasData, cmd, arg, planned, exit, faults>>

\* apiRequest gives up after 45 s; the handler does not.
RequestTimeout ==
    /\ pc = "waiting" /\ Exit("network")
    /\ UNCHANGED <<relay, cmd, arg, names, planned, list, faults>>

\* watchJobs: at once with --detach or --json, else follow.
Watch ==
    /\ pc = "start" /\ names = <<>>
    /\ \/ Exit("detached") /\ UNCHANGED <<names, planned, list>>
       \/ pc' = "follow" /\ UNCHANGED <<names, planned, list, exit>>
    /\ UNCHANGED <<relay, cmd, arg, faults>>

\* GET jobs/{id}: the job as the relay has it now.
GetJob(n) == [index |-> job[n].index, kind |-> job[n].kind, trigger |-> job[n].trigger,
              state |-> job[n].state, cause |-> "none", id |-> n]

\* One round of polling; the answers may be from different moments, one job each.
Poll(n) ==
    /\ pc = "follow" /\ n \in 1..Len(list) /\ ~Ended(list[n]) /\ list[n].id # 0
    /\ \/ list' = [list EXCEPT ![n] = GetJob(@.id)] /\ UNCHANGED <<pc, names, planned, exit, faults>>
       \/ Unanswered
    /\ UNCHANGED <<relay, cmd, arg>>

PollAny == \E n \in 1..Len(list) : Poll(n)

\* Mutant: the outcome looks at the first job only.
OutcomeFirst == IF list[1].state = "succeeded" THEN "ok" ELSE "failed"

\* jobsOutcome: a failure unless every job succeeded.
Outcome == IF \A n \in 1..Len(list) : list[n].state = "succeeded" THEN "ok" ELSE "failed"

FollowEnds ==
    /\ pc = "follow" /\ \A n \in 1..Len(list) : Ended(list[n])
    /\ Exit(Outcome) /\ UNCHANGED <<relay, cmd, arg, names, planned, list, faults>>

\* Ctrl-C or --timeout stops the watching, not the jobs.
StopWatching ==
    /\ pc = "follow" /\ \E n \in 1..Len(list) : ~Ended(list[n])
    /\ \E how \in {"interrupted", "timeout"} : Exit(how)
    /\ UNCHANGED <<relay, cmd, arg, names, planned, list, faults>>

-----------------------------------------------------------------------------
(* jobs show and jobs cancel *)

NotFound ==
    /\ pc = "ask"
    /\ \/ Exit("not_found") /\ UNCHANGED <<names, planned, list, faults>>
       \/ Unanswered
    /\ UNCHANGED <<relay, cmd, arg>>

\* GET jobs/{id}: printed, or with --wait or --follow watched unless it ended.
Show(n) ==
    /\ pc = "ask" /\ cmd = "show" /\ job[n].state # "unused"
    /\ list' = <<GetJob(n)>>
    /\ \/ Exit("shown")
       \/ ~Ended(job[n]) /\ pc' = "follow" /\ UNCHANGED exit
    /\ UNCHANGED <<relay, cmd, arg, names, planned, faults>>

\* DELETE jobs/{id}: one that ended is left as it is; search's catch-up is not cancelled.
AskCancel(n) ==
    /\ pc = "ask" /\ cmd = "cancel" /\ job[n].state # "unused"
    /\ \/ Ended(job[n]) /\ Exit("already") /\ UNCHANGED <<job, list>>
       \/ ~Ended(job[n]) /\ ~Cancellable(n) /\ Exit("unsupported") /\ UNCHANGED <<job, list>>
       \/ /\ Cancellable(n) /\ Cancelled(n) /\ list' = <<Answer(n)>>
          /\ \/ Exit("detached")
             \/ pc' = "cancelling" /\ UNCHANGED exit
    /\ UNCHANGED <<enabled, hasData, next, handler, cmd, arg, names, planned, faults>>

\* Mutant: the answer is not held until the job ended.
CancelWaitsNot ==
    /\ pc = "cancelling"
    /\ Exit("stopped")
    /\ UNCHANGED <<relay, cmd, arg, names, planned, list, faults>>

\* GET jobs/{id}?wait=30: held until the job ends, or the 30 s are over.
CancelWaits ==
    /\ pc = "cancelling"
    /\ \/ /\ Exit(IF Ended(GetJob(list[1].id)) THEN "stopped" ELSE "still_stopping")
          /\ UNCHANGED <<names, planned, list, faults>>
       \/ Unanswered
    /\ UNCHANGED <<relay, cmd, arg>>

Next ==
    \/ \E n \in Ids : \/ \E how \in {"ok", "stopped", "error"} : JobEnds(n, how)
                      \/ OtherCancels(n) \/ Show(n) \/ AskCancel(n)
    \/ \E i \in Indexes : Reconcile(i) \/ \E k \in {"rebuild", "drop"} : OtherStarts(i, k)
    \/ \E h \in handler : Superseded(h)
    \/ Restart \/ Targets \/ PlanOne \/ Planned \/ StartOne \/ RequestTimeout \/ Watch \/ PollAny
    \/ FollowEnds \/ StopWatching \/ NotFound \/ CancelWaits

Spec == Init /\ [][Next]_vars

\* The job ends in one way or another.
JobIsOver(n) == \E how \in {"ok", "stopped", "error"} : JobEnds(n, how)

\* A job that runs ends, and the command goes on polling (followInterval).
FairSpec ==
    /\ Spec
    /\ \A n \in Ids : WF_vars(JobIsOver(n))
    /\ \A n \in 1..MaxJobs : WF_vars(Poll(n))
    /\ WF_vars(FollowEnds)

-----------------------------------------------------------------------------
(* Properties *)

\* Exit code 0 of a watched command means every job it reported succeeded on the relay,
\* whatever was cancelled, superseded or cut off by a restart between two polls
\* (followJobs, jobsOutcome).
SuccessIsTrue ==
    exit = "ok" => \A n \in 1..Len(list) : list[n].id # 0 => job[list[n].id].state = "succeeded"

\* A drop runs only on an index whose feature is off in the relay that runs it, although
\* the plan the user confirmed may be from before a restart (Start, Plan, runIndexAction).
DropsOnlyOff ==
    \A n \in Ids : job[n].state = "running" /\ job[n].kind = "drop" => job[n].index \notin enabled

\* `jobs cancel` that says the job stopped says so of a job that did (runJobsCancel).
StoppedIsOver ==
    exit = "stopped" => job[list[1].id].state # "running"

Watching == pc = "follow"
Over == pc = "ended"

\* A command that watches its jobs comes back: they end and the next poll sees it, an
\* answer without a job included (followJobs).
WatchingEnds == Watching ~> Over
=============================================================================
