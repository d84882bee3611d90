------------------------------ MODULE Targets -------------------------------
(***************************************************************************)
(* A command run over several targets one after the other: find, dump and  *)
(* query (client/client.go), publish (client/publish.go) and ping          *)
(* (client/ping.go).  One bad target is skipped, and the answer must still *)
(* tell "nothing matched" from "nobody could be asked" and "refused".      *)
(* What one target answers is drawn from the outcomes of RelaySession.     *)
(***************************************************************************)
EXTENDS Integers, Sequences, FiniteSets

CONSTANTS
    Commands,   \* subset of {"find", "merge", "publish", "ping"}
    Lists,      \* sequences of targets [id, type, killed]
    Events      \* events to publish, or that a target may hold

VARIABLES
    cmd, list, i, \* the command, its targets and the index of the one it is at
    asked,       \* target ids already seen by ping (history)
    answers,     \* [index -> what the target answered], those tried
    found,       \* events collected
    reached, anyRestricted, loginErr,
    report,      \* publish and ping: [ok, bad] counts
    saved,       \* find's output file was written
    exit         \* "running" or the command's result

vars == <<cmd, list, i, asked, answers, found, reached, anyRestricted, loginErr, report, saved, exit>>

T == list[i]

Init ==
    /\ cmd \in Commands /\ list \in Lists /\ i = 1 /\ asked = {} /\ answers = <<>> /\ found = {}
    /\ reached = FALSE /\ anyRestricted = FALSE /\ loginErr = FALSE
    /\ report = [ok |-> 0, bad |-> 0] /\ saved = FALSE /\ exit = "running"

Running == exit = "running" /\ i <= Len(list)
Answered(a) == answers' = Append(answers, a)
Step == i' = i + 1 /\ UNCHANGED <<cmd, list, saved, exit>>
Fatal(why) == exit' = why /\ UNCHANGED <<cmd, list, i, saved>>

\* The dial ends in an error: primary and, if there is one, the fallback failed to connect.
DialFailed == "unreachable"

\* A killed target is passed over; ping takes only remote ones.
Pass ==
    /\ Running
    /\ \/ cmd # "ping" /\ T.killed
       \/ cmd = "ping" /\ T.type = "local"
    /\ Answered("passed") /\ Step
    /\ UNCHANGED <<asked, found, reached, anyRestricted, loginErr, report>>

Live == Running /\ (cmd = "ping" \/ ~T.killed)
Query == Live /\ cmd \in {"find", "merge"}

\* What one target answered: events, maybe none; a remote one may call the query restricted.
TargetAnswers(es, restricted) ==
    /\ restricted => T.type = "remote"
    /\ anyRestricted' = (anyRestricted \/ restricted)
    /\ Answered(IF restricted THEN "restricted" ELSE "answered")
    /\ reached' = TRUE
    /\ UNCHANGED <<cmd, list, asked, loginErr, report, saved, exit>>

\* mergeEventsFromTargets goes on to the next target and drops the events it has.
MergeTarget ==
    /\ Query /\ cmd = "merge"
    /\ \E es \in SUBSET Events, restricted \in BOOLEAN :
        /\ TargetAnswers(es, restricted)
        /\ found' = found \union es
    /\ i' = i + 1

\* Find stops at the first target that has any.
FindTarget ==
    /\ Query /\ cmd = "find"
    /\ \E es \in SUBSET Events, restricted \in BOOLEAN :
        /\ TargetAnswers(es, restricted)
        /\ found' = es
        /\ i' = IF es # {} THEN Len(list) + 1 ELSE i + 1

\* A remote target that cannot be reached, or does not answer in time, is skipped.
TargetSkipped ==
    /\ Query /\ T.type = "remote"
    /\ \E why \in {DialFailed, "deadline"} : Answered(why)
    /\ Step
    /\ UNCHANGED <<asked, found, reached, anyRestricted, loginErr, report>>

\* Mutant: a failed login is only skipped.
TargetLoginSkipped ==
    /\ Query /\ T.type = "remote"
    /\ Answered("login") /\ Step
    /\ UNCHANGED <<asked, found, reached, anyRestricted, loginErr, report>>

TargetLogin ==
    /\ Query /\ T.type = "remote"
    /\ loginErr' = TRUE
    /\ Answered("login") /\ Step
    /\ UNCHANGED <<asked, found, reached, anyRestricted, report>>

\* Any other error ends the command: a store that cannot be read, a broken connection.
TargetError ==
    /\ Query
    /\ Answered("error") /\ Fatal("error")
    /\ UNCHANGED <<asked, found, reached, anyRestricted, loginErr, report>>

\* What an empty answer means, in the order of Find and mergeEventsFromTargets.
EmptyVerdict ==
    CASE loginErr -> "login_error"
      [] ~loginErr /\ ~reached /\ list # <<>> -> "no_reachable"
      [] ~loginErr /\ reached /\ anyRestricted -> "restricted"
      [] OTHER -> "empty"

Over == exit = "running" /\ i > Len(list)

\* Unlike an empty answer, a non-empty one always reached a target.
MergeEnds ==
    /\ Over /\ cmd = "merge"
    /\ exit' = IF found # {} THEN "found" ELSE EmptyVerdict
    /\ UNCHANGED <<cmd, list, i, asked, answers, found, reached, anyRestricted, loginErr, report, saved>>

\* Find prints the events, or [], and writes the file only when there are some.
FindEnds ==
    /\ Over /\ cmd = "find"
    /\ exit' = IF found # {} THEN "found" ELSE EmptyVerdict
    /\ saved' = (found # {})
    /\ UNCHANGED <<cmd, list, i, asked, answers, found, reached, anyRestricted, loginErr, report>>

-----------------------------------------------------------------------------
(* PublishToTargets *)

\* Every event to one target; a pair fails alone, and the first login failure is kept.
PublishTarget ==
    /\ Live /\ cmd = "publish" /\ T.type = "remote"
    /\ \E accepted \in SUBSET Events, login \in BOOLEAN :
        /\ login => accepted # Events
        /\ report' = [ok |-> report.ok + Cardinality(accepted),
                      bad |-> report.bad + Cardinality(Events \ accepted)]
        /\ loginErr' = (loginErr \/ login)
    /\ reached' = TRUE
    /\ Answered("answered") /\ Step
    /\ UNCHANGED <<asked, found, anyRestricted>>

PublishSkips ==
    /\ Live /\ cmd = "publish" /\ T.type = "remote"
    /\ Answered(DialFailed) /\ Step
    /\ UNCHANGED <<asked, found, reached, anyRestricted, loginErr, report>>

\* A local store is refused, whatever was published before it.
PublishLocal ==
    /\ Live /\ cmd = "publish" /\ T.type = "local"
    /\ Answered("error") /\ Fatal("error")
    /\ UNCHANGED <<asked, found, reached, anyRestricted, loginErr, report>>

PublishEnds ==
    /\ Over /\ cmd = "publish"
    /\ exit' = IF ~reached /\ list # <<>> THEN "no_reachable"
               ELSE IF report.bad = 0 THEN "all" ELSE "some"
    /\ UNCHANGED <<cmd, list, i, asked, answers, found, reached, anyRestricted, loginErr, report, saved>>

-----------------------------------------------------------------------------
(* Ping *)

\* A relay given twice is dialed once and counted unreachable the second time.
PingTarget ==
    /\ Live /\ cmd = "ping" /\ T.type = "remote"
    /\ \E up \in BOOLEAN :
        LET ok == up /\ T.id \notin asked
        IN  /\ report' = [ok |-> report.ok + (IF ok THEN 1 ELSE 0), bad |-> report.bad + (IF ok THEN 0 ELSE 1)]
            /\ Answered(IF ok THEN "answered" ELSE DialFailed)
    /\ asked' = asked \union {T.id}
    /\ Step
    /\ UNCHANGED <<found, reached, anyRestricted, loginErr>>

\* ctx ends: ping returns what it has.
PingEnds ==
    /\ exit = "running" /\ cmd = "ping"
    /\ exit' = IF report.bad = 0 THEN "all" ELSE "some"
    /\ UNCHANGED <<cmd, list, i, asked, answers, found, reached, anyRestricted, loginErr, report, saved>>

Next ==
    \/ Pass \/ MergeTarget \/ FindTarget \/ TargetSkipped \/ TargetLogin \/ TargetError \/ MergeEnds \/ FindEnds
    \/ PublishTarget \/ PublishSkips \/ PublishLocal \/ PublishEnds \/ PingTarget \/ PingEnds

Spec == Init /\ [][Next]_vars

-----------------------------------------------------------------------------
(* Properties *)

Said(a) == \E k \in 1..Len(answers) : answers[k] = a

\* An empty answer with exit 0 means that some target was asked and answered, if the
\* list named any, and that none refused (ErrNoReachableTargets, ErrRestricted,
\* LoginError; a --targets file may name none).
EmptyIsHonest ==
    exit = "empty" => /\ list # <<>> => Said("answered")
                      /\ ~Said("restricted") /\ ~Said("login") /\ ~saved
=============================================================================
