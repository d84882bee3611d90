---------------------------- MODULE MCRelay ----------------------------
(***************************************************************************)
(* The relay around its event store, on small instances: the search index, *)
(* index jobs and the commands that start them, membership and its two     *)
(* doors, the configuration, the admin listener and its metrics, huddles   *)
(* as the relay and a client see them; and the history of the other        *)
(* service, the bunker, with and without failed writes. One component runs *)
(* at a time: part names it, the components of the modules this one        *)
(* extends have their own variables, those of the others are the slots v1, *)
(* v2, ... as the INSTANCE says, and what is not used rests.               *)
(***************************************************************************)
EXTENDS Naturals, Sequences, FiniteSets, TLC, RelayServices, Huddles, SearchFeed

CONSTANTS Parts, IDs

VARIABLES
    v1, v2, v3, v4, v5, v6, v7, v8, v9, v10, v11, v12, v13, v14, v15

\* The slots from the k-th on, and that they are unused.
Rest15 == <<v15>>
Blank15 == v15 = 0
Rest14 == <<v14, Rest15>>
Blank14 == v14 = 0 /\ Blank15
Rest13 == <<v13, Rest14>>
Blank13 == v13 = 0 /\ Blank14
Rest12 == <<v12, Rest13>>
Blank12 == v12 = 0 /\ Blank13
Rest8 == <<v8, v9, v10, v11, Rest12>>
Blank8 == v8 = 0 /\ v9 = 0 /\ v10 = 0 /\ v11 = 0 /\ Blank12
Rest7 == <<v7, Rest8>>
Blank7 == v7 = 0 /\ Blank8
Rest1 == <<v1, v2, v3, v4, v5, v6, Rest7>>
Blank1 == v1 = 0 /\ v2 = 0 /\ v3 = 0 /\ v4 = 0 /\ v5 = 0 /\ v6 = 0 /\ Blank7

\* The components that are extended, and that they rest.
Extended == <<services, huddle, vars>>
FeedOff == Init /\ store = NoDocs
Resting == ServicesOff /\ HuddleOff /\ FeedOff

MCVars == <<Extended, Rest1>>

-----------------------------------------------------------------------------
MCPolicy == [defaultTTL |-> 1, maxTTL |-> 2, allowNoExpiry |-> FALSE, defaultMaxUses |-> 1]
MCLimits == {[exp |-> 99, uses |-> 99], [exp |-> 0, uses |-> 1], [exp |-> 3, uses |-> 1],
             [exp |-> 4, uses |-> 99], [exp |-> 2, uses |-> 0]}

\* The blocks of the configuration file that are varied together.
Vary == {{"nip11", "cache"}, {"nip11", "member"}, {"group", "keys"}, {"media", "keys"},
         {"checks"}, {"huddle"}, {"admin"}, {"other"}, {"misc"}}

MCSignedEvents == {[id |-> 1, signer |-> "p", created |-> 1], [id |-> 2, signer |-> "q", created |-> 2]}

\* One participant on two connections, another on one.
MCPubkeyOf == [s1 |-> "a", s2 |-> "a", s3 |-> "b"]

Two == {"zaps", "search"}
NeedsOfTwo == [i \in Two |-> IF i = "zaps" THEN {"catch_up"} ELSE {"rebuild"}]
NeedsOfOne == [i \in {"zaps"} |-> {"catch_up", "rebuild"}]

-----------------------------------------------------------------------------
\* Three requests through a history of two, two crashes.
BH == INSTANCE BunkerHistory WITH
    MaxTail <- 2, MaxMishaps <- 2, TornWrites <- FALSE, MaxErrors <- 0,
    SlowAdded <- FALSE,
    phase <- v1, addDue <- v2, created <- v3, tail <- v4, lock <- v5, wal <- v6,
    handle <- v7, sinceCompact <- v8, up <- v9, failed <- v10, crashes <- v11,
    errors <- v12, outcome <- v13, durable <- v14, durableSig <- v15

\* Two requests through a history of one, a failed write and crashes.
BE == INSTANCE BunkerHistory WITH
    IDs <- {"j1", "j2"}, MaxTail <- 1, MaxMishaps <- 2, TornWrites <- FALSE,
    MaxErrors <- 1, SlowAdded <- FALSE,
    phase <- v1, addDue <- v2, created <- v3, tail <- v4, lock <- v5, wal <- v6,
    handle <- v7, sinceCompact <- v8, up <- v9, failed <- v10, crashes <- v11,
    errors <- v12, outcome <- v13, durable <- v14, durableSig <- v15

\* Two indexes, one of which writes the store.
J == INSTANCE IndexJobs WITH
    Indexes <- Two, Enabled <- Two, StoreIndexes <- {"zaps"}, Admins <- {"a1"},
    Needs <- NeedsOfTwo, MaxJobs <- 2, KeptJobs <- 2, CrashLoopRuns <- 2, Window <- 0,
    MaxTime <- 0,
    now <- v1, up <- v2, closed <- v3, running <- v4, job <- v5, started <- v6,
    hist <- v7, file <- v8, writer <- v9, admin <- v10, rec <- v11

\* One index, three jobs and the crashes of the relay.
JC == INSTANCE IndexJobs WITH
    Indexes <- {"zaps"}, Enabled <- {"zaps"}, StoreIndexes <- {"zaps"},
    Admins <- {"a1"}, Needs <- NeedsOfOne, MaxJobs <- 3, KeptJobs <- 2,
    CrashLoopRuns <- 2, Window <- 0, MaxTime <- 1,
    now <- v1, up <- v2, closed <- v3, running <- v4, job <- v5, started <- v6,
    hist <- v7, file <- v8, writer <- v9, admin <- v10, rec <- v11

\* Two indexes, rebuilt or dropped together.
I == INSTANCE IndexCommand WITH
    Indexes <- {"search", "zaps"}, NoStore <- {"search"},
    Commands <- {"rebuild", "drop"}, Args <- {"all"}, Faults <- {}, MaxJobs <- 2,
    MaxFaults <- 0,
    enabled <- v1, hasData <- v2, job <- v3, next <- v4, handler <- v5, cmd <- v6,
    arg <- v7, pc <- v8, names <- v9, planned <- v10, list <- v11, exit <- v12,
    faults <- v13

\* One index, and a lost answer or a restart.
IR == INSTANCE IndexCommand WITH
    Indexes <- {"zaps"}, NoStore <- {},
    Commands <- {"rebuild", "drop", "show", "cancel"}, Args <- {"all"},
    Faults <- {"lost", "restart"}, MaxJobs <- 2, MaxFaults <- 1,
    enabled <- v1, hasData <- v2, job <- v3, next <- v4, handler <- v5, cmd <- v6,
    arg <- v7, pc <- v8, names <- v9, planned <- v10, list <- v11, exit <- v12,
    faults <- v13

\* Every file that differs from the standard one in one group of blocks.
C == INSTANCE RelayConfig WITH
    MaxPort <- 3, DefaultPort <- 1, TargetBytes <- 67, DefaultMessage <- 1000,
    stage <- v1, why <- v2, file <- v3, cfg <- v4, settings <- v5, server <- v6

\* A gauge and a counter, over nine intervals.
H == INSTANCE MetricsHistory WITH
    Keys <- {"g", "c"}, Always <- {"g"}, RawCap <- 2, Step <- 2, RollCap <- 2,
    MaxSkip <- 2, Viewers <- {"v", "w"}, MaxSubscribers <- 1, MaxTime <- 9,
    now <- v1, raw <- v2, rollup <- v3, bucket <- v4, acc <- v5, taken <- v6, subs <- v7

\* The dashboard of a call with two others.
K == INSTANCE HuddleCall WITH
    Keys <- {"a", "b"}, FrameBuffer <- 2,
    mode <- v1, room <- v2, frames <- v3, present <- v4, level <- v5, spoke <- v6,
    decoders <- v7, mixed <- v8, shown <- v9, speaking <- v10, told <- v11, st <- v12

\* Three messages, two of them sent from here.
B == INSTANCE HuddleChat WITH
    Msgs <- {1, 2, 3}, Ours <- {2, 3}, HistoryCap <- 1, WireCap <- 1,
    parent <- v1, relay <- v2, wire <- v3, link <- v4, run <- v5, incoming <- v6,
    looping <- v7, log <- v8, rows <- v9, cursor <- v10, following <- v11,
    replyTo <- v12, send <- v13, ack <- v14

\* Two messages, with two responses under way.
BL == INSTANCE HuddleChat WITH
    Msgs <- {1, 2}, Ours <- {1, 2}, HistoryCap <- 1, WireCap <- 2,
    parent <- v1, relay <- v2, wire <- v3, link <- v4, run <- v5, incoming <- v6,
    looping <- v7, log <- v8, rows <- v9, cursor <- v10, following <- v11,
    replyTo <- v12, send <- v13, ack <- v14

\* The instances satisfy what the components ask of their constants.
ASSUME RelayConstants == /\ J!JobsAssumption /\ JC!JobsAssumption
                         /\ BH!HistoryAssumption /\ BE!HistoryAssumption
                         /\ ServicesAssumption /\ HuddleAssumption

-----------------------------------------------------------------------------
MCInit ==
    /\ part \in Parts
    /\ \/ ServicesInit /\ HuddleOff /\ FeedOff /\ Blank1
       \/ part = "huddle" /\ HuddleInit /\ ServicesOff /\ FeedOff /\ Blank1
       \/ part = "feed" /\ Init /\ ServicesOff /\ HuddleOff /\ Blank1
       \/ part = "history" /\ BH!Init /\ Resting
       \/ part = "failing" /\ BE!Init /\ Resting
       \/ part = "jobs" /\ J!Init /\ Blank12 /\ Resting
       \/ part = "crashes" /\ JC!Init /\ Blank12 /\ Resting
       \/ part = "command" /\ I!Init /\ Blank14 /\ Resting
       \/ part = "restart" /\ IR!Init /\ Blank14 /\ Resting
       \/ part = "config" /\ C!Init /\ Blank7 /\ Resting
       \/ part = "samples" /\ H!Init /\ Blank8 /\ Resting
       \/ part = "call" /\ K!Init /\ Blank13 /\ Resting
       \/ part = "chat" /\ B!Init /\ Blank15 /\ Resting
       \/ part = "late" /\ BL!Init /\ Blank15 /\ Resting

\* The components that may come to an end.
MayStop == {"history", "failing", "feed", "command", "restart", "membership", "doors",
            "config", "admin", "tokens", "samples", "huddle", "call", "chat", "late"}

MCNext ==
    \/ ServicesNext /\ UNCHANGED <<huddle, vars, Rest1>>
    \/ part = "huddle" /\ HuddleNext /\ UNCHANGED <<services, vars, Rest1>>
    \/ part = "feed" /\ Next /\ UNCHANGED <<services, huddle, Rest1>>
    \/ part = "history" /\ BH!Next /\ UNCHANGED Extended
    \/ part = "failing" /\ BE!Next /\ UNCHANGED Extended
    \/ part = "jobs" /\ J!Next /\ UNCHANGED <<Extended, Rest12>>
    \/ part = "crashes" /\ JC!Next /\ UNCHANGED <<Extended, Rest12>>
    \/ part = "command" /\ I!Next /\ UNCHANGED <<Extended, Rest14>>
    \/ part = "restart" /\ IR!Next /\ UNCHANGED <<Extended, Rest14>>
    \/ part = "config" /\ C!Next /\ UNCHANGED <<Extended, Rest7>>
    \/ part = "samples" /\ H!Next /\ UNCHANGED <<Extended, Rest8>>
    \/ part = "call" /\ K!Next /\ UNCHANGED <<Extended, Rest13>>
    \/ part = "chat" /\ B!Next /\ UNCHANGED <<Extended, Rest15>>
    \/ part = "late" /\ BL!Next /\ UNCHANGED <<Extended, Rest15>>
    \/ part \in MayStop /\ UNCHANGED MCVars

MCSpec == MCInit /\ [][MCNext]_MCVars

Symmetry == Permutations(IDs)

-----------------------------------------------------------------------------
(* Index jobs are what they are reported to be: no two goroutines work on  *)
(* one index or write the store at once, every job is running or recorded  *)
(* with the end it had, the reconciler stops after a crash loop, exit 0 of *)
(* a command means its jobs succeeded, and a drop runs only on an index    *)
(* that is off in the relay that runs it, though the relay restarted after *)
(* the plan was confirmed (indexes.Manager, Start, jobsOutcome,            *)
(* runJobsCancel).                                                         *)
IndexJobsKept ==
    /\ part = "jobs" => J!OneJobPerIndex /\ J!EveryJobRecorded
    /\ part = "crashes" => JC!OneJobPerIndex /\ JC!EveryJobRecorded /\ JC!CrashLoopStops
    /\ part = "command" => I!SuccessIsTrue /\ I!DropsOnlyOff /\ I!StoppedIsOver
    /\ part = "restart" => IR!SuccessIsTrue /\ IR!DropsOnlyOff /\ IR!StoppedIsOver

(* A relay that serves can keep what its configuration promises: it can    *)
(* sign what its features sign, an admin command reads the address the     *)
(* listener answers to, no dropped error hid a typo, Blossom takes none of *)
(* the relay's routes and the targets fit a message (initConfig, Resolve,  *)
(* adminTarget, newServer).                                                *)
ConfigKept == part = "config" =>
    C!AdminReachable /\ C!PromisesCanBeKept /\ C!NothingReadByDefault /\ C!RoutesStayOurs /\ C!TargetsReachable

(* The joined history is one ascending time axis with every series as      *)
(* long, and no sample falls between the two rings, after late ticks and   *)
(* with series that come and go (ring.append, History.roll, Columns).      *)
ChartsKept == part = "samples" => H!ChartIsAligned /\ H!NoSampleLost

(* The event stream of `space join --json' tells a consistent story of     *)
(* every participant (nobody speaks who has not joined or has left, nobody *)
(* stops who has not started) and a tick leaves decoders only for people   *)
(* in the room; the chat shows every held message exactly once, a reply    *)
(* below the message it answers unless the two answer each other, and a    *)
(* send reports success only for a message the relay stored (runHeadless,  *)
(* roster.sync, chatLog.lines, Send).                                      *)
CallsTold ==
    /\ [](part = "call" => K!StoryMakesSense)
    /\ [][part = "call" => K!DecodersFollowRoom]_MCVars
    /\ [](part = "chat" => B!EveryMessageShown /\ B!SentIsStored)
    /\ [](part = "late" => BL!EveryMessageShown /\ BL!SentIsStored)

(* The request history (cli/bunker/eventlog.go, daemon.go). What the       *)
(* history shows and was written, a crash at any point brings back with    *)
(* the same outcome and signed event; no recovery rewrites a decision or   *)
(* takes it for a leftover; a second restart does not rediscover a         *)
(* leftover; and the log stays within twice the history.                   *)
HistoryKept ==
    /\ part = "history" => /\ BH!HistorySurvivesCrash /\ BH!DecisionNotRewritten
                           /\ BH!LeftoversSettled /\ BH!LogBounded
    /\ part = "failing" => /\ BE!HistorySurvivesCrash /\ BE!DecisionNotRewritten
                           /\ BE!LeftoversSettled /\ BE!LogBounded
=============================================================================
