---------------------------- MODULE MCLive ----------------------------
(***************************************************************************)
(* What must end or go on, with the fairness of each component: the daemon *)
(* a command starts, index jobs and the commands that watch them, the      *)
(* negotiation, the voices and the video of a huddle, the local writes and *)
(* the sources of a stream, and the stop of the relay. One component runs  *)
(* at a time: part names it, its variables are the slots v1, v2, ... as    *)
(* its INSTANCE says, and the slots it does not use are 0.                 *)
(***************************************************************************)
EXTENDS Naturals, Sequences, FiniteSets, Functions

CONSTANTS Parts, Tracks, None

VARIABLES part,
          v1, v2, v3, v4, v5, v6, v7, v8, v9, v10, v11, v12, v13, v14, v15, v16, v17

\* The slots from the k-th on, and that they are unused.
Rest17 == <<v17>>
Blank17 == v17 = 0
Rest15 == <<v15, v16, Rest17>>
Blank15 == v15 = 0 /\ v16 = 0 /\ Blank17
Rest14 == <<v14, Rest15>>
Blank14 == v14 = 0 /\ Blank15
Rest12 == <<v12, v13, Rest14>>
Blank12 == v12 = 0 /\ v13 = 0 /\ Blank14
Rest10 == <<v10, v11, Rest12>>
Blank10 == v10 = 0 /\ v11 = 0 /\ Blank12
Rest8 == <<v8, v9, Rest10>>
Blank8 == v8 = 0 /\ v9 = 0 /\ Blank10

vars == <<part, v1, v2, v3, v4, v5, v6, v7, v8, v9, v10, v11, v12, v13, v14,
          v15, v16, v17>>

-----------------------------------------------------------------------------
\* Two commands that start a daemon and one that stops it.
Mode == [r1 |-> "bare", r2 |-> "headless", r3 |-> "stop"]
Identity == [r1 |-> "i1", r2 |-> "i2", r3 |-> "-"]

Needs == [i \in {"zaps"} |-> {"catch_up", "rebuild"}]

\* Three events and the deletions of two of them.
Input == <<"a", "b", "da", "c", "db">>
TargetOf == [x \in Range(Input) |-> IF x = "da" THEN "a" ELSE IF x = "db" THEN "b" ELSE x]

-----------------------------------------------------------------------------
\* Three commands at once.
D == INSTANCE BunkerSpawn WITH
    Runs <- DOMAIN Mode, Faults <- {"key", "load", "relays", "crash"},
    cli <- v1, conn <- v2, said <- v3, daemon <- v4, path <- v5, pending <- v6,
    folded <- v7

\* One index, and a lost answer or a restart.
CR == INSTANCE IndexCommand WITH
    Indexes <- {"zaps"}, NoStore <- {},
    Commands <- {"rebuild", "drop", "show", "cancel"}, Args <- {"all"},
    Faults <- {"lost", "restart"}, MaxJobs <- 2, MaxFaults <- 1,
    enabled <- v1, hasData <- v2, job <- v3, next <- v4, handler <- v5, cmd <- v6,
    arg <- v7, pc <- v8, names <- v9, planned <- v10, list <- v11, exit <- v12,
    faults <- v13

\* An index, its reconciler and an admin who starts jobs too.
J == INSTANCE IndexJobs WITH
    Indexes <- {"zaps"}, Enabled <- {"zaps"}, StoreIndexes <- {"zaps"},
    Admins <- {"a1"}, MaxJobs <- 2, KeptJobs <- 2, CrashLoopRuns <- 2, Window <- 0,
    MaxTime <- 0,
    now <- v1, up <- v2, closed <- v3, running <- v4, job <- v5, started <- v6,
    hist <- v7, file <- v8, writer <- v9, admin <- v10, rec <- v11

\* Three tracks and two candidates.
N == INSTANCE SfuNegotiation WITH
    Local <- {"l1"}, Remote <- {"r1"}, MaxPending <- 2,
    sig <- v1, added <- v2, offered <- v3, agreed <- v4, adder <- v5, negotiated <- v6,
    pending <- v7, loop <- v8, inbox <- v9, outbox <- v10, gathered <- v11, sent <- v12,
    held <- v13, remote <- v14, early <- v15, applied <- v16, client <- v17

\* Two workers and two faults.
L == INSTANCE StreamLocal WITH
    Workers <- 2, MaxFaults <- 2,
    taken <- v1, disp <- v2, shared <- v3, excl <- v4, work <- v5, store <- v6,
    acked <- v7, failed <- v8, broken <- v9

\* Four events, one of them invalid, and two faults.
O == INSTANCE StreamSource WITH
    Dests <- {"d1", "d2"}, Events <- 1..4, Bad <- {2}, MaxReads <- 4, InboxCap <- 2,
    IncomingCap <- 1, DestCap <- 1, MaxFaults <- 2,
    read <- v1, subbed <- v2, login <- v3, flow <- v4, retrying <- v5, erring <- v6,
    inbox <- v7, next <- v8, incoming <- v9, fanout <- v10, subs <- v11, queue <- v12,
    stuck <- v13, got <- v14, closed <- v15, faults <- v16

\* A room, a request and a job under way at the stop.
X == INSTANCE RelayLifecycle WITH
    Rooms <- {"r"}, Requests <- {"q"}, Jobs <- {"j"},
    pc <- v1, calls <- v2, ending <- v3, admin <- v4, stream <- v5, sampling <- v6,
    publisher <- v7, closed <- v8, jobs <- v9, request <- v10, store <- v11,
    deadline <- v12, passedAt <- v13

\* Two speakers.
A == INSTANCE HuddleMedia WITH
    Speakers <- {"a", "b"}, QueueDepth <- 1, MaxFails <- 2, Streams <- {},
    queue <- v1, tracks <- v2, hand <- v3, heard <- v4, closed <- v5, live <- v6,
    owner <- v7, bound <- v8, first <- v9, throttled <- v10, want <- v11, fresh <- v12,
    seen <- v13, fails <- v14

\* A publisher that reconnects.
V == INSTANCE HuddleMedia WITH
    Speakers <- {}, QueueDepth <- 1, MaxFails <- 2, Streams <- {1, 2},
    queue <- v1, tracks <- v2, hand <- v3, heard <- v4, closed <- v5, live <- v6,
    owner <- v7, bound <- v8, first <- v9, throttled <- v10, want <- v11, fresh <- v12,
    seen <- v13, fails <- v14

\* The instances satisfy what the components ask of their constants.
ASSUME LiveConstants == J!JobsAssumption /\ L!LocalAssumption

-----------------------------------------------------------------------------
Init ==
    /\ part \in Parts
    /\ \/ part = "spawn" /\ D!Init /\ Blank8
       \/ part = "restart" /\ CR!Init /\ Blank14
       \/ part = "jobs" /\ J!Init /\ Blank12
       \/ part = "tracks" /\ N!Init
       \/ part = "local" /\ L!Init /\ Blank10
       \/ part = "source" /\ O!Init /\ Blank17
       \/ part = "stop" /\ X!Init /\ Blank14
       \/ part = "voices" /\ A!Init /\ Blank15
       \/ part = "video" /\ V!Init /\ Blank15

\* The components that may come to an end.
MayStop == {"spawn", "restart", "tracks", "local", "source", "stop", "voices",
            "video"}

Next ==
    \/ part = "spawn" /\ D!Next /\ UNCHANGED <<part, Rest8>>
    \/ part = "restart" /\ CR!Next /\ UNCHANGED <<part, Rest14>>
    \/ part = "jobs" /\ J!Next /\ UNCHANGED <<part, Rest12>>
    \/ part = "tracks" /\ N!Next /\ UNCHANGED part
    \/ part = "local" /\ L!Next /\ UNCHANGED <<part, Rest10>>
    \/ part = "source" /\ O!Next /\ UNCHANGED <<part, Rest17>>
    \/ part = "stop" /\ X!Next /\ UNCHANGED <<part, Rest14>>
    \/ part = "voices" /\ A!Next /\ UNCHANGED <<part, Rest15>>
    \/ part = "video" /\ V!Next /\ UNCHANGED <<part, Rest15>>
    \/ part \in MayStop /\ UNCHANGED vars

Spec == Init /\ [][Next]_vars

Fairness ==
    /\ \A r \in DOMAIN Mode :
         /\ WF_(D!vars)(part = "spawn" /\ (D!Spawn(r) \/ D!WaitReady(r) \/ D!WaitTimeout(r) \/ D!Redial(r)
                                          \/ D!CallAnswered(r) \/ D!CallFailed(r) \/ D!Stop(r)))
         /\ WF_(D!vars)(part = "spawn" /\ (D!DaemonLoad(r) \/ D!ListenStat(r) \/ D!ListenRemove(r)
                                          \/ D!ListenBind(r) \/ D!Shutdown(r)))
    /\ \A n \in 1..2 :
         /\ WF_(CR!vars)(part = "restart" /\ CR!JobIsOver(n))
    /\ WF_(CR!vars)(part = "restart" /\ CR!PollAny)
    /\ WF_(CR!vars)(part = "restart" /\ CR!FollowEnds)
    /\ \A j \in 1..2 :
         /\ WF_(J!vars)(part = "jobs" /\ J!GiveUpWaiting(j))
         /\ WF_(J!vars)(part = "jobs" /\ J!Settle(j))
         /\ WF_(J!vars)(part = "jobs" /\ J!Leave(j))
         /\ WF_(J!vars)(part = "jobs" /\ J!EndsAsTold(j))
    /\ WF_(J!vars)(part = "jobs" /\ J!Resumes("a1"))
    /\ \A t \in Tracks :
         /\ WF_(N!vars)(part = "tracks" /\ N!TrackRenegotiate(t))
    /\ WF_(N!vars)(part = "tracks" /\ N!HandleOffer)
    /\ WF_(N!vars)(part = "tracks" /\ N!HandleAnswer)
    /\ WF_(N!vars)(part = "tracks" /\ (N!Answer \/ N!WriteAnswer \/ N!Settle \/ N!Answered))
    /\ WF_(N!vars)(part = "tracks" /\ N!LoopRenegotiate)
    /\ WF_(N!vars)(part = "tracks" /\ N!AddRemote)
    /\ WF_(N!vars)(part = "tracks" /\ N!ClientOffers)
    /\ WF_(N!vars)(part = "tracks" /\ N!ClientReads)
    /\ WF_(L!vars)(part = "local" /\ (L!Take \/ L!Lock \/ L!Spawn \/ L!Leave \/ L!Wait))
    /\ WF_(L!vars)(part = "local" /\ L!Retry)
    /\ \A e \in Range(Input) :
         /\ WF_(L!vars)(part = "local" /\ (L!Insert(e) \/ L!Report(e)))
    /\ \A r \in 1..4 :
         /\ WF_(O!vars)(part = "source" /\ O!Dial(r))
    /\ \A d \in {"d1", "d2"} :
         /\ WF_(O!vars)(part = "source" /\ O!Deliver(d))
         /\ WF_(O!vars)(part = "source" /\ O!Consume(d))
    /\ WF_(O!vars)(part = "source" /\ O!RelaySends)
    /\ WF_(O!vars)(part = "source" /\ O!HandleEvent)
    /\ WF_(O!vars)(part = "source" /\ O!HandleClosed)
    /\ WF_(O!vars)(part = "source" /\ O!HandleError)
    /\ WF_(O!vars)(part = "source" /\ O!Retry)
    /\ WF_(O!vars)(part = "source" /\ O!Broadcast)
    /\ WF_(X!vars)(part = "stop" /\ X!StopStep)
    /\ WF_(X!vars)(part = "stop" /\ X!DeadlinePasses)
    /\ WF_(A!vars)(part = "voices" /\ (A!TakeItem \/ A!WriterEnds \/ A!NewTrack \/ A!Write))
    /\ \A a \in {"a", "b"} : SF_(A!vars)(part = "voices" /\ A!SendsFrame(a))
    /\ \A p \in {1, 2} :
         /\ WF_(V!vars)(part = "video" /\ V!Packet(p))
         /\ WF_(V!vars)(part = "video" /\ V!Unpublish(p))
    /\ WF_(V!vars)(part = "video" /\ (V!TakeItem \/ V!WriterEnds \/ V!NewTrack \/ V!Write))
    /\ WF_(V!vars)(part = "video" /\ V!Bind)
    /\ WF_(V!vars)(part = "video" /\ V!FirstFeedback)
    /\ WF_(V!vars)(part = "video" /\ V!PictureLoss)
    /\ WF_(V!vars)(part = "video" /\ V!Interval)

FairSpec == Spec /\ Fairness

-----------------------------------------------------------------------------
(* A command that starts a daemon ends or hands over to the board,         *)
(* whatever becomes of the daemon, and `stopped' is true when it is        *)
(* printed (ensureDaemonRunning, ipcClient.Stop).                          *)
SpawnEnds ==
    /\ \A r \in DOMAIN Mode : (part = "spawn" /\ D!Resolving(r)) ~> (part = "spawn" /\ D!Settled(r))
    /\ [](part = "spawn" => D!StoppedIsStopped)

(* A command that watches its index jobs comes back; and after Shutdown    *)
(* every index job ends and every Start that waits for a superseded job    *)
(* returns, unless the process is gone before; part never changes, so one  *)
(* disjunct stands for each (followJobs, indexes.Manager).                 *)
IndexTasksEnd ==
    (part = "restart" /\ CR!Watching) \/ (part = "jobs" /\ J!ShuttingDown)
        ~> (part = "restart" /\ CR!Over) \/ (part = "jobs" /\ J!Quiet)

(* A track added at any moment ends up in a description both sides have    *)
(* (renegotiate, the session loop).                                        *)
EveryTrackNegotiated == \A t \in Tracks : (part = "tracks" /\ N!Added(t)) ~> (part = "tracks" /\ N!Agreed(t))

(* Streams go on: every event written locally is accepted or has failed,   *)
(* unless the flow is closed, and a deletion written after its target was  *)
(* read leaves the target deleted, however the workers run; and a source   *)
(* whose subscription was closed or whose connection failed is read again  *)
(* (client/stream.go, deleteBarrier).                                      *)
StreamsGoOn ==
    /\ <>(part = "local" => \A e \in Range(Input) : L!Accounted(e))
    /\ [](part = "local" => L!DeletionTakesEffect)
    /\ []<>(part = "source" => O!Reading)

(* Stop ends, whatever a slow client, an open dashboard, a stuck job or a  *)
(* stuck publisher does; and within the grace period it closes the store   *)
(* under nobody (RelayService.Stop).                                       *)
StopEnds ==
    /\ (part = "stop" /\ X!Stopping) ~> (part = "stop" /\ X!Stopped)
    /\ [](part = "stop" => X!StoreClosesLast)

(* A speaker who goes on speaking is heard though a track could not be     *)
(* added for one frame, and a subscriber comes to see a publisher that     *)
(* stays, though keyframes were missed, requests throttled and the         *)
(* publisher reconnected (Sink.trackFor, adopt, requestKeyframe).          *)
HeardAndSeen ==
    /\ <>(part = "voices" => \A a \in {"a", "b"} : A!Heard(a))
    /\ (part = "video" /\ V!Publishing(2)) ~> (part = "video" /\ V!Watching(2))
=============================================================================
