--------------------------- MODULE RelayLifecycle ---------------------------
(***************************************************************************)
(* A relay process from start to stop (cli/relay service.go, command.go,   *)
(* huddle.go): RunRelay opens the store, newServer starts the listener and *)
(* the background work, startAdmin the admin listener; Stop takes them     *)
(* down in a fixed order, each wait bounded by one deadline that all share *)
(* (shutdownGracePeriod).  Clients come and go meanwhile.  net/http's      *)
(* Shutdown (external) waits for active requests, does not cancel them,    *)
(* and knows nothing of hijacked WebSocket connections.                    *)
(***************************************************************************)
EXTENDS Naturals, FiniteSets

CONSTANTS Rooms, Requests, Jobs

VARIABLES pc,         \* where RunRelay / Stop is
          calls,      \* live huddle rooms
          ending,     \* endHuddleRooms: the rooms of its snapshot still to end
          admin,      \* the admin listener: "off", "up", "down"
          stream,     \* a dashboard's event stream is open
          sampling,   \* sampleCtx is live
          publisher,  \* the stats publisher runs
          closed,     \* jobs.Manager.closed
          jobs,       \* jobs running
          request,    \* [Requests -> "none", "active", "done", "severed"]
          store,      \* the event store: "shut", "open"
          deadline,   \* "none", "running", "passed"
          passedAt    \* pc when it passed

vars == <<pc, calls, ending, admin, stream, sampling, publisher, closed, jobs, request,
          store, deadline, passedAt>>

clients == <<calls, stream, request>>
work == <<sampling, publisher, closed, jobs>>
clock == <<deadline, passedAt>>

Init == /\ pc = "boot"
        /\ calls = {} /\ ending = {} /\ admin = "off" /\ stream = FALSE
        /\ sampling = FALSE /\ publisher = FALSE /\ closed = FALSE /\ jobs = {}
        /\ request = [q \in Requests |-> "none"]
        /\ store = "shut" /\ deadline = "none" /\ passedAt = "none"

Active == {q \in Requests : request[q] = "active"}
Expired == deadline = "passed"

----------------------------------------------------------------------------
\* openRelayStore and newServer: the stats publisher is optional.
Boot == /\ pc = "boot" /\ pc' = "admin_start"
        /\ store' = "open" /\ sampling' = TRUE /\ publisher' \in BOOLEAN
        /\ UNCHANGED <<clients, ending, admin, closed, jobs, clock>>

\* startAdmin: it listens; a defaulted address may be taken; any other
\* failure stops the relay.
StartAdmin == /\ pc = "admin_start"
              /\ \/ pc' = "serving" /\ admin' = "up"
                 \/ pc' = "serving" /\ UNCHANGED admin
                 \/ pc' = "end_rooms" /\ UNCHANGED admin
              /\ UNCHANGED <<clients, ending, work, store, clock>>

\* serve runs beside RunRelay: a port it cannot bind ends the process at
\* once, the store open.
BindFails == /\ pc \in {"admin_start", "serving"} /\ calls = {}
             /\ request = [q \in Requests |-> "none"]
             /\ pc' = "dead"
             /\ UNCHANGED <<clients, ending, admin, work, store, clock>>

Signal == /\ pc = "serving" /\ pc' = "end_rooms"
          /\ UNCHANGED <<clients, ending, admin, work, store, clock>>

\* The public listener is up from newServer until Stop's server.Shutdown.
Listening == pc \in {"admin_start", "serving", "end_rooms", "ending", "admin_down",
                     "publisher_wait", "jobs_down", "jobs_wait"}

Arrives(q) == /\ Listening /\ request[q] = "none"
              /\ request' = [request EXCEPT ![q] = "active"]
              /\ UNCHANGED <<pc, calls, stream, ending, admin, work, store, clock>>

Finishes(q) == /\ request[q] = "active"
               /\ request' = [request EXCEPT ![q] = "done"]
               /\ UNCHANGED <<pc, calls, stream, ending, admin, work, store, clock>>

Joins(r) == /\ Listening /\ r \notin calls /\ calls' = calls \cup {r}
            /\ UNCHANGED <<pc, stream, request, ending, admin, work, store, clock>>

Leaves(r) == /\ r \in calls /\ calls' = calls \ {r}
             /\ UNCHANGED <<pc, stream, request, ending, admin, work, store, clock>>

Dashboard == /\ admin = "up" /\ pc # "admin_down" /\ stream' = ~stream
             /\ UNCHANGED <<pc, calls, request, ending, admin, work, store, clock>>

\* Index jobs start until the manager is closed, and end on their own or
\* when cancelled; the publisher returns once sampling stopped.
JobStarts(j) == /\ sampling /\ ~closed /\ j \notin jobs /\ jobs' = jobs \cup {j}
                /\ UNCHANGED <<pc, clients, ending, admin, sampling, publisher, closed, store, clock>>

JobEnds(j) == /\ j \in jobs /\ jobs' = jobs \ {j}
              /\ UNCHANGED <<pc, clients, ending, admin, sampling, publisher, closed, store, clock>>

PublisherEnds == /\ publisher /\ ~sampling /\ pc # "boot" /\ publisher' = FALSE
                 /\ UNCHANGED <<pc, clients, ending, admin, sampling, closed, jobs, store, clock>>

----------------------------------------------------------------------------
\* Stop.  endHuddleRooms ends the rooms of one snapshot.
ListRooms == /\ pc = "end_rooms" /\ pc' = "ending" /\ ending' = calls
             /\ UNCHANGED <<clients, admin, work, store, clock>>

EndRoom == /\ pc = "ending" /\ ending # {}
           /\ \E r \in ending : ending' = ending \ {r} /\ calls' = calls \ {r}
           /\ UNCHANGED <<pc, stream, request, admin, work, store, clock>>

StartClock == /\ pc = "ending" /\ ending = {}
              /\ pc' = "admin_down" /\ deadline' = "running"
              /\ UNCHANGED <<clients, ending, admin, work, store, passedAt>>

\* Ten seconds pass only while one of the waits holds Stop.
Held == \/ pc = "admin_down" /\ admin = "up" /\ stream
        \/ pc = "publisher_wait" /\ publisher
        \/ pc = "jobs_wait" /\ jobs # {}
        \/ pc = "server_down" /\ Active # {}

DeadlinePasses == /\ deadline = "running" /\ Held /\ deadline' = "passed" /\ passedAt' = pc
                  /\ UNCHANGED <<pc, clients, ending, admin, work, store>>

\* admin.Shutdown: open streams are active requests; Close after the
\* deadline.  Then stopSampling.
AdminDownUnbounded ==
    /\ pc = "admin_down" /\ (admin = "off" \/ ~stream)
    /\ admin' = "down" /\ stream' = FALSE
    /\ sampling' = FALSE
    /\ pc' = "publisher_wait"
    /\ UNCHANGED <<calls, request, ending, publisher, closed, jobs, store, clock>>

AdminDown ==
    /\ pc = "admin_down" /\ (admin = "off" \/ ~stream \/ Expired)
    /\ admin' = "down" /\ stream' = FALSE
    /\ sampling' = FALSE
    /\ pc' = "publisher_wait"
    /\ UNCHANGED <<calls, request, ending, publisher, closed, jobs, store, clock>>

\* The dashboard may close its stream during the wait.
StreamEnds == /\ pc = "admin_down" /\ stream /\ stream' = FALSE
              /\ UNCHANGED <<pc, calls, request, ending, admin, work, store, clock>>

PublisherWait == /\ pc = "publisher_wait" /\ (~publisher \/ Expired) /\ pc' = "jobs_down"
                 /\ UNCHANGED <<clients, ending, admin, work, store, clock>>

\* jobs.Shutdown: closed, everything cancelled, then the wait.
JobsDown == /\ pc = "jobs_down" /\ closed' = TRUE /\ pc' = "jobs_wait"
            /\ UNCHANGED <<clients, ending, admin, sampling, publisher, jobs, store, clock>>

JobsOverSoon == TRUE

JobsOver == jobs = {} \/ Expired

JobsWait == /\ pc = "jobs_wait" /\ JobsOver /\ pc' = "server_down"
            /\ UNCHANGED <<clients, ending, admin, work, store, clock>>

\* server.Shutdown, or Close once the deadline passed.
ServerDown == /\ pc = "server_down" /\ (Active = {} \/ Expired)
              /\ request' = [q \in Requests |-> IF request[q] = "active" THEN "severed" ELSE request[q]]
              /\ pc' = "store_down"
              /\ UNCHANGED <<calls, stream, ending, admin, work, store, clock>>

\* verificationWorker.Stop and store.Close
StoreDown == /\ pc = "store_down" /\ store' = "shut" /\ pc' = "stopped"
             /\ UNCHANGED <<clients, ending, admin, work, clock>>

StopStep == \/ ListRooms \/ EndRoom \/ StartClock \/ AdminDown
            \/ PublisherWait \/ JobsDown \/ JobsWait \/ ServerDown \/ StoreDown

Next == \/ Boot \/ StartAdmin \/ BindFails \/ Signal \/ DeadlinePasses \/ StopStep
        \/ \E q \in Requests : Arrives(q) \/ Finishes(q)
        \/ \E r \in Rooms : Joins(r) \/ Leaves(r)
        \/ \E j \in Jobs : JobStarts(j) \/ JobEnds(j)
        \/ Dashboard \/ StreamEnds \/ PublisherEnds

Spec == Init /\ [][Next]_vars

\* Stop's own steps are taken and time passes; nothing is assumed of
\* clients, jobs or the publisher.
FairSpec == Spec /\ WF_vars(StopStep) /\ WF_vars(DeadlinePasses)

----------------------------------------------------------------------------
Stopping == pc = "end_rooms"
Stopped == pc = "stopped"

(***************************************************************************)
(* Stop ends, whatever a slow client, an open dashboard, a stuck job or a  *)
(* stuck publisher does (Stop, shutdownGracePeriod).                       *)
(***************************************************************************)
StopEnds == Stopping ~> Stopped

(***************************************************************************)
(* A stop within the grace period closes the store under nobody: jobs, the *)
(* stats publisher and HTTP requests are over before store.Close (Stop's   *)
(* order, Manager.Shutdown).                                               *)
(***************************************************************************)
StoreClosesLast ==
    (pc = "stopped" /\ deadline = "running") => jobs = {} /\ ~publisher /\ ~sampling /\ Active = {}

(***************************************************************************)
(* A request still active at the stop is cut only after server.Shutdown    *)
(* waited its grace period for it (shutdownGracePeriod: "a bounded wait    *)
(* *and* a real hard stop after it").  It is not: an open dashboard stream *)
(* uses up the shared deadline in admin.Shutdown, and the public server is *)
(* closed at once.                                                         *)
(***************************************************************************)
GraceForRequests == \A q \in Requests : request[q] = "severed" => passedAt = "server_down"
=============================================================================
