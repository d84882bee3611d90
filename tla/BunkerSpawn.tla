----------------------------- MODULE BunkerSpawn -----------------------------
(***************************************************************************)
(* Starting, finding and stopping the background signer: the bunker        *)
(* commands (cli/bunker/command.go), the detached child they spawn         *)
(* (spawn_unix.go) and the control socket both meet at (ipc_server.go,     *)
(* ipc_client.go).  A run r of a command spawns at most one daemon, also   *)
(* named r; Mode[r] is the command that runs.  `path' is the daemon whose  *)
(* socket file is at SocketPath(), None when there is no file; the file    *)
(* outlives a daemon that crashes.                                         *)
(***************************************************************************)
EXTENDS Naturals, FiniteSets

CONSTANTS Runs,        \* runs of the bunker command
          Mode,        \* [Runs -> {"bare", "headless", "attach", "oneshot", "stop"}]
          Identity,    \* [Runs -> the identity asked for]
          Faults,      \* subset of {"crash", "key", "load", "relays"}
          None

VARIABLES cli,         \* [Runs -> where the command is]
          conn,        \* [Runs -> the daemon it is connected to, or None]
          said,        \* [Runs -> what it reported]
          daemon,      \* [Runs -> where the daemon process is]
          path,        \* whose socket file is at the path
          pending,     \* daemons holding requests nobody has decided
          folded       \* daemons whose requests another one wrote off

vars == <<cli, conn, said, daemon, path, pending, folded>>

Serving == {d \in Runs : daemon[d] = "serving"}

\* socketIsLive, net.DialTimeout: someone accepts behind the file.
IsLive == path \in Serving

Init == /\ cli = [r \in Runs |-> "idle"]
        /\ conn = [r \in Runs |-> None]
        /\ said = [r \in Runs |-> "-"]
        /\ daemon = [r \in Runs |-> "none"]
        /\ path = None
        /\ pending = {}
        /\ folded = {}

Report(r, what) == /\ cli' = [cli EXCEPT ![r] = "done"]
                   /\ said' = [said EXCEPT ![r] = what]

Attach(r, what) == /\ cli' = [cli EXCEPT ![r] = what]
                   /\ conn' = [conn EXCEPT ![r] = path]

\* DialIPC at the start of every command.  Without a daemon, bare and
\* headless go on to start one; the others report that none is running
\* (status says so without failing).
DialFound(r) ==
    /\ cli[r] = "idle" /\ IsLive
    /\ CASE Mode[r] \in {"bare", "attach"} -> Attach(r, "tui") /\ UNCHANGED said
         [] Mode[r] = "headless" /\ Identity[path] # Identity[r] ->
               Report(r, "conflict") /\ UNCHANGED conn
         [] OTHER -> Attach(r, "call") /\ UNCHANGED said
    /\ UNCHANGED <<daemon, path, pending, folded>>

DialMissing(r) ==
    /\ cli[r] = "idle" /\ ~IsLive
    /\ IF Mode[r] \in {"bare", "headless"}
         THEN cli' = [cli EXCEPT ![r] = "resolve"] /\ UNCHANGED said
         ELSE Report(r, "not running")
    /\ UNCHANGED <<conn, daemon, path, pending, folded>>

\* ensureDaemonRunning up to the spawn: ResolveSignerKey and resolveRelays
\* may refuse; spawnDaemon starts the child and hands it the key over fd 3.
Resolves == IF "key" \in Faults THEN {TRUE, FALSE} ELSE {TRUE}

Spawn(r) ==
    /\ cli[r] = "resolve"
    /\ \/ /\ FALSE \in Resolves
          /\ Report(r, "refused") /\ UNCHANGED daemon
       \/ /\ cli' = [cli EXCEPT ![r] = "wait"]
          /\ daemon' = [daemon EXCEPT ![r] = "started"]
          /\ UNCHANGED said
    /\ UNCHANGED <<conn, path, pending, folded>>

\* waitForSocket: ready as soon as anything answers on the path, and
\* DialIPC right after it.
WaitReady(r) ==
    /\ cli[r] = "wait" /\ IsLive
    /\ cli' = [cli EXCEPT ![r] = "redial"]
    /\ UNCHANGED <<conn, said, daemon, path, pending, folded>>

WaitForever(r) ==
    /\ cli[r] = "wait" /\ FALSE
    /\ UNCHANGED vars

WaitTimeout(r) ==
    /\ cli[r] = "wait"
    /\ Report(r, "timed out")
    /\ UNCHANGED <<conn, daemon, path, pending, folded>>

Redial(r) ==
    /\ cli[r] = "redial"
    /\ IF IsLive THEN /\ Attach(r, IF Mode[r] = "bare" THEN "tui" ELSE "call")
                      /\ UNCHANGED said
                 ELSE Report(r, "unreachable") /\ UNCHANGED conn
    /\ UNCHANGED <<daemon, path, pending, folded>>

\* runDaemonProcess up to Listen: LoadStore and LoadEventLog.  The log's
\* requests without a decision are written off as expired.  A file that
\* does not parse ends the process.
DaemonLoad(d) ==
    /\ daemon[d] = "started"
    /\ \/ /\ daemon' = [daemon EXCEPT ![d] = "listen"]
          /\ folded' = folded \cup pending
       \/ /\ "load" \in Faults
          /\ daemon' = [daemon EXCEPT ![d] = "gone"]
          /\ UNCHANGED folded
    /\ UNCHANGED <<cli, conn, said, path, pending>>

\* Listen, one system call a step: Lstat and socketIsLive, Remove, bind.
ListenStat(d) ==
    /\ daemon[d] = "listen"
    /\ daemon' = [daemon EXCEPT ![d] = IF path = None THEN "bind"
                                       ELSE IF IsLive THEN "gone" ELSE "remove"]
    /\ UNCHANGED <<cli, conn, said, path, pending, folded>>

ListenRemove(d) ==
    /\ daemon[d] = "remove"
    /\ daemon' = [daemon EXCEPT ![d] = IF path = None THEN "gone" ELSE "bind"]
    /\ path' = None
    /\ UNCHANGED <<cli, conn, said, pending, folded>>

\* net.Listen refuses a path that exists; Serve and Daemon.Run follow.
ListenBind(d) ==
    /\ daemon[d] = "bind"
    /\ IF path = None
         THEN daemon' = [daemon EXCEPT ![d] = "serving"] /\ path' = d
         ELSE daemon' = [daemon EXCEPT ![d] = "gone"] /\ UNCHANGED path
    /\ UNCHANGED <<cli, conn, said, pending, folded>>

\* A request reaches the daemon and waits for its human; it is decided.
Arrive(d) ==
    /\ daemon[d] = "serving" /\ d \notin pending
    /\ pending' = pending \cup {d}
    /\ UNCHANGED <<cli, conn, said, daemon, path, folded>>

Decide(d) ==
    /\ daemon[d] = "serving" /\ d \in pending
    /\ pending' = pending \ {d}
    /\ UNCHANGED <<cli, conn, said, daemon, path, folded>>

\* Daemon.Run returns at once when no relay is configured; its deferred
\* cancel makes Serve close the listener.
NoRelays(d) ==
    /\ "relays" \in Faults
    /\ daemon[d] = "serving"
    /\ daemon' = [daemon EXCEPT ![d] = "stopping"]
    /\ UNCHANGED <<cli, conn, said, path, pending, folded>>

\* Server.Serve once the context ends: Close unlinks the path by name,
\* whoever's file is there by then, and the process exits.
Shutdown(d) ==
    /\ daemon[d] = "stopping"
    /\ daemon' = [daemon EXCEPT ![d] = "gone"]
    /\ path' = None
    /\ UNCHANGED <<cli, conn, said, pending, folded>>

Crash(d) ==
    /\ "crash" \in Faults
    /\ daemon[d] = "serving"
    /\ daemon' = [daemon EXCEPT ![d] = "gone"]
    /\ UNCHANGED <<cli, conn, said, path, pending, folded>>

\* serveConn and dispatch answer a call; ipcClient.call fails when the
\* daemon is gone.
CallAnswered(r) ==
    /\ cli[r] = "call" /\ Mode[r] # "stop"
    /\ daemon[conn[r]] \in {"serving", "stopping"}
    /\ Report(r, "answered")
    /\ UNCHANGED <<conn, daemon, path, pending, folded>>

CallFailed(r) ==
    /\ cli[r] = "call" /\ Mode[r] # "stop"
    /\ daemon[conn[r]] = "gone"
    /\ Report(r, "failed")
    /\ UNCHANGED <<conn, daemon, path, pending, folded>>

\* `bunker stop': dispatch cancels the daemon's context; the reply, or the
\* connection ending instead of it, confirms.  An unreachable daemon is
\* gone already.
StopUnsent(r) ==
    /\ cli[r] = "call" /\ Mode[r] = "stop"
    /\ Report(r, "stopped")
    /\ UNCHANGED <<conn, daemon, path, pending, folded>>

Stop(r) ==
    /\ cli[r] = "call" /\ Mode[r] = "stop"
    /\ daemon' = [daemon EXCEPT ![conn[r]] = IF @ = "serving" THEN "stopping" ELSE @]
    /\ Report(r, "stopped")
    /\ UNCHANGED <<conn, path, pending, folded>>

\* runTUI ends by the user's hand, or because the daemon is gone; the
\* daemon itself goes on.
LeaveTUI(r) ==
    /\ cli[r] = "tui"
    /\ Report(r, IF daemon[conn[r]] = "gone" THEN "daemon lost" ELSE "left")
    /\ UNCHANGED <<conn, daemon, path, pending, folded>>

Next == \E r \in Runs :
           \/ DialFound(r) \/ DialMissing(r) \/ Spawn(r)
           \/ WaitReady(r) \/ WaitTimeout(r) \/ Redial(r)
           \/ DaemonLoad(r) \/ ListenStat(r) \/ ListenRemove(r) \/ ListenBind(r)
           \/ Arrive(r) \/ Decide(r)
           \/ NoRelays(r) \/ Shutdown(r) \/ Crash(r)
           \/ CallAnswered(r) \/ CallFailed(r) \/ Stop(r) \/ LeaveTUI(r)

\* The scheduler runs every process, and waitForSocket's deadline passes.
Fairness == \A r \in Runs :
    /\ WF_vars(Spawn(r)) /\ WF_vars(WaitReady(r) \/ WaitTimeout(r)) /\ WF_vars(Redial(r))
    /\ WF_vars(DaemonLoad(r)) /\ WF_vars(ListenStat(r))
    /\ WF_vars(ListenRemove(r)) /\ WF_vars(ListenBind(r)) /\ WF_vars(Shutdown(r))
    /\ WF_vars(CallAnswered(r) \/ CallFailed(r)) /\ WF_vars(Stop(r))

Spec == Init /\ [][Next]_vars
FairSpec == Spec /\ Fairness

----------------------------------------------------------------------------
(***************************************************************************)
(* `stopped' is true when it is printed and stays true: the daemon the     *)
(* command spoke to is on its way out, though its reply may never have     *)
(* come (ipcClient.Stop).                                                  *)
(***************************************************************************)
StoppedIsStopped ==
    \A r \in Runs : Mode[r] = "stop" /\ said[r] = "stopped" =>
        daemon[conn[r]] \in {"stopping", "gone"}

Resolving(r) == cli[r] = "resolve"
Settled(r) == cli[r] \in {"done", "tui"}

(***************************************************************************)
(* A command that starts a daemon ends or hands over to the board,         *)
(* whatever becomes of the daemon: it dies before it binds, it loses the   *)
(* bind, or someone else's answers in its place (ensureDaemonRunning).     *)
(***************************************************************************)
SpawnEnds == \A r \in Runs : Resolving(r) ~> Settled(r)

(***************************************************************************)
(* Listen's comment: a socket file is dialed first to learn whether a      *)
(* daemon is genuinely listening before it is concluded stale and safe to  *)
(* remove and rebind.  So no two daemons serve at once.                    *)
(* It fails with three starters: one of them removes as stale the socket   *)
(* another bound after it had looked.                                      *)
(***************************************************************************)
OneServer == Cardinality(Serving) <= 1

(***************************************************************************)
(* LoadEventLog's comment: what is left undecided in the log was in        *)
(* flight when whatever wrote it stopped running.  So a request is only    *)
(* written off once the daemon holding it no longer serves.                *)
(* It fails: a second daemon loads the log, and writes the requests off,   *)
(* before it finds out that the first one listens.                         *)
(***************************************************************************)
WrittenOffIsOver == \A d \in folded : daemon[d] # "serving"
=============================================================================
