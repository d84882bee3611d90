----------------------------- MODULE ClientRun ------------------------------
(***************************************************************************)
(* `apply` (client/client.go): Process, the run goroutine that owns the    *)
(* TUI, render, which opens the workflow's module and waits on stopCh, and *)
(* the reload callbacks the file watcher and the 'r' key lead to.  stopCh  *)
(* and errors are unbuffered channels; wg counts the renders.              *)
(***************************************************************************)
EXTENDS Integers, FiniteSets

CONSTANTS
    Reloads,      \* reload callbacks, each its own goroutine
    MaxEdits,     \* edits of the workflow file
    HasTui        \* not raw and not headless

First == "first"                 \* the render started by run
Renders == {First} \union Reloads

VARIABLES
    file,      \* the workflow file: "good", "bad" (its module does not open) or "broken" (not YAML)
    edits,
    spec,      \* c.rs: "good" or "bad"
    main,      \* Process: "select", "waiting" or "returned"
    cancelled, \* the parent context
    run,       \* "tui", "waiting" or "done"
    closed,    \* stopCh was closed
    wg,
    render,    \* [Renders -> "no", "start", "build", "failed", "running", "closing", "done"]
    reload,    \* [Reloads -> "no", "init", "stop", "wait", "render", "panicked"]
    watchErr   \* the watcher goroutine is sending an error

vars == <<file, edits, spec, main, cancelled, run, closed, wg, render, reload, watchErr>>

\* Process up to its select: NewClient, watcher.Add, init, go run; run starts the first render.
Init ==
    /\ file = "good" /\ edits = 0 /\ spec = "good"
    /\ main = "select" /\ cancelled = FALSE
    /\ run = "tui" /\ closed = FALSE /\ wg = 0
    /\ render = [r \in Renders |-> IF r = First THEN "start" ELSE "no"]
    /\ reload = [c \in Reloads |-> "no"]
    /\ watchErr = FALSE

Alive == main # "returned" /\ \A c \in Reloads : reload[c] # "panicked"

-----------------------------------------------------------------------------
(* render *)

RenderStart(r) ==
    /\ Alive /\ render[r] = "start"
    /\ wg' = wg + 1
    /\ render' = [render EXCEPT ![r] = "build"]
    /\ UNCHANGED <<file, edits, spec, main, cancelled, run, closed, reload, watchErr>>

\* NewStream, NewInspector or NewSyncModule, and the board.
RenderBuild(r) ==
    /\ Alive /\ render[r] = "build"
    /\ render' = [render EXCEPT ![r] = IF spec = "good" THEN "running" ELSE "failed"]
    /\ UNCHANGED <<file, edits, spec, main, cancelled, run, closed, wg, reload, watchErr>>

\* stopCh is closed: the module is closed (Stream.Close with the recovery flush).
RenderStopped(r) ==
    /\ Alive /\ render[r] = "running" /\ closed
    /\ render' = [render EXCEPT ![r] = "closing"]
    /\ UNCHANGED <<file, edits, spec, main, cancelled, run, closed, wg, reload, watchErr>>

RenderDone(r) ==
    /\ Alive /\ render[r] = "closing"
    /\ render' = [render EXCEPT ![r] = "done"]
    /\ wg' = wg - 1
    /\ UNCHANGED <<file, edits, spec, main, cancelled, run, closed, reload, watchErr>>

-----------------------------------------------------------------------------
(* The reload callback *)

Edit ==
    /\ Alive /\ edits < MaxEdits /\ edits' = edits + 1
    /\ file' \in {"good", "bad", "broken"} \ {file}
    /\ UNCHANGED <<spec, main, cancelled, run, closed, wg, render, reload, watchErr>>

\* restart asks, or the user presses 'r'; "Reload" starts the callback's goroutine.
ReloadStart(c) ==
    /\ Alive /\ HasTui /\ run = "tui" /\ reload[c] = "no"
    /\ reload' = [reload EXCEPT ![c] = "init"]
    /\ UNCHANGED <<file, edits, spec, main, cancelled, run, closed, wg, render, watchErr>>

\* init: a file that does not parse is only reported.
ReloadInit(c) ==
    /\ Alive /\ reload[c] = "init"
    /\ spec' = IF file = "broken" THEN spec ELSE file
    /\ reload' = [reload EXCEPT ![c] = IF file = "broken" THEN "no" ELSE "stop"]
    /\ UNCHANGED <<file, edits, main, cancelled, run, closed, wg, render, watchErr>>

\* c.stopCh <- true, taken by the running render.
ReloadStop(c, r) ==
    /\ Alive /\ reload[c] = "stop" /\ ~closed /\ render[r] = "running"
    /\ render' = [render EXCEPT ![r] = "closing"]
    /\ reload' = [reload EXCEPT ![c] = "wait"]
    /\ UNCHANGED <<file, edits, spec, main, cancelled, run, closed, wg, watchErr>>

\* A send on the closed channel panics.
ReloadPanics(c) ==
    /\ Alive /\ reload[c] = "stop" /\ closed
    /\ reload' = [reload EXCEPT ![c] = "panicked"]
    /\ UNCHANGED <<file, edits, spec, main, cancelled, run, closed, wg, render, watchErr>>

\* Mutant: the new module is opened without waiting for the old one to close.
WaitedNot == TRUE

Waited == wg = 0

\* c.wg.Wait, then render in the same goroutine.
ReloadRender(c) ==
    /\ Alive /\ reload[c] = "wait" /\ Waited
    /\ reload' = [reload EXCEPT ![c] = "render"]
    /\ render' = [render EXCEPT ![c] = "start"]
    /\ UNCHANGED <<file, edits, spec, main, cancelled, run, closed, wg, watchErr>>

-----------------------------------------------------------------------------
(* run and Process *)

Cancel ==
    /\ Alive /\ ~cancelled /\ cancelled' = TRUE
    /\ UNCHANGED <<file, edits, spec, main, run, closed, wg, render, reload, watchErr>>

\* The TUI quits, or the context ends: close(stopCh).
RunStops ==
    /\ Alive /\ run = "tui" /\ (cancelled \/ HasTui)
    /\ run' = "waiting" /\ closed' = TRUE
    /\ UNCHANGED <<file, edits, spec, main, cancelled, wg, render, reload, watchErr>>

RunDone ==
    /\ Alive /\ run = "waiting" /\ wg = 0
    /\ run' = "done"
    /\ UNCHANGED <<file, edits, spec, main, cancelled, closed, wg, render, reload, watchErr>>

\* Process's select: the context ended, so wait for run.
MainWaits ==
    /\ main = "select" /\ cancelled
    /\ main' = "waiting"
    /\ UNCHANGED <<file, edits, spec, cancelled, run, closed, wg, render, reload, watchErr>>

MainCompleted ==
    /\ main \in {"select", "waiting"} /\ run = "done"
    /\ main' = "returned"
    /\ UNCHANGED <<file, edits, spec, cancelled, run, closed, wg, render, reload, watchErr>>

\* An error of a render.
MainError(r) ==
    /\ main = "select" /\ render[r] = "failed"
    /\ main' = "returned"
    /\ render' = [render EXCEPT ![r] = "done"]
    /\ wg' = wg - 1
    /\ UNCHANGED <<file, edits, spec, cancelled, run, closed, reload, watchErr>>

\* An error of the watcher goes the same way.
WatcherFails ==
    /\ Alive /\ ~watchErr /\ watchErr' = TRUE
    /\ UNCHANGED <<file, edits, spec, main, cancelled, run, closed, wg, render, reload>>

MainWatchError ==
    /\ main = "select" /\ watchErr
    /\ main' = "returned"
    /\ UNCHANGED <<file, edits, spec, cancelled, run, closed, wg, render, reload, watchErr>>

Next ==
    \/ \E r \in Renders : RenderStart(r) \/ RenderBuild(r) \/ RenderStopped(r) \/ RenderDone(r) \/ MainError(r)
    \/ \E c \in Reloads : ReloadStart(c) \/ ReloadInit(c) \/ ReloadPanics(c) \/ ReloadRender(c)
    \/ \E c \in Reloads, r \in Renders : ReloadStop(c, r)
    \/ Edit \/ Cancel \/ RunStops \/ RunDone \/ MainWaits \/ MainCompleted \/ WatcherFails \/ MainWatchError

Spec == Init /\ [][Next]_vars

-----------------------------------------------------------------------------
(* Properties *)

\* Two modules are never open at once: a local store can be held by one at a time, and
\* a reload opens the new module only after the old one closed, however many reloads
\* run together (the reload callback, render, stopCh and wg).
OneModule == Cardinality({r \in Renders : render[r] \in {"running", "closing"}}) <= 1

\* The process ends only after its module closed: "Don't return until c.run() actually
\* finishes its graceful shutdown (Stream.Close, including the recovery flush)"
\* (client/client.go:412-414).
\* It fails when the watcher reports an error: Run returns it at once.
ClosedBeforeExit ==
    ~Alive => \A r \in Renders : render[r] \notin {"running", "closing"}
=============================================================================
