----------------------------- MODULE TuiBoards -----------------------------
(***************************************************************************)
(* The apply and inspect boards (client/tui table.go, eventtable.go,       *)
(* eventdialog.go, client/event_export.go) on the page stack of TuiApp:    *)
(* the flow table with its sort keys and 'd', the event table with its     *)
(* tail and its save key, the event overlay, and the dialogs that a        *)
(* configuration change or a restart opens from another goroutine.         *)
(*                                                                         *)
(* A page body is <<what, flow or event, row>>.                            *)
(***************************************************************************)
EXTENDS Naturals, Sequences, TuiApp

CONSTANTS
  Flows,        \* the rows of the flow table, numbered in their Name order
  Events,       \* the events a session receives, numbered in arrival order
  MaxRows,      \* MaxLogEntries: the event table keeps this many
  MaxCount,     \* bound: how far a flow's event counter is followed
  Dialogs       \* what another goroutine may open: "reload", "error"

VARIABLES
  scr,
  panel,        \* "flows" or "events": the child that last had the focus
  rows,         \* Table.rows, in slice order
  drawn,        \* the rows as the last Update drew them
  count,        \* FlowMetrics.events of each flow
  byEvents,     \* the sorted column is Events; Name otherwise
  live,         \* EventTable.rows
  shown,        \* EventTable.rendered
  sel,          \* the selected row of the event table, 0 when none
  tail,         \* autoscroll
  saver,        \* App.activeSaver: the event its save writes, 0 when nil
  file          \* EventSessionWriter: the saved events, in order

vars == <<scr, panel, rows, drawn, count, byEvents, live, shown, sel, tail, saver, file>>
tableVars == <<rows, drawn, count, byEvents>>
eventVars == <<live, shown, sel, tail>>

Init ==
  /\ scr = Started /\ panel = "events"
  /\ rows = [i \in 1..Flows |-> i] /\ drawn = rows
  /\ count = [f \in 1..Flows |-> 0] /\ byEvents = FALSE
  /\ live = <<>> /\ shown = <<>> /\ sel = 0 /\ tail = TRUE
  /\ saver = 0 /\ file = <<>>

Focused(what) == scr.focus = "main" /\ panel = what
Confirmed(what) == scr.focus = "dialog" /\ Body(scr, "dialog")[1] = what

(* ---- The flow table ----                                                *)

(* FlowMetricsSlice.Sort, under the Events column or the Name column; the  *)
(* order of equal rows is any.                                             *)
Sorted(q, n) ==
  \A i, j \in 1..Len(q) : i < j =>
    IF byEvents THEN n[q[i]] >= n[q[j]] ELSE q[i] < q[j]
Sortings == {q \in [1..Len(rows) -> {rows[i] : i \in 1..Len(rows)}] :
               (\A i, j \in 1..Len(q) : q[i] = q[j] => i = j) /\ Sorted(q, count)}

(* Table.Update: the tick sorts the slice itself and draws it.             *)
TableUpdate ==
  /\ \E q \in Sortings : rows' = q /\ drawn' = q
  /\ UNCHANGED <<scr, panel, count, byEvents, eventVars, saver, file>>

(* A sort key sorts and draws at once.                                     *)
SortKey ==
  /\ Focused("flows") /\ byEvents' = ~byEvents
  /\ \E q \in [1..Len(rows) -> {rows[i] : i \in 1..Len(rows)}] :
       /\ \A i, j \in 1..Len(q) : q[i] = q[j] => i = j
       /\ \A i, j \in 1..Len(q) : i < j => IF byEvents' THEN count[q[i]] >= count[q[j]] ELSE q[i] < q[j]
       /\ rows' = q /\ drawn' = q
  /\ UNCHANGED <<scr, panel, count, eventVars, saver, file>>

(* 'd': the dialog names the flow of the selected row, and remembers the   *)
(* row.                                                                    *)
DeleteKey == \E i \in 1..Len(drawn) :
  /\ Focused("flows")
  /\ i <= Len(rows)
  /\ scr' = ShowDialog(scr, <<"delete", rows[i], i>>)
  /\ UNCHANGED <<panel, tableVars, eventVars, saver, file>>

(* Remove: the flow of that row is closed and leaves the slice.            *)
Removed(q, i) == IF i > Len(q) THEN q ELSE SubSeq(q, 1, i - 1) \o SubSeq(q, i + 1, Len(q))

DeleteConfirmed ==
  /\ Confirmed("delete")
  /\ rows' = Removed(rows, Body(scr, "dialog")[3])
  /\ scr' = CloseDialog(scr)
  /\ UNCHANGED <<panel, drawn, count, byEvents, eventVars, saver, file>>

(* ---- The event table ----                                               *)

(* Push, from a source's goroutine: the oldest rows go past MaxRows, and   *)
(* the flow that read the event counts it.                                 *)
PushRow(q, e) ==
  LET long == Append(q, e)
  IN IF Len(long) > MaxRows THEN SubSeq(long, 2, Len(long)) ELSE long

Push == \E e \in 1..Events, f \in {rows[i] : i \in 1..Len(rows)} :
  /\ \A i \in 1..Len(live) : live[i] < e
  /\ e = 1 \/ (live # <<>> /\ live[Len(live)] = e - 1)
  /\ live' = PushRow(live, e)
  /\ count' = [count EXCEPT ![f] = IF @ = MaxCount THEN @ ELSE @ + 1]
  /\ UNCHANGED <<scr, panel, rows, drawn, byEvents, shown, sel, tail, saver, file>>

(* Update: the rows drawn are the rows a key acts on; the selection follows *)
(* the newest while autoscroll is on.                                      *)
EventUpdate ==
  /\ shown' = live
  /\ sel' = IF tail /\ live # <<>> THEN Len(live) ELSE sel
  /\ UNCHANGED <<scr, panel, tableVars, live, tail, saver, file>>

(* An arrow key: autoscroll ends, the selection moves among drawn rows.    *)
Arrow == \E i \in 1..Len(shown) :
  /\ Focused("events") /\ tail' = FALSE /\ sel' = i
  /\ UNCHANGED <<scr, panel, tableVars, live, shown, saver, file>>

(* 's': autoscroll, and when it comes on the newest drawn row at once.     *)
TailKey ==
  /\ Focused("events") /\ tail' = ~tail
  /\ sel' = IF ~tail /\ shown # <<>> THEN Len(shown) ELSE sel
  /\ UNCHANGED <<scr, panel, tableVars, live, shown, saver, file>>

(* eventAt: the event of a row of the last drawing.                        *)
EventAtLive(i) == IF i \in 1..Len(live) THEN live[i] ELSE 0

EventAt(i) == IF i \in 1..Len(shown) THEN shown[i] ELSE 0

(* EventSessionWriter.Save: one file per session, each event once.         *)
SavedTwice(e) == Append(file, e)

Saved(e) == IF \E i \in 1..Len(file) : file[i] = e THEN file ELSE Append(file, e)

(* ShowEvent, on Enter: the overlay's save becomes the Ctrl+S of the app.  *)
ShowEvent ==
  /\ Focused("events") /\ EventAt(sel) # 0
  /\ saver' = EventAt(sel)
  /\ scr' = ShowOverlay(scr, "eventDetail", <<"event", EventAt(sel), 0>>)
  /\ UNCHANGED <<panel, tableVars, eventVars, file>>

CloseEvent ==
  /\ scr.focus = "eventDetail" /\ saver' = 0
  /\ scr' = FocusBoard(RemovePage(scr, "eventDetail"))
  /\ UNCHANGED <<panel, tableVars, eventVars, file>>

(* Ctrl+S, on any page: the overlay's save when one is set, else the event *)
(* table's selected row, else the spec.  Each ends in a dialog.            *)
CtrlS ==
  /\ \/ /\ saver # 0 /\ saver' = 0
        /\ file' = Saved(saver)
        /\ scr' = ShowDialog(RemovePage(scr, "eventDetail"), <<"saved", saver, 0>>)
     \/ /\ saver = 0 /\ Focused("events") /\ EventAt(sel) # 0
        /\ file' = Saved(EventAt(sel))
        /\ scr' = ShowDialog(scr, <<"saved", EventAt(sel), 0>>)
        /\ UNCHANGED saver
     \/ /\ saver = 0 /\ ~Focused("events")
        /\ scr' = ShowDialog(scr, <<"spec", 0, 0>>)
        /\ UNCHANGED <<saver, file>>
  /\ UNCHANGED <<panel, tableVars, eventVars>>

(* ---- The rest of the keyboard, and other goroutines ----                *)

Tab ==
  /\ scr.focus = "main" /\ panel' = IF panel = "flows" THEN "events" ELSE "flows"
  /\ UNCHANGED <<scr, tableVars, eventVars, saver, file>>

(* OK, Cancel and Ignore.                                                  *)
DialogCancel ==
  /\ scr.focus = "dialog" /\ scr' = CloseDialog(scr)
  /\ UNCHANGED <<panel, tableVars, eventVars, saver, file>>

(* 'r' asks whether to restart, on any page; the config watcher asks       *)
(* whether to reload; a failed reload reports itself.                      *)
AskRestart ==
  /\ scr.focus # "reloading"
  /\ scr' = ShowDialog(scr, <<"restart", 0, 0>>)
  /\ UNCHANGED <<panel, tableVars, eventVars, saver, file>>

OtherDialog == \E what \in Dialogs :
  /\ scr' = ShowDialog(scr, <<what, 0, 0>>)
  /\ UNCHANGED <<panel, tableVars, eventVars, saver, file>>

RestartConfirmed ==
  /\ Confirmed("restart") \/ Confirmed("reload")
  /\ scr' = Reloading(scr)
  /\ UNCHANGED <<panel, tableVars, eventVars, saver, file>>

(* Load, once the module runs again: a new board, its tables empty.        *)
Load ==
  /\ IsShown(scr, "reloading")
  /\ scr' = LoadBoard(scr) /\ panel' = "events"
  /\ rows' = [i \in 1..Flows |-> i] /\ drawn' = rows'
  /\ count' = [f \in 1..Flows |-> 0] /\ byEvents' = FALSE
  /\ live' = <<>> /\ shown' = <<>> /\ sel' = 0 /\ tail' = TRUE
  /\ UNCHANGED <<saver, file>>

Next ==
  \/ TableUpdate \/ SortKey \/ DeleteKey \/ DeleteConfirmed
  \/ Push \/ EventUpdate \/ Arrow \/ TailKey \/ ShowEvent \/ CloseEvent \/ CtrlS
  \/ Tab \/ DialogCancel \/ AskRestart \/ OtherDialog \/ RestartConfirmed \/ Load

Spec == Init /\ [][Next]_vars

(* ---- Properties ----                                                    *)

SavesTheSeen ==
    \A e \in 1..Events :
    ((\E i \in 1..Len(file') : file'[i] = e) /\ ~\E i \in 1..Len(file) : file[i] = e) =>
      \/ saver = e
      \/ (sel \in 1..Len(shown) /\ shown[sel] = e)

(* What a save key writes is what the operator sees selected or opened,    *)
(* even though events arrive and old rows fall off between two drawings    *)
(* (client/tui/eventtable.go eventAt): the event added to the session file *)
(* is the one the selected drawn row or the event overlay shows.           *)
SavesWhatIsSeen == [][SavesTheSeen]_vars

(* A session's file holds each saved event once (client/event_export.go    *)
(* mergeEventsByID), whichever key saved it.                               *)
FileHasNoRepeats == \A i, j \in 1..Len(file) : file[i] = file[j] => i = j

(* Ctrl+S belongs to the event overlay only while that overlay is open     *)
(* (client/tui/app.go, activeSaver).                                       *)
(* It fails: a dialog over the overlay dismisses both and leaves the saver *)
(* in place.                                                               *)
SaverIsOnScreen == saver # 0 => IsShown(scr, "eventDetail")

(* Confirming "Delete f ?" closes f and no other flow (client/tui/table.go *)
(* handleKeys).                                                            *)
(* It fails: the callback looks the flow up by the selected row, and a     *)
(* refresh may have sorted the rows anew since the question.               *)
DeletesWhatItNames ==
  [][\A f \in 1..Flows :
       (DeleteConfirmed /\ (\E i \in 1..Len(rows) : rows[i] = f) /\ ~\E i \in 1..Len(rows') : rows'[i] = f) =>
         Body(scr, "dialog")[2] = f]_vars
=============================================================================
