---------------------------- MODULE ActivityLog ----------------------------
(***************************************************************************)
(* The activity log of a board: the daemon's bounded tail of lines         *)
(* (cli/bunker/daemon.go log, RecentLogs), the watcher that copies new     *)
(* lines over (cli/bunker/board.go DaemonLogWatcher), the FlowLogger that  *)
(* holds lines and coalesced event counters (client/tui/model.go), and the *)
(* Logger panel that prints what it has not printed yet                    *)
(* (client/tui/logger.go).                                                 *)
(*                                                                         *)
(* An entry is the set of things it stands for: one line <<"line", n>>, or *)
(* the events <<flow, n>> a counter has counted.                           *)
(***************************************************************************)
EXTENDS Naturals, Sequences

CONSTANTS
  Flows,       \* the flows that log events
  MaxTail,     \* maxLogTail
  MaxEntries,  \* MaxLogEntries
  MaxLines,    \* bound: lines the daemon logs
  MaxEvents    \* bound: events logged per flow

VARIABLES
  total,       \* Daemon.logTotal; line n is the n-th
  tail,        \* Daemon.logTail
  seen,        \* DaemonLogWatcher.shown
  events,      \* per flow, the events logged so far
  logs,        \* FlowLogger.logs
  last,        \* FlowLogger.lastIndex: the entries before it are printed
  panel        \* what the Logger printed, in order

vars == <<total, tail, seen, events, logs, last, panel>>

Init ==
  /\ total = 0 /\ tail = <<>> /\ seen = 0
  /\ events = [f \in Flows |-> 0]
  /\ logs = <<>> /\ last = 0 /\ panel = <<>>

Newest(q, n) == IF Len(q) > n THEN SubSeq(q, Len(q) - n + 1, Len(q)) ELSE q

(* Daemon.log.                                                             *)
DaemonLogs ==
  /\ total < MaxLines
  /\ total' = total + 1
  /\ tail' = Newest(Append(tail, total + 1), MaxTail)
  /\ UNCHANGED <<seen, events, logs, last, panel>>

(* trimLogs: the oldest entries go, and lastIndex moves with the slice.    *)
TrimmedLastKept(q) == last

TrimmedLast(q) ==
  LET removed == Len(q) - MaxEntries
  IN IF removed <= 0 THEN last ELSE IF last > removed THEN last - removed ELSE 0

Take(q) == logs' = Newest(q, MaxEntries) /\ last' = TrimmedLast(q)

(* DaemonLogWatcher.Update: the lines past the ones shown, as far as the   *)
(* tail still has them.  Info appends and trims one line at a time, which  *)
(* for these entries is appending all and trimming once.                   *)
FreshLinesAll == tail

FreshLines == Newest(tail, total - seen)

WatcherUpdate ==
  /\ total > seen
  /\ Take(logs \o [i \in 1..Len(FreshLines) |-> {<<"line", FreshLines[i]>>}])
  /\ seen' = total
  /\ UNCHANGED <<total, tail, events, panel>>

(* LogEvent: the newest entry of this flow that is not printed yet counts  *)
(* the event; without one a new counter does.                              *)
OpenCountersAny(f) == {i \in 1..Len(logs) : \E x \in logs[i] : x[1] = f}

OpenCounters(f) == {i \in (last + 1)..Len(logs) : \E x \in logs[i] : x[1] = f}

LogEvent == \E f \in Flows :
  /\ events[f] < MaxEvents
  /\ events' = [events EXCEPT ![f] = @ + 1]
  /\ LET e == <<f, events[f] + 1>>
     IN IF OpenCounters(f) = {}
        THEN Take(Append(logs, {e}))
        ELSE LET i == CHOOSE i \in OpenCounters(f) : \A j \in OpenCounters(f) : j <= i
             IN Take([logs EXCEPT ![i] = @ \cup {e}])
  /\ UNCHANGED <<total, tail, seen, panel>>

(* GetLastLogs: the entries past lastIndex, which moves to the end.        *)
GetLastLogs == SubSeq(logs, last + 1, Len(logs))

(* Logger.Update prints them.  (The 5 MB reset of the panel's text is not  *)
(* modelled: it takes back what was shown, not what was printed.)          *)
PanelUpdate ==
  /\ GetLastLogs # <<>>
  /\ panel' = panel \o GetLastLogs
  /\ last' = Len(logs)
  /\ UNCHANGED <<total, tail, seen, events, logs>>

Next == DaemonLogs \/ WatcherUpdate \/ LogEvent \/ PanelUpdate

Spec == Init /\ [][Next]_vars

(* ---- Properties ----                                                    *)

Printed(x) == {i \in 1..Len(panel) : x \in panel[i]}

(* No line and no event is printed twice, although the daemon's tail, the  *)
(* log's slice and the printed index all rotate separately (board.go       *)
(* DaemonLogWatcher.Update, model.go trimLogs).                            *)
PrintedAtMostOnce ==
  \A i, j \in 1..Len(panel) : panel[i] \cap panel[j] # {} => i = j

(* Nothing still held is lost: an entry of the log is either printed or    *)
(* past the printed index, so a later tick prints it.                      *)
HeldIsPrintedOrWaits ==
  \A i \in 1..Len(logs) : \A x \in logs[i] : Printed(x) # {} \/ i > last

(* Lines are printed in the order the daemon logged them.                  *)
LinesInOrder ==
  \A i, j \in 1..Len(panel) : \A m, n \in 1..MaxLines :
    (<<"line", m>> \in panel[i] /\ <<"line", n>> \in panel[j] /\ i < j) => m < n
=============================================================================
