----------------------------- MODULE HuddleChat -----------------------------
(***************************************************************************)
(* The chat of a call (cli/huddle chatclient.go, chat.go, chatpanel.go).   *)
(* One goroutine, run, reads the relay connection: events go through the   *)
(* bounded channel incoming to the board's loop, which adds them to the    *)
(* log and repaints; OKs go to the send that waits for them.  A send runs  *)
(* in a goroutine of its own.  Messages are numbers, ordered as the panel  *)
(* sorts them (created_at, then id); the parent tag of a message is        *)
(* whatever its author wrote.                                              *)
(***************************************************************************)
EXTENDS Naturals, Sequences, FiniteSets, SequencesExt

CONSTANTS Msgs,       \* messages, as naturals greater than 0
          Ours,       \* those this client sends
          HistoryCap, \* capacity of incoming (chatHistoryLimit)
          WireCap     \* bound: responses under way

NoMsg == 0

VARIABLES parent,     \* [Msgs -> Msgs \cup {NoMsg}]: reply tag
          relay,      \* messages the relay stores
          wire,       \* responses under way: [kind, msg, good]
          link,       \* "open" or "closed"
          run,        \* "reading", "holding" (an event for incoming), "over"
          incoming,   \* the channel
          looping,    \* Board.Run still drains incoming
          log,        \* chatLog.byID
          rows,       \* chatPanel.rowMessage, one row per message
          cursor,     \* the table's selected row
          following,  \* chatPanel.following
          replyTo,    \* chatPanel.replyTo, NoMsg when not replying
          send,       \* [Ours -> where chatClient.send is]
          ack         \* [Ours -> what is in its ack channel]

vars == <<parent, relay, wire, link, run, incoming, looping, log, rows, cursor,
          following, replyTo, send, ack>>

conn == <<relay, wire, link>>
panel == <<rows, cursor, following>>
sends == <<send, ack>>

Event(m) == [kind |-> "event", msg |-> m, good |-> TRUE]
Ok(m, good) == [kind |-> "ok", msg |-> m, good |-> good]

Init == /\ parent \in [Msgs -> Msgs \cup {NoMsg}]
        /\ relay = {} /\ wire = <<>> /\ link = "open"
        /\ run = "reading" /\ incoming = <<>> /\ looping = TRUE
        /\ log = {} /\ rows = <<>> /\ cursor = 0 /\ following = TRUE
        /\ replyTo = NoMsg
        /\ send = [m \in Ours |-> "idle"] /\ ack = [m \in Ours |-> "none"]

----------------------------------------------------------------------------
\* chatLog.lines: roots oldest first, each followed by its replies; a
\* message that is its own parent, or whose parent is not held, is a root;
\* what no root reaches (a cycle of replies) comes last.
Sorted(S) == SetToSortSeq(S, <)

Roots(held) == {m \in held : parent[m] \in {NoMsg, m} \/ parent[m] \notin held}

Children(held, m) == {c \in held \ Roots(held) : parent[c] = m}

Threads(held) ==
    LET walk[n \in 0..Cardinality(held)] ==
          [m \in held |->
             IF n = 0 THEN <<m>>
             ELSE <<m>> \o FlattenSeq([i \in 1..Cardinality(Children(held, m)) |->
                                         walk[n - 1][Sorted(Children(held, m))[i]]])]
        top == Sorted(Roots(held))
    IN  FlattenSeq([i \in 1..Len(top) |-> walk[Cardinality(held)][top[i]]])

LinesReached(held) == Threads(held)

Lines(held) == Threads(held) \o Sorted(held \ ToSet(Threads(held)))

----------------------------------------------------------------------------
\* The relay: somebody else's message is stored and sent to the
\* subscription; one of ours is accepted, with its echo before or after the
\* OK, or refused.
Says(m) == /\ m \in Msgs \ (Ours \cup relay) /\ link = "open" /\ Len(wire) < WireCap
           /\ relay' = relay \cup {m} /\ wire' = Append(wire, Event(m))
           /\ UNCHANGED <<parent, link, run, incoming, looping, log, replyTo>>
           /\ UNCHANGED panel /\ UNCHANGED sends

Judges(m) == /\ send[m] \in {"waiting", "unconfirmed"} /\ m \notin relay /\ link = "open"
             /\ Len(wire) + 1 < WireCap
             /\ \/ /\ relay' = relay \cup {m}
                   /\ wire' \in {wire \o <<Event(m), Ok(m, TRUE)>>, wire \o <<Ok(m, TRUE), Event(m)>>}
                \/ relay' = relay /\ wire' = Append(wire, Ok(m, FALSE))
             /\ UNCHANGED <<parent, link, run, incoming, looping, log, replyTo>>
             /\ UNCHANGED panel /\ UNCHANGED sends

\* The connection drops, or Board.Leave closes it.
Closes == /\ link = "open" /\ link' = "closed"
          /\ UNCHANGED <<parent, relay, wire, run, incoming, looping, log, replyTo>>
          /\ UNCHANGED panel /\ UNCHANGED sends

----------------------------------------------------------------------------
Pending(m) == send[m] \in {"registered", "waiting"}

\* A one-place channel: the first answer stays.
Put(S, answer) == ack' = [m \in Ours |-> IF m \in S /\ Pending(m) /\ ack[m] = "none"
                                         THEN answer ELSE ack[m]]

\* chatClient.resolve
ResolveAny(r) == Put(Ours, IF r.good THEN "ok" ELSE "refused")

Resolve(r) == Put({r.msg}, IF r.good THEN "ok" ELSE "refused")

\* run reads a response; an event waits for room in incoming.
ReadEvent == /\ run = "reading" /\ wire # <<>> /\ Head(wire).kind = "event"
             /\ run' = "holding"
             /\ UNCHANGED <<parent, conn, incoming, looping, log, replyTo>>
             /\ UNCHANGED panel /\ UNCHANGED sends

Forward == /\ run = "holding" /\ Len(incoming) < HistoryCap
           /\ run' = "reading"
           /\ incoming' = Append(incoming, Head(wire).msg)
           /\ wire' = Tail(wire)
           /\ UNCHANGED <<parent, relay, link, looping, log, replyTo>>
           /\ UNCHANGED panel /\ UNCHANGED sends

ReadOk == /\ run = "reading" /\ wire # <<>> /\ Head(wire).kind = "ok"
          /\ wire' = Tail(wire)
          /\ Resolve(Head(wire))
          /\ UNCHANGED <<parent, relay, link, run, incoming, looping, log, replyTo, send>>
          /\ UNCHANGED panel

\* run sees the connection closed: failPending, and incoming is closed.
RunEnds == /\ run = "reading" /\ link = "closed"
           /\ run' = "over"
           /\ Put(Ours, "lost")
           /\ UNCHANGED <<parent, conn, incoming, looping, log, replyTo, send>>
           /\ UNCHANGED panel

----------------------------------------------------------------------------
\* chatPanel.render: the selection is a row number, moved to the last row
\* only while following.
Render(held) == /\ rows' = Lines(held)
                /\ cursor' = IF following THEN Len(rows') ELSE cursor
                /\ UNCHANGED following

\* Board.Run takes a message: chatLog.add, and a repaint when it is new.
Take == /\ looping /\ incoming # <<>>
        /\ incoming' = Tail(incoming)
        /\ LET held == log \cup {Head(incoming)}
           IN  /\ log' = held
               /\ IF held = log THEN UNCHANGED panel ELSE Render(held)
        /\ UNCHANGED <<parent, conn, run, looping, replyTo>> /\ UNCHANGED sends

\* The call drops: Board.Run returns, the screen stays.
LoopEnds == /\ looping /\ looping' = FALSE
            /\ UNCHANGED <<parent, conn, run, incoming, log, replyTo>>
            /\ UNCHANGED panel /\ UNCHANGED sends

\* The selection moves; resting on the last row means following.
Move == /\ \E row \in DOMAIN rows :
             cursor' = row /\ following' = (row >= Len(rows))
        /\ UNCHANGED <<parent, conn, run, incoming, looping, log, rows, replyTo>> /\ UNCHANGED sends

\* r: the message under the cursor at this moment.  Esc: clearComposing.
Reply == /\ cursor \in DOMAIN rows /\ replyTo' = rows[cursor]
         /\ UNCHANGED <<parent, conn, run, incoming, looping, log>> /\ UNCHANGED panel /\ UNCHANGED sends

Clear == /\ replyTo # NoMsg /\ replyTo' = NoMsg
         /\ UNCHANGED <<parent, conn, run, incoming, looping, log>> /\ UNCHANGED panel /\ UNCHANGED sends

\* handleDone: the reply target becomes the parent, and the composer is
\* cleared; send registers its ack channel before it writes.
Enter(m) == /\ send[m] = "idle"
            /\ parent[m] = replyTo
            /\ replyTo' = NoMsg
            /\ send' = [send EXCEPT ![m] = "registered"]
            /\ UNCHANGED <<parent, conn, run, incoming, looping, log, ack>> /\ UNCHANGED panel

Write(m) == /\ send[m] = "registered"
            /\ send' = [send EXCEPT ![m] = IF link = "open" THEN "waiting" ELSE "lost"]
            /\ UNCHANGED <<parent, conn, run, incoming, looping, log, replyTo, ack>> /\ UNCHANGED panel

Answered(m) == /\ send[m] = "waiting" /\ ack[m] # "none"
               /\ send' = [send EXCEPT ![m] = IF ack[m] = "ok" THEN "sent" ELSE ack[m]]
               /\ UNCHANGED <<parent, conn, run, incoming, looping, log, replyTo, ack>> /\ UNCHANGED panel

\* chatSendTimeout
Unconfirmed(m) == /\ send[m] = "waiting"
                  /\ send' = [send EXCEPT ![m] = "unconfirmed"]
                  /\ UNCHANGED <<parent, conn, run, incoming, looping, log, replyTo, ack>> /\ UNCHANGED panel

Next == \/ \E m \in Msgs : Says(m)
        \/ \E m \in Ours : Judges(m) \/ Enter(m) \/ Write(m) \/ Answered(m) \/ Unconfirmed(m)
        \/ Closes \/ ReadEvent \/ Forward \/ ReadOk \/ RunEnds
        \/ Take \/ LoopEnds \/ Move \/ Reply \/ Clear

Spec == Init /\ [][Next]_vars

----------------------------------------------------------------------------
RowOf(m) == CHOOSE i \in DOMAIN rows : rows[i] = m

(***************************************************************************)
(* Whatever the parent tags say and in whatever order messages come, the   *)
(* transcript shows every held message exactly once, and a reply below the *)
(* message it answers, unless the two answer each other (chatLog.lines:    *)
(* "every message is displayed").                                          *)
(***************************************************************************)
EveryMessageShown ==
    /\ Len(rows) = Cardinality(log) /\ ToSet(rows) = log
    /\ \A m \in ToSet(Threads(log)) \ Roots(log) : RowOf(parent[m]) < RowOf(m)

(***************************************************************************)
(* A send reports success only for a message the relay stored, with        *)
(* several sends in flight and the connection lost at any point            *)
(* (chatClient.send, resolve, failPending).                                *)
(***************************************************************************)
SentIsStored == \A m \in Ours : send[m] = "sent" => m \in relay

(***************************************************************************)
(* A repaint leaves the selection of somebody reading back on the message  *)
(* it was on (chatLog.revision, chatPanel.following).  It does not:        *)
(* render keeps the row number, and a late parent or an older message      *)
(* inserts a row above it.                                                 *)
(***************************************************************************)
SelectionStays == [][Take /\ ~following /\ cursor \in DOMAIN rows => rows'[cursor'] = rows[cursor]]_vars
=============================================================================
