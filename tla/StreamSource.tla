---------------------------- MODULE StreamSource ----------------------------
(***************************************************************************)
(* The source side of a stream (client/stream.go): RemoteSubscription.Read *)
(* and the handleFlow it starts, handleEvent, broadcastEvents and the      *)
(* subscribers it fans out to, Sync and Close.  A CLOSED or a failed       *)
(* connection makes handleFlow reload: it starts a new Read, and the old   *)
(* one ends only when its own connection does.                             *)
(*                                                                         *)
(* Events are numbered as the relay has them; Bad ones fail verification.  *)
(***************************************************************************)
EXTENDS Integers, Sequences, FiniteSets

CONSTANTS
    Dests,       \* destinations
    Events,      \* 1..n, the events the relay sends
    Bad,         \* those that do not verify
    MaxReads,    \* Reads started at most
    InboxCap, IncomingCap, DestCap,  \* channel capacities
    MaxFaults    \* failed dials, CLOSED messages and dead connections at most

Reads == 1..MaxReads

VARIABLES
    read,      \* [Read -> "none", "dialing", "open" or "ended"]
    subbed,    \* Reads whose subscription the relay serves
    login,     \* Reads that logged in after a refusal (retried)
    flow,      \* the Read whose handleFlow runs, 0 when none does
    retrying,  \* StreamWorker.Retry is waiting to run Read again
    erring,    \* Reads blocked in sendError
    inbox,     \* fc.incoming: events and "closed"
    next,      \* the next event the relay sends
    incoming,  \* StreamChannel.incoming
    fanout,    \* broadcastEvents: [event, left], left the subscribers not served yet
    subs,      \* StreamChannel.subscribers
    queue,     \* [destination -> incomingEvents]
    stuck,     \* destinations that stopped reading
    got,       \* [destination -> events it read]
    closed,    \* Stream.Close was called
    faults

vars == <<read, subbed, login, flow, retrying, erring, inbox, next, incoming, fanout, subs, queue,
          stuck, got, closed, faults>>
srcVars == <<read, subbed, login, flow, retrying, erring, inbox, next>>
dstVars == <<fanout, subs, queue, stuck, got>>

Nothing == [event |-> 0, left |-> {}]

\* Sync: a Read per source with its handleFlow, every destination subscribed.
Init ==
    /\ read = [r \in Reads |-> IF r = 1 THEN "dialing" ELSE "none"]
    /\ subbed = {} /\ login = {} /\ flow = 1 /\ retrying = FALSE /\ erring = {}
    /\ inbox = <<>> /\ next = 1 /\ incoming = <<>>
    /\ fanout = Nothing /\ subs = Dests
    /\ queue = [d \in Dests |-> <<>>]
    /\ stuck = {} /\ got = [d \in Dests |-> <<>>]
    /\ closed = FALSE /\ faults = 0

Fault == faults < MaxFaults /\ faults' = faults + 1

-----------------------------------------------------------------------------
(* Read *)

\* dialRelay, loginFirst and the REQ.
Dial(r) ==
    /\ read[r] = "dialing" /\ ~closed
    /\ read' = [read EXCEPT ![r] = "open"]
    /\ subbed' = subbed \union {r}
    /\ UNCHANGED <<login, flow, retrying, erring, inbox, next, incoming, dstVars, closed, faults>>

DialFails(r) ==
    /\ read[r] = "dialing" /\ ~closed /\ Fault
    /\ read' = [read EXCEPT ![r] = "ended"]
    /\ erring' = erring \union {r}
    /\ UNCHANGED <<subbed, login, flow, retrying, inbox, next, incoming, dstVars, closed>>

\* An event for every subscription; Read hands it to fc.receive.
RelaySends ==
    /\ next \in Events /\ subbed # {} /\ Len(inbox) + Cardinality(subbed) <= InboxCap
    /\ inbox' = inbox \o [i \in 1..Cardinality(subbed) |-> next]
    /\ next' = next + 1
    /\ UNCHANGED <<read, subbed, login, flow, retrying, erring, incoming, dstVars, closed, faults>>

\* CLOSED for want of a login: log in and REQ once more; else it goes to handleFlow.
RelayRefuses(r) ==
    /\ r \in subbed \ login /\ Fault
    /\ login' = login \union {r}
    /\ UNCHANGED <<read, subbed, flow, retrying, erring, inbox, next, incoming, dstVars, closed>>

RelayCloses(r) ==
    /\ r \in subbed /\ Len(inbox) < InboxCap /\ Fault
    /\ subbed' = subbed \ {r}
    /\ inbox' = Append(inbox, 0)
    /\ UNCHANGED <<read, login, flow, retrying, erring, next, incoming, dstVars, closed>>

\* The connection dies: one goroutine reports it, Read's loop returns.
ConnDies(r) ==
    /\ read[r] = "open" /\ Fault
    /\ read' = [read EXCEPT ![r] = "ended"]
    /\ subbed' = subbed \ {r}
    /\ erring' = erring \union {r}
    /\ UNCHANGED <<login, flow, retrying, inbox, next, incoming, dstVars, closed>>

-----------------------------------------------------------------------------
(* handleFlow *)

\* handleEvent verifies and passes on; with no subscribers the event is only logged.
HandleEvent ==
    /\ flow # 0 /\ inbox # <<>> /\ Head(inbox) # 0
    /\ LET e == Head(inbox)
           passes == e \notin Bad /\ subs # {}
       IN  /\ passes => Len(incoming) < IncomingCap
           /\ incoming' = IF passes THEN Append(incoming, e) ELSE incoming
    /\ inbox' = Tail(inbox)
    /\ UNCHANGED <<read, subbed, login, flow, retrying, erring, next, dstVars, closed, faults>>

\* Mutant: handleFlow returns on CLOSED without reloading.
HandleClosedReturns ==
    /\ flow # 0 /\ inbox # <<>> /\ Head(inbox) = 0
    /\ inbox' = Tail(inbox)
    /\ flow' = 0
    /\ UNCHANGED <<read, subbed, login, retrying, erring, next, incoming, dstVars, closed, faults>>

\* CLOSED: reload, and return.
HandleClosed ==
    /\ flow # 0 /\ inbox # <<>> /\ Head(inbox) = 0
    /\ inbox' = Tail(inbox)
    /\ flow' = 0 /\ retrying' = TRUE
    /\ UNCHANGED <<read, subbed, login, erring, next, incoming, dstVars, closed, faults>>

\* A fatal error: the drain window takes those that came with it; reload, return.
HandleError ==
    /\ flow # 0 /\ erring # {}
    /\ erring' = {}
    /\ flow' = 0 /\ retrying' = TRUE
    /\ UNCHANGED <<read, subbed, login, inbox, next, incoming, dstVars, closed, faults>>

\* StreamWorker.Retry, after its delay: a new Read with its own handleFlow.
Retry ==
    /\ retrying /\ ~closed
    /\ \E r \in Reads :
        /\ read[r] = "none" /\ \A s \in Reads : s < r => read[s] # "none"
        /\ read' = [read EXCEPT ![r] = "dialing"]
        /\ flow' = r
    /\ retrying' = FALSE
    /\ UNCHANGED <<subbed, login, erring, inbox, next, incoming, dstVars, closed, faults>>

-----------------------------------------------------------------------------
(* broadcastEvents and the destinations *)

Broadcast ==
    /\ ~closed /\ fanout = Nothing /\ incoming # <<>>
    /\ fanout' = IF subs = {} THEN Nothing ELSE [event |-> Head(incoming), left |-> subs]
    /\ incoming' = Tail(incoming)
    /\ UNCHANGED <<srcVars, subs, queue, stuck, got, closed, faults>>

\* deliverToSubscriber; the last one done lets the broadcast go on (wg.Wait).
Deliver(d) ==
    /\ d \in fanout.left /\ Len(queue[d]) < DestCap
    /\ queue' = [queue EXCEPT ![d] = Append(@, fanout.event)]
    /\ fanout' = IF fanout.left = {d} THEN Nothing ELSE [fanout EXCEPT !.left = @ \ {d}]
    /\ UNCHANGED <<srcVars, incoming, subs, stuck, got, closed, faults>>

\* The destination's Write reads.
Consume(d) ==
    /\ d \notin stuck /\ queue[d] # <<>>
    /\ got' = [got EXCEPT ![d] = Append(@, Head(queue[d]))]
    /\ queue' = [queue EXCEPT ![d] = Tail(@)]
    /\ UNCHANGED <<srcVars, incoming, fanout, subs, stuck, closed, faults>>

\* Its relay stops answering: Write waits for a publish slot.
Stick(d) ==
    /\ d \in subs \ stuck /\ stuck = {} /\ Fault
    /\ stuck' = stuck \union {d}
    /\ UNCHANGED <<srcVars, incoming, fanout, subs, queue, got, closed>>

\* The user kills a destination: removeSubscriber, then its Close ends the delivery.
Kill(d) ==
    /\ d \in subs /\ subs # {d}
    /\ subs' = subs \ {d}
    /\ stuck' = stuck \ {d}
    /\ fanout' = IF fanout.left = {d} THEN Nothing ELSE [fanout EXCEPT !.left = @ \ {d}]
    /\ UNCHANGED <<srcVars, incoming, queue, got, closed, faults>>

\* Close cancels the context: every Read, handleFlow and the broadcast end.
Close ==
    /\ ~closed
    /\ closed' = TRUE
    /\ read' = [r \in Reads |-> IF read[r] = "none" THEN "none" ELSE "ended"]
    /\ subbed' = {} /\ flow' = 0 /\ erring' = {} /\ fanout' = Nothing
    /\ UNCHANGED <<login, retrying, inbox, next, incoming, subs, queue, stuck, got, faults>>

Next ==
    \/ \E r \in Reads : Dial(r) \/ DialFails(r) \/ RelayRefuses(r) \/ RelayCloses(r) \/ ConnDies(r)
    \/ RelaySends \/ HandleEvent \/ HandleClosed \/ HandleError \/ Retry \/ Broadcast
    \/ \E d \in Dests : Deliver(d) \/ Consume(d) \/ Stick(d) \/ Kill(d)
    \/ Close

Spec == Init /\ [][Next]_vars

\* Goroutines run, dials end, and a destination that is not stuck reads.
Fairness ==
    /\ \A r \in Reads : WF_vars(Dial(r))
    /\ WF_vars(RelaySends) /\ WF_vars(HandleEvent) /\ WF_vars(HandleClosed) /\ WF_vars(HandleError)
    /\ WF_vars(Retry) /\ WF_vars(Broadcast)
    /\ \A d \in Dests : WF_vars(Deliver(d)) /\ WF_vars(Consume(d))

FairSpec == Spec /\ Fairness

-----------------------------------------------------------------------------
(* Properties *)

Reading == closed \/ stuck # {} \/ next \notin Events \/ (flow # 0 /\ subbed # {})

\* A source whose subscription was closed or whose connection failed is read again,
\* whatever the old Read still does (handleFlow's reload, Retry, sendError), as
\* long as no destination blocks the stream.
SourceResumes == []<>Reading

\* Every destination that is not stuck keeps receiving whatever the others do:
\* "Fan out concurrently so one slow/stuck destination can't head-of-line-block
\* delivery to the others" (broadcastEvents, client/stream.go:531-532).
\* It fails from the second event on: the loop waits for every delivery of one
\* event before it takes the next.
OthersProgress ==
    \A d \in Dests : [](incoming # <<>> /\ d \in subs \ stuck =>
        <>(closed \/ d \notin subs \ stuck \/ incoming = <<>>))

\* One connection's failure starts one new Read: "to prevent spawning multiple
\* retries for the same event" (handleFlow, client/stream.go:692-693).
\* It fails: a CLOSED of the subscription reloads the source while the Read of
\* the old connection goes on.
OneLiveRead == Cardinality({r \in Reads : read[r] = "open"}) <= 1
=============================================================================
