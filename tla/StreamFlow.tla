----------------------------- MODULE StreamFlow -----------------------------
(***************************************************************************)
(* One remote destination of a stream (client/stream.go): the broadcaster  *)
(* that delivers events to it, RemoteSubscription.Write and its goroutine  *)
(* reading the relay's answers, and handleFlow, which settles the answers  *)
(* and starts the next connection cycle when one dies.                     *)
(*                                                                         *)
(* Each delivery is a copy of an event; an event that reaches the stream   *)
(* from two sources is delivered twice under the same ID.  The relay       *)
(* answers a sent event at any time, or never, and may repeat an answer.   *)
(* A relay's "auth-required" refusal that ends in a login and a resend     *)
(* changes nothing here.  The shutdown of the whole stream is left out.    *)
(***************************************************************************)
EXTENDS Naturals, FiniteSets, Sequences, SequencesExt, FiniteSetTheorems, TLAPS

CONSTANTS
    Events,
    Concurrency,    \* publishConcurrency, bounded
    BufferSize,     \* streamFlowBufferSize
    HistorySize,    \* maxEventHistorySize
    MaxCopies,      \* bound on deliveries
    MaxCycles,      \* bound on connection cycles
    MaxStray        \* bound on repeated answers

ASSUME StreamAssumption ==
    /\ Concurrency \in Nat \ {0} /\ BufferSize \in Nat \ {0} /\ HistorySize \in Nat \ {0}
    /\ MaxCopies \in Nat /\ MaxCycles \in Nat /\ MaxStray \in Nat

VARIABLES
    event,       \* event of each copy delivered so far
    fate,        \* what became of each copy: "none" while it is under way
    deliverer,   \* the copy deliverToSubscriber hands over, 0 if none
    buffer,      \* fc.incomingEvents
    pending,     \* fc.pending: events and their dispatchedGen, newest first
    generation,  \* seh.generation
    slots,       \* length of fc.inFlight
    dispatched,  \* fc.dispatched
    paused,      \* fc.pauseCh is closed
    incoming,    \* fc.incoming: answers for handleFlow
    cycle, conn, connDead, closed,
    writer,      \* Write: its position and the copy in its hands
    reader,      \* the goroutine of Write that reads answers
    flow,        \* handleFlow
    wire,        \* copies sent on this connection and not answered
    stray        \* answers repeated so far

flowState == <<pending, generation, slots, dispatched, paused>>
link == <<cycle, conn, connDead, closed, reader, flow, wire, stray>>
vars == <<event, fate, deliverer, buffer, flowState, incoming, writer, link>>

Copies == 1..MaxCopies

Init ==
    /\ event = <<>> /\ fate = [c \in Copies |-> "none"]
    /\ deliverer = 0 /\ buffer = <<>> /\ pending = <<>> /\ generation = 0
    /\ slots = 0 /\ dispatched = {} /\ paused = FALSE /\ incoming = <<>>
    /\ cycle = 1 /\ conn = "dial" /\ connDead = FALSE /\ closed = FALSE
    /\ writer = [pc |-> "dial", copy |-> 0]
    /\ reader = "none" /\ flow = "new" /\ wire = {} /\ stray = 0

-----------------------------------------------------------------------------
(* StreamEventHistory *)

Has(e) == \E n \in DOMAIN pending : pending[n].event = e
Without(e) == SelectSeq(pending, LAMBDA p : p.event # e)

\* Mutant: off by one in the cap.
WithNewLate(e) ==
    LET p == <<[event |-> e, gen |-> 0]>> \o Without(e)
    IN  IF Len(p) > HistorySize + 1 THEN Front(p) ELSE p

\* add: to the front, evicting the oldest beyond the cap.
WithNew(e) ==
    LET p == <<[event |-> e, gen |-> 0]>> \o Without(e)
    IN  IF Len(p) > HistorySize THEN Front(p) ELSE p

\* markDispatched
Marked(e) == [n \in DOMAIN pending |->
                IF pending[n].event = e THEN [pending[n] EXCEPT !.gen = generation] ELSE pending[n]]

\* newGeneration: what an earlier generation sent is purged.
Purged == SelectSeq(pending, LAMBDA p : p.gen = 0 \/ p.gen = generation + 1)

-----------------------------------------------------------------------------
(* deliverToSubscriber *)

\* The event is pending before it is in the channel.
Deliver(e) ==
    /\ deliverer = 0 /\ Len(event) < MaxCopies
    /\ event' = Append(event, e) /\ deliverer' = Len(event) + 1
    /\ pending' = WithNew(e)
    /\ UNCHANGED <<fate, buffer, generation, slots, dispatched, paused, incoming, writer, link>>

DeliverQueues ==
    /\ deliverer # 0 /\ Len(buffer) < BufferSize
    /\ buffer' = Append(buffer, deliverer) /\ deliverer' = 0
    /\ UNCHANGED <<event, fate, flowState, incoming, writer, link>>

\* Between cycles: to recovery, or lost when recovery does not take it.
DeliverPaused(custody) ==
    /\ deliverer # 0 /\ paused
    /\ pending' = Without(event[deliverer])
    /\ fate' = [fate EXCEPT ![deliverer] = custody]
    /\ deliverer' = 0
    /\ UNCHANGED <<event, buffer, generation, slots, dispatched, paused, incoming, writer, link>>

-----------------------------------------------------------------------------
(* The connection *)

\* The dial and login end.  handleFlow, started before them, has opened the
\* cycle by then.
DialSucceeds ==
    /\ conn = "dial" /\ flow # "new"
    /\ conn' = "up" /\ reader' = "on" /\ writer' = [writer EXCEPT !.pc = "loop"]
    /\ UNCHANGED <<event, fate, deliverer, buffer, flowState, incoming,
                   cycle, connDead, closed, flow, wire, stray>>

\* sendError: handleFlow takes the error, for the first time or in its drain
\* window; after Close nobody need take it.
ErrorTaken == (flow \in {"on", "drain"} /\ flow' = "drain") \/ (closed /\ UNCHANGED flow)

\* Mutant: a failed dial is not reported.
DialFailsSilently ==
    /\ conn = "dial" /\ flow # "new"
    /\ conn' = "dead" /\ writer' = [writer EXCEPT !.pc = "exit"]
    /\ UNCHANGED <<event, fate, deliverer, buffer, flowState, incoming,
                   cycle, connDead, closed, reader, flow, wire, stray>>

DialFails ==
    /\ conn = "dial" /\ flow # "new" /\ ErrorTaken
    /\ conn' = "dead" /\ writer' = [writer EXCEPT !.pc = "exit"]
    /\ UNCHANGED <<event, fate, deliverer, buffer, flowState, incoming,
                   cycle, connDead, closed, reader, wire, stray>>

\* What was sent and not answered is gone: nobody hears of it again.
ConnDies ==
    /\ conn = "up" /\ conn' = "dead"
    /\ fate' = [c \in Copies |-> IF c \in wire THEN "cut" ELSE fate[c]]
    /\ wire' = {}
    /\ UNCHANGED <<event, deliverer, buffer, flowState, incoming, writer,
                   cycle, connDead, closed, reader, flow, stray>>

Close ==
    /\ ~closed /\ closed' = TRUE
    /\ UNCHANGED <<event, fate, deliverer, buffer, flowState, incoming, writer,
                   cycle, conn, connDead, reader, flow, wire, stray>>

-----------------------------------------------------------------------------
(* RemoteSubscription.Write *)

Holds(pc, copy) == writer' = [pc |-> pc, copy |-> copy]

WriteTakes ==
    /\ writer.pc = "loop" /\ buffer # <<>>
    /\ Holds("slot", Head(buffer)) /\ buffer' = Tail(buffer)
    /\ UNCHANGED <<event, fate, deliverer, flowState, incoming, link>>

WriteAcquires ==
    /\ writer.pc = "slot" /\ slots < Concurrency
    /\ slots' = slots + 1 /\ Holds("send", writer.copy)
    /\ UNCHANGED <<event, fate, deliverer, buffer, pending, generation, dispatched, paused,
                   incoming, link>>

\* saveToRecoveryOrLose
SaveOrLose(custody) ==
    /\ fate' = [fate EXCEPT ![writer.copy] = custody]
    /\ pending' = Without(event[writer.copy])

\* Mutant: the event in hand is dropped.
WriteSlotDeadDrops(custody) ==
    /\ writer.pc = "slot" /\ connDead
    /\ pending' = Without(event[writer.copy])
    /\ Holds("exit", 0)
    /\ UNCHANGED <<event, fate, deliverer, buffer, generation, slots, dispatched, paused,
                   incoming, link>>

\* The connection died while waiting for a slot.
WriteSlotDead(custody) ==
    /\ writer.pc = "slot" /\ connDead
    /\ SaveOrLose(custody) /\ Holds("exit", 0)
    /\ UNCHANGED <<event, deliverer, buffer, generation, slots, dispatched, paused,
                   incoming, link>>

WriteSends ==
    /\ writer.pc = "send" /\ conn = "up"
    /\ wire' = wire \union {writer.copy} /\ Holds("mark", writer.copy)
    /\ UNCHANGED <<event, fate, deliverer, buffer, flowState, incoming,
                   cycle, conn, connDead, closed, reader, flow, stray>>

\* Mutant: a copy given to recovery stays in the writer's hands.
WriteSendFailsKeeps(custody) ==
    /\ writer.pc = "send" /\ conn = "dead"
    /\ SaveOrLose(custody) /\ Holds("slot", writer.copy)
    /\ UNCHANGED <<event, deliverer, buffer, generation, slots, dispatched, paused,
                   incoming, link>>

WriteSendFails(custody) ==
    /\ writer.pc = "send" /\ conn = "dead"
    /\ SaveOrLose(custody) /\ Holds("error", 0)
    /\ UNCHANGED <<event, deliverer, buffer, generation, slots, dispatched, paused,
                   incoming, link>>

WriteReports ==
    /\ writer.pc = "error" /\ ErrorTaken
    /\ Holds("exit", 0)
    /\ UNCHANGED <<event, fate, deliverer, buffer, flowState, incoming,
                   cycle, conn, connDead, closed, reader, wire, stray>>

WriteMarks ==
    /\ writer.pc = "mark"
    /\ pending' = Marked(event[writer.copy]) /\ Holds("add", writer.copy)
    /\ UNCHANGED <<event, fate, deliverer, buffer, generation, slots, dispatched, paused,
                   incoming, link>>

WriteTracks ==
    /\ writer.pc = "add"
    /\ dispatched' = dispatched \union {event[writer.copy]} /\ Holds("loop", 0)
    /\ UNCHANGED <<event, fate, deliverer, buffer, pending, generation, slots, paused,
                   incoming, link>>

\* connDead, or Close; an event waiting for a slot is dropped at Close.
WriteEnds ==
    /\ \/ writer.pc = "loop" /\ (connDead \/ closed) /\ UNCHANGED <<pending, fate>>
       \/ /\ writer.pc = "slot" /\ closed
          /\ pending' = Without(event[writer.copy])
          /\ fate' = [fate EXCEPT ![writer.copy] = "closed"]
    /\ Holds("exit", 0)
    /\ UNCHANGED <<event, deliverer, buffer, generation, slots, dispatched, paused,
                   incoming, link>>

\* The relay's answer to a copy reaches handleFlow's queue.
Answer(c, accepted) ==
    /\ reader = "on" /\ conn = "up" /\ c \in wire
    /\ incoming' = Append(incoming, [event |-> event[c], copy |-> c, ok |-> accepted])
    /\ wire' = wire \ {c}
    /\ UNCHANGED <<event, fate, deliverer, buffer, flowState, writer,
                   cycle, conn, connDead, closed, reader, flow, stray>>

\* The relay repeats an OK it already gave.
RepeatedAnswer(e) ==
    /\ reader = "on" /\ conn = "up" /\ stray < MaxStray
    /\ \E c \in 1..Len(event) : event[c] = e /\ fate[c] = "acked"
    /\ stray' = stray + 1
    /\ incoming' = Append(incoming, [event |-> e, copy |-> 0, ok |-> TRUE])
    /\ UNCHANGED <<event, fate, deliverer, buffer, flowState, writer,
                   cycle, conn, connDead, closed, reader, flow, wire>>

\* conn.Errors(): reported, then connDead is closed.
ReaderFails ==
    /\ reader = "on" /\ conn = "dead" /\ ErrorTaken
    /\ reader' = "gone" /\ connDead' = TRUE
    /\ UNCHANGED <<event, fate, deliverer, buffer, flowState, incoming, writer,
                   cycle, conn, closed, wire, stray>>

\* Close, or Write returned and cancelled its context.
ReaderEnds ==
    /\ reader = "on" /\ (closed \/ writer.pc = "exit")
    /\ reader' = "gone" /\ connDead' = TRUE
    /\ UNCHANGED <<event, fate, deliverer, buffer, flowState, incoming, writer,
                   cycle, conn, closed, flow, wire, stray>>

-----------------------------------------------------------------------------
(* handleFlow *)

\* Mutant: the tracker keeps the dead connection's events.
FlowOpensKeepsTracker ==
    /\ flow = "new" /\ flow' = "on"
    /\ paused' = FALSE /\ slots' = 0 /\ generation' = generation + 1 /\ pending' = Purged
    /\ UNCHANGED <<event, fate, deliverer, buffer, dispatched, incoming, writer,
                   cycle, conn, connDead, closed, reader, wire, stray>>

\* open
FlowOpens ==
    /\ flow = "new" /\ flow' = "on"
    /\ paused' = FALSE /\ slots' = 0 /\ dispatched' = {}
    /\ generation' = generation + 1 /\ pending' = Purged
    /\ UNCHANGED <<event, fate, deliverer, buffer, incoming, writer,
                   cycle, conn, connDead, closed, reader, wire, stray>>

\* An answer: its slot is released if it holds one (a receive that would block
\* on an empty semaphore), and a refused event goes to recovery if it is known.
FlowSettles(custody) ==
    LET a == Head(incoming)
        held == a.event \in dispatched
        known == Has(a.event)
    IN  /\ flow = "on" /\ incoming # <<>>
        /\ held => slots > 0
        /\ incoming' = Tail(incoming)
        /\ pending' = Without(a.event)
        /\ dispatched' = dispatched \ {a.event}
        /\ slots' = IF held THEN slots - 1 ELSE slots
        /\ custody = "saved" => known /\ ~a.ok
        /\ fate' = IF a.copy = 0 THEN fate
                   ELSE [fate EXCEPT ![a.copy] = IF a.ok THEN "acked" ELSE custody]
        /\ UNCHANGED <<event, deliverer, buffer, generation, paused, writer, link>>

\* The drain window is over: reload, then the deferred pause.  The window
\* outlasts the last steps of a Write whose connection died.
FlowReloads ==
    /\ flow = "drain" /\ (conn = "dead" => writer.pc = "exit")
    /\ flow' = "retry" /\ paused' = TRUE
    /\ UNCHANGED <<event, fate, deliverer, buffer, pending, generation, slots, dispatched,
                   incoming, writer, cycle, conn, connDead, closed, reader, wire, stray>>

FlowClosed ==
    /\ flow = "on" /\ closed
    /\ flow' = "gone" /\ paused' = TRUE
    /\ UNCHANGED <<event, fate, deliverer, buffer, pending, generation, slots, dispatched,
                   incoming, writer, cycle, conn, connDead, closed, reader, wire, stray>>

\* StreamWorker.Retry: after its delay, in which the old Write returned, Write
\* runs again.
Retry ==
    /\ flow = "retry" /\ writer.pc = "exit" /\ reader # "on" /\ cycle < MaxCycles
    /\ cycle' = cycle + 1 /\ flow' = "new" /\ conn' = "dial" /\ reader' = "none"
    /\ connDead' = FALSE /\ wire' = {}
    /\ Holds("dial", 0)
    /\ fate' = [c \in Copies |-> IF c \in wire THEN "cut" ELSE fate[c]]
    /\ UNCHANGED <<event, deliverer, buffer, flowState, incoming, closed, stray>>

-----------------------------------------------------------------------------
Custodies == {"saved", "lost"}

Write ==
    \/ WriteTakes \/ WriteAcquires \/ WriteSends \/ WriteReports \/ WriteMarks
    \/ WriteTracks \/ WriteEnds
    \/ \E x \in Custodies : WriteSlotDead(x) \/ WriteSendFails(x)

Flow == FlowOpens \/ FlowReloads \/ FlowClosed \/ \E x \in Custodies : FlowSettles(x)

Next ==
    \/ \E e \in Events : Deliver(e)
    \/ DeliverQueues \/ \E x \in Custodies : DeliverPaused(x)
    \/ DialSucceeds \/ DialFails \/ ConnDies \/ Close
    \/ Write \/ Flow \/ ReaderFails \/ ReaderEnds \/ Retry
    \/ \E c \in wire, ok \in BOOLEAN : Answer(c, ok)
    \/ \E e \in Events : RepeatedAnswer(e)

Spec == Init /\ [][Next]_vars

\* A goroutine that can go on does, a dial ends, and a retry's delay passes.
Fairness ==
    /\ WF_vars(Write) /\ WF_vars(Flow) /\ WF_vars(ReaderFails \/ ReaderEnds)
    /\ WF_vars(DialSucceeds \/ DialFails) /\ WF_vars(Retry)

FairSpec == Spec /\ Fairness

-----------------------------------------------------------------------------
(* Properties *)

\* The semaphore and the history of pending events stay within their bounds,
\* and every generation recorded is one that began.
TypeOK ==
    /\ slots \in 0..Concurrency /\ dispatched \subseteq Events
    /\ Len(buffer) <= BufferSize /\ Len(pending) <= HistorySize
    /\ \A n \in DOMAIN pending :
          pending[n].event \in Events /\ pending[n].gen \in 0..generation
    /\ \A n \in DOMAIN pending, m \in DOMAIN pending :
          n # m => pending[n].event # pending[m].event
    /\ wire \subseteq Copies /\ conn \in {"dial", "up", "dead"}
    /\ writer.pc \in {"dial", "loop", "slot", "send", "mark", "add", "error", "exit"}
    /\ fate \in [Copies -> {"none", "acked", "saved", "lost", "cut", "closed"}]

\* Where a copy under way can be.
UnderWay(c) ==
    \/ deliverer = c
    \/ \E n \in DOMAIN buffer : buffer[n] = c
    \/ writer.copy = c \/ c \in wire
    \/ \E n \in DOMAIN incoming : incoming[n].copy = c

\* Every event delivered to the destination is under way, or was answered,
\* taken by recovery or counted as lost, except those cut off by a connection
\* that died before the relay answered and one dropped at Close.
EveryEventAccounted ==
    \A c \in 1..Len(event) : fate[c] = "none" => UnderWay(c)

\* An event is accounted for once: what was acknowledged is not saved for
\* another attempt as well, and what was saved or lost is not acknowledged
\* later, whichever of the broadcaster, Write and handleFlow gets to it.
FatesFinal ==
    [][\A c \in Copies : fate[c] # "none" => fate'[c] = fate[c]]_vars

\* "releaseSlot only ever fires for a slot that's actually held": every event
\* tracked as dispatched has a slot in the current semaphore, so handleFlow
\* never blocks in releasing one.
TrackedHoldSlots ==
    Cardinality(dispatched) <= slots

\* The destination reconnects after its connection died, whatever was queued,
\* sent or answered meanwhile.
Reconnects ==
    \A n \in 1..MaxCycles - 1 : (cycle = n /\ conn = "dead") ~> (cycle > n \/ closed)

\* "dispatched tracks exactly which events currently hold one of this
\* destination's inFlight slots": every slot in use is tracked, or belongs to
\* the event Write is sending.
EverySlotTracked ==
    slots <= Cardinality(dispatched) + (IF writer.pc \in {"send", "mark", "add", "error", "exit"} THEN 1 ELSE 0)

-----------------------------------------------------------------------------
(***************************************************************************)
(* Proofs about StreamFlow, for any events, any number of deliveries and   *)
(* connection cycles and any size of the semaphore, the buffer and the     *)
(* history.                                                                *)
(*                                                                         *)
(* A copy changes hands between the broadcaster, Write, the relay and      *)
(* handleFlow, which share no lock.  StreamInv follows it: it is in one    *)
(* place at a time, and in none once its fate is known.                    *)
(***************************************************************************)

Answers == [event : Events, copy : 0..MaxCopies, ok : BOOLEAN]

FlowTypes ==
    /\ event \in Seq(Events) /\ Len(event) <= MaxCopies
    /\ fate \in [Copies -> {"none", "acked", "saved", "lost", "cut", "closed"}]
    /\ deliverer \in 0..Len(event) /\ buffer \in Seq(Copies) /\ incoming \in Seq(Answers)
    /\ writer \in [pc : {"dial", "loop", "slot", "send", "mark", "add", "error", "exit"},
                   copy : 0..Len(event)]
    /\ wire \subseteq 1..Len(event)
    /\ slots \in 0..Concurrency /\ dispatched \subseteq Events

InBuffer(c) == \E n \in DOMAIN buffer : buffer[n] = c
InHand(c) == writer.pc \in {"slot", "send"} /\ writer.copy = c
InAnswers(c) == \E n \in DOMAIN incoming : incoming[n].copy = c

\* No copy is in two places, or twice in one.
OnePlace ==
    \A c \in Copies :
        /\ deliverer = c => ~InBuffer(c) /\ ~InHand(c) /\ c \notin wire /\ ~InAnswers(c)
        /\ InBuffer(c) => ~InHand(c) /\ c \notin wire /\ ~InAnswers(c)
        /\ InHand(c) => c \notin wire /\ ~InAnswers(c)
        /\ c \in wire => ~InAnswers(c)
QueuedOnce ==
    /\ \A m, n \in DOMAIN buffer : buffer[m] = buffer[n] => m = n
    /\ \A m, n \in DOMAIN incoming :
          incoming[m].copy = incoming[n].copy /\ incoming[m].copy # 0 => m = n

\* A copy is somewhere exactly while its fate is open, and a copy not yet
\* delivered is nowhere.
OpenFates ==
    \A c \in Copies :
        /\ fate[c] # "none" => /\ deliverer # c /\ ~InBuffer(c) /\ ~InHand(c)
                               /\ c \notin wire /\ ~InAnswers(c)
        /\ c > Len(event) => ~InBuffer(c) /\ ~InAnswers(c) /\ fate[c] = "none"
        /\ c <= Len(event) /\ fate[c] = "none" =>
              deliverer = c \/ InBuffer(c) \/ InHand(c) \/ c \in wire \/ InAnswers(c)

\* What Write holds at each of its steps.
WriterHolds ==
    /\ writer.pc \in {"slot", "send", "mark", "add"} => writer.copy # 0
    /\ writer.pc \notin {"slot", "send", "mark", "add"} => writer.copy = 0
    /\ flow = "new" \/ conn = "dial" => writer.pc = "dial"

\* Beyond the tracked events, the one Write is sending has a slot.
SlotsCover ==
    /\ IsFiniteSet(dispatched)
    /\ Cardinality(dispatched) + (IF writer.pc \in {"send", "mark", "add"} THEN 1 ELSE 0) <= slots

StreamInv == FlowTypes /\ OnePlace /\ QueuedOnce /\ OpenFates /\ WriterHolds /\ SlotsCover

-----------------------------------------------------------------------------
\* Appending an event to a channel leaves what is queued where it is.
LEMMA AppendAt ==
    ASSUME NEW S, NEW s \in Seq(S), NEW x \in S
    PROVE  /\ Append(s, x) \in Seq(S)
           /\ DOMAIN Append(s, x) = 1..Len(s) + 1 /\ DOMAIN s = 1..Len(s) /\ Len(s) \in Nat
           /\ Append(s, x)[Len(s) + 1] = x
           /\ \A n \in DOMAIN s : Append(s, x)[n] = s[n]
OBVIOUS

\* Receiving from a channel moves what is queued one place up.
LEMMA TailAt ==
    ASSUME NEW S, NEW s \in Seq(S), s # <<>>
    PROVE  /\ Tail(s) \in Seq(S) /\ Head(s) \in S /\ Head(s) = s[1]
           /\ DOMAIN Tail(s) = 1..Len(s) - 1 /\ DOMAIN s = 1..Len(s) /\ Len(s) \in Nat \ {0}
           /\ \A n \in DOMAIN Tail(s) : Tail(s)[n] = s[n + 1]
OBVIOUS

\* A destination starts with nothing delivered.
LEMMA StreamInit == Init => StreamInv
<1>. SUFFICES ASSUME Init PROVE StreamInv
  OBVIOUS
<1>. USE StreamAssumption DEF Init, Copies
<1>1. FlowTypes /\ OnePlace /\ QueuedOnce /\ OpenFates /\ WriterHolds
  BY DEF FlowTypes, OnePlace, QueuedOnce, OpenFates, WriterHolds, InBuffer, InHand, InAnswers
<1>2. SlotsCover
  BY FS_EmptySet DEF SlotsCover
<1>. QED
  BY <1>1, <1>2 DEF StreamInv

-----------------------------------------------------------------------------
(* Every step preserves the invariant *)

\* A new copy is handed over (deliverToSubscriber).
LEMMA DeliverStep ==
    ASSUME StreamInv, NEW e \in Events, Deliver(e)
    PROVE  StreamInv'
<1>. USE StreamAssumption DEF StreamInv, Deliver, flowState, link, Copies
<1>1. Len(event') = Len(event) + 1 /\ event' \in Seq(Events)
  BY AppendAt DEF FlowTypes
<1>2. \A c \in Copies :
         /\ InBuffer(c)' <=> InBuffer(c)
         /\ InHand(c)' <=> InHand(c)
         /\ InAnswers(c)' <=> InAnswers(c)
  BY <1>1 DEF InBuffer, InHand, InAnswers, FlowTypes
<1>3. FlowTypes'
  BY <1>1 DEF FlowTypes
<1>4. OnePlace' /\ OpenFates'
  BY <1>1, <1>2 DEF OnePlace, OpenFates, FlowTypes, InHand
<1>5. QueuedOnce'
  BY DEF QueuedOnce
<1>6. WriterHolds'
  BY DEF WriterHolds, FlowTypes
<1>7. SlotsCover'
  BY DEF SlotsCover
<1>. QED
  BY <1>3, <1>4, <1>5, <1>6, <1>7

\* It enters the channel ...
LEMMA DeliverQueuesStep ==
    ASSUME StreamInv, DeliverQueues
    PROVE  StreamInv'
<1>. USE StreamAssumption DEF StreamInv, DeliverQueues, flowState, link, Copies
<1>1. deliverer \in Copies /\ buffer \in Seq(Copies)
  BY DEF FlowTypes
<1>2. \A c \in Copies :
         /\ InBuffer(c)' <=> InBuffer(c) \/ c = deliverer
         /\ InHand(c)' <=> InHand(c)
         /\ InAnswers(c)' <=> InAnswers(c)
  <2>. TAKE c \in Copies
  <2>1. InBuffer(c)' <=> InBuffer(c) \/ c = deliverer
    BY <1>1, AppendAt DEF InBuffer
  <2>2. (InHand(c)' <=> InHand(c)) /\ (InAnswers(c)' <=> InAnswers(c))
    BY DEF InHand, InAnswers
  <2>. QED
    BY <2>1, <2>2
<1>3. FlowTypes'
  BY <1>1 DEF FlowTypes
<1>4. OnePlace' /\ OpenFates'
  BY <1>1, <1>2 DEF OnePlace, OpenFates, FlowTypes
<1>5. QueuedOnce'
  BY <1>1 DEF QueuedOnce, OnePlace, InBuffer, InAnswers, FlowTypes
<1>6. WriterHolds'
  BY DEF WriterHolds, FlowTypes
<1>7. SlotsCover'
  BY DEF SlotsCover
<1>. QED
  BY <1>3, <1>4, <1>5, <1>6, <1>7

\* ... or, between two connections, goes to recovery or is lost.
LEMMA DeliverPausedStep ==
    ASSUME StreamInv, NEW x \in Custodies, DeliverPaused(x)
    PROVE  StreamInv'
<1>. USE StreamAssumption DEF StreamInv, DeliverPaused, flowState, link, Copies
<1>1. deliverer \in Copies /\ x \in {"saved", "lost"}
  BY DEF FlowTypes, Custodies
<1>2. \A c \in Copies :
         /\ InBuffer(c)' <=> InBuffer(c)
         /\ InHand(c)' <=> InHand(c)
         /\ InAnswers(c)' <=> InAnswers(c)
  BY <1>1 DEF InBuffer, InHand, InAnswers, FlowTypes
<1>3. FlowTypes'
  BY <1>1 DEF FlowTypes
<1>4. OnePlace' /\ OpenFates'
  BY <1>1, <1>2 DEF OnePlace, OpenFates, FlowTypes
<1>5. QueuedOnce'
  BY DEF QueuedOnce
<1>6. WriterHolds'
  BY DEF WriterHolds, FlowTypes
<1>7. SlotsCover'
  BY DEF SlotsCover
<1>. QED
  BY <1>3, <1>4, <1>5, <1>6, <1>7

\* The dial ends, well ...
LEMMA DialSucceedsStep ==
    ASSUME StreamInv, DialSucceeds
    PROVE  StreamInv'
<1>. USE StreamAssumption DEF StreamInv, DialSucceeds, flowState, link, Copies
<1>1. \A c \in Copies :
         /\ InBuffer(c)' <=> InBuffer(c)
         /\ InHand(c)' <=> InHand(c)
         /\ InAnswers(c)' <=> InAnswers(c)
  BY DEF InBuffer, InHand, InAnswers, FlowTypes, WriterHolds
<1>2. FlowTypes'
  BY DEF FlowTypes
<1>3. OnePlace' /\ OpenFates'
  BY <1>1 DEF OnePlace, OpenFates, FlowTypes
<1>4. QueuedOnce'
  BY DEF QueuedOnce
<1>5. WriterHolds'
  BY DEF WriterHolds, FlowTypes
<1>6. SlotsCover'
  BY DEF SlotsCover, WriterHolds
<1>. QED
  BY <1>2, <1>3, <1>4, <1>5, <1>6

\* ... or not.
LEMMA DialFailsStep ==
    ASSUME StreamInv, DialFails
    PROVE  StreamInv'
<1>. USE StreamAssumption DEF StreamInv, DialFails, flowState, link, Copies, ErrorTaken
<1>1. \A c \in Copies :
         /\ InBuffer(c)' <=> InBuffer(c)
         /\ InHand(c)' <=> InHand(c)
         /\ InAnswers(c)' <=> InAnswers(c)
  BY DEF InBuffer, InHand, InAnswers, FlowTypes, WriterHolds
<1>2. FlowTypes'
  BY DEF FlowTypes
<1>3. OnePlace' /\ OpenFates'
  BY <1>1 DEF OnePlace, OpenFates, FlowTypes
<1>4. QueuedOnce'
  BY DEF QueuedOnce
<1>5. WriterHolds'
  BY DEF WriterHolds, FlowTypes
<1>6. SlotsCover'
  BY DEF SlotsCover, WriterHolds
<1>. QED
  BY <1>2, <1>3, <1>4, <1>5, <1>6

\* The connection dies: what was sent and not answered is cut off.
LEMMA ConnDiesStep ==
    ASSUME StreamInv, ConnDies
    PROVE  StreamInv'
<1>. USE StreamAssumption DEF StreamInv, ConnDies, flowState, link, Copies
<1>1. \A c \in Copies :
         /\ InBuffer(c)' <=> InBuffer(c)
         /\ InHand(c)' <=> InHand(c)
         /\ InAnswers(c)' <=> InAnswers(c)
  BY DEF InBuffer, InHand, InAnswers, FlowTypes
<1>2. FlowTypes'
  BY DEF FlowTypes
<1>3. OnePlace' /\ OpenFates'
  BY <1>1 DEF OnePlace, OpenFates, FlowTypes
<1>4. QueuedOnce'
  BY DEF QueuedOnce
<1>5. WriterHolds'
  BY DEF WriterHolds, FlowTypes
<1>6. SlotsCover'
  BY DEF SlotsCover
<1>. QED
  BY <1>2, <1>3, <1>4, <1>5, <1>6

\* Close.
LEMMA CloseStep ==
    ASSUME StreamInv, Close
    PROVE  StreamInv'
<1>. USE StreamAssumption DEF StreamInv, Close, flowState, link, Copies
<1>1. \A c \in Copies :
         /\ InBuffer(c)' <=> InBuffer(c)
         /\ InHand(c)' <=> InHand(c)
         /\ InAnswers(c)' <=> InAnswers(c)
  BY DEF InBuffer, InHand, InAnswers, FlowTypes
<1>2. FlowTypes'
  BY DEF FlowTypes
<1>3. OnePlace' /\ OpenFates'
  BY <1>1 DEF OnePlace, OpenFates, FlowTypes
<1>4. QueuedOnce'
  BY DEF QueuedOnce
<1>5. WriterHolds'
  BY DEF WriterHolds, FlowTypes
<1>6. SlotsCover'
  BY DEF SlotsCover
<1>. QED
  BY <1>2, <1>3, <1>4, <1>5, <1>6

\* Write receives the next copy.
LEMMA WriteTakesStep ==
    ASSUME StreamInv, WriteTakes
    PROVE  StreamInv'
<1>. USE StreamAssumption DEF StreamInv, WriteTakes, flowState, link, Copies, Holds
<1>1. buffer \in Seq(Copies) /\ buffer # <<>>
  BY DEF FlowTypes
<1>2. Head(buffer) \in Copies /\ InBuffer(Head(buffer))
  BY <1>1, TailAt DEF InBuffer
<1>3. Head(buffer) \in 1..Len(event)
  BY <1>2 DEF OpenFates, FlowTypes
<1>4. \A c \in Copies :
         /\ InBuffer(c)' <=> InBuffer(c) /\ c # Head(buffer)
         /\ InHand(c)' <=> c = Head(buffer)
         /\ InAnswers(c)' <=> InAnswers(c)
  <2>. TAKE c \in Copies
  <2>1. InBuffer(c)' => InBuffer(c) /\ c # Head(buffer)
    BY <1>1, TailAt DEF InBuffer, QueuedOnce
  <2>2. InBuffer(c) /\ c # Head(buffer) => InBuffer(c)'
    <3>. SUFFICES ASSUME NEW n \in DOMAIN buffer, buffer[n] = c, c # Head(buffer) PROVE InBuffer(c)'
      BY DEF InBuffer
    <3>1. n - 1 \in DOMAIN Tail(buffer) /\ Tail(buffer)[n - 1] = c
      BY <1>1, TailAt
    <3>. QED
      BY <3>1 DEF InBuffer
  <2>3. (InHand(c)' <=> c = Head(buffer)) /\ (InAnswers(c)' <=> InAnswers(c))
    BY DEF InHand, InAnswers
  <2>. QED
    BY <2>1, <2>2, <2>3
<1>5. FlowTypes'
  BY <1>1, <1>3, TailAt DEF FlowTypes
<1>6. OnePlace' /\ OpenFates'
  BY <1>2, <1>3, <1>4 DEF OnePlace, OpenFates, FlowTypes, InHand
<1>7. QueuedOnce'
  BY <1>1, TailAt DEF QueuedOnce
<1>8. WriterHolds'
  BY <1>2 DEF WriterHolds, FlowTypes
<1>9. SlotsCover'
  BY DEF SlotsCover
<1>. QED
  BY <1>5, <1>6, <1>7, <1>8, <1>9

\* It acquires a slot.
LEMMA WriteAcquiresStep ==
    ASSUME StreamInv, WriteAcquires
    PROVE  StreamInv'
<1>. USE StreamAssumption DEF StreamInv, WriteAcquires, flowState, link, Copies, Holds
<1>1. \A c \in Copies :
         /\ InBuffer(c)' <=> InBuffer(c)
         /\ InHand(c)' <=> InHand(c)
         /\ InAnswers(c)' <=> InAnswers(c)
  BY DEF InBuffer, InHand, InAnswers, FlowTypes
<1>2. FlowTypes'
  BY DEF FlowTypes
<1>3. OnePlace' /\ OpenFates'
  BY <1>1 DEF OnePlace, OpenFates, FlowTypes
<1>4. QueuedOnce'
  BY DEF QueuedOnce
<1>5. WriterHolds'
  BY DEF WriterHolds, FlowTypes
<1>6. SlotsCover'
  BY FS_CardinalityType DEF SlotsCover, FlowTypes
<1>. QED
  BY <1>2, <1>3, <1>4, <1>5, <1>6

\* The connection died while it waited for one.
LEMMA WriteSlotDeadStep ==
    ASSUME StreamInv, NEW x \in Custodies, WriteSlotDead(x)
    PROVE  StreamInv'
<1>. USE StreamAssumption DEF StreamInv, WriteSlotDead, flowState, link, Copies, Holds, SaveOrLose, Custodies
<1>1. writer.copy \in Copies
  BY DEF FlowTypes, WriterHolds
<1>2. \A c \in Copies :
         /\ InBuffer(c)' <=> InBuffer(c)
         /\ InHand(c)' <=> FALSE
         /\ InAnswers(c)' <=> InAnswers(c)
  BY <1>1 DEF InBuffer, InHand, InAnswers, FlowTypes
<1>3. FlowTypes'
  BY <1>1 DEF FlowTypes
<1>4. OnePlace' /\ OpenFates'
  BY <1>1, <1>2 DEF OnePlace, OpenFates, FlowTypes, InHand
<1>5. QueuedOnce'
  BY DEF QueuedOnce
<1>6. WriterHolds'
  BY DEF WriterHolds, FlowTypes
<1>7. SlotsCover'
  BY DEF SlotsCover
<1>. QED
  BY <1>3, <1>4, <1>5, <1>6, <1>7

\* It sends the copy.
LEMMA WriteSendsStep ==
    ASSUME StreamInv, WriteSends
    PROVE  StreamInv'
<1>. USE StreamAssumption DEF StreamInv, WriteSends, flowState, link, Copies, Holds
<1>1. writer.copy \in 1..Len(event)
  BY DEF FlowTypes, WriterHolds
<1>2. \A c \in Copies :
         /\ InBuffer(c)' <=> InBuffer(c)
         /\ InHand(c)' <=> FALSE
         /\ InAnswers(c)' <=> InAnswers(c)
  BY <1>1 DEF InBuffer, InHand, InAnswers, FlowTypes
<1>3. FlowTypes'
  BY <1>1 DEF FlowTypes
<1>4. OnePlace' /\ OpenFates'
  BY <1>1, <1>2 DEF OnePlace, OpenFates, FlowTypes, InHand
<1>5. QueuedOnce'
  BY DEF QueuedOnce
<1>6. WriterHolds'
  BY DEF WriterHolds, FlowTypes
<1>7. SlotsCover'
  BY DEF SlotsCover
<1>. QED
  BY <1>3, <1>4, <1>5, <1>6, <1>7

\* Sending fails.
LEMMA WriteSendFailsStep ==
    ASSUME StreamInv, NEW x \in Custodies, WriteSendFails(x)
    PROVE  StreamInv'
<1>. USE StreamAssumption DEF StreamInv, WriteSendFails, flowState, link, Copies, Holds, SaveOrLose, Custodies
<1>1. writer.copy \in Copies
  BY DEF FlowTypes, WriterHolds
<1>2. \A c \in Copies :
         /\ InBuffer(c)' <=> InBuffer(c)
         /\ InHand(c)' <=> FALSE
         /\ InAnswers(c)' <=> InAnswers(c)
  BY <1>1 DEF InBuffer, InHand, InAnswers, FlowTypes
<1>3. FlowTypes'
  BY <1>1 DEF FlowTypes
<1>4. OnePlace' /\ OpenFates'
  BY <1>1, <1>2 DEF OnePlace, OpenFates, FlowTypes, InHand
<1>5. QueuedOnce'
  BY DEF QueuedOnce
<1>6. WriterHolds'
  BY DEF WriterHolds, FlowTypes
<1>7. SlotsCover'
  BY FS_CardinalityType DEF SlotsCover, FlowTypes
<1>. QED
  BY <1>3, <1>4, <1>5, <1>6, <1>7

\* Write reports the error.
LEMMA WriteReportsStep ==
    ASSUME StreamInv, WriteReports
    PROVE  StreamInv'
<1>. USE StreamAssumption DEF StreamInv, WriteReports, flowState, link, Copies, Holds, ErrorTaken
<1>1. \A c \in Copies :
         /\ InBuffer(c)' <=> InBuffer(c)
         /\ InHand(c)' <=> InHand(c)
         /\ InAnswers(c)' <=> InAnswers(c)
  BY DEF InBuffer, InHand, InAnswers, FlowTypes
<1>2. FlowTypes'
  BY DEF FlowTypes
<1>3. OnePlace' /\ OpenFates'
  BY <1>1 DEF OnePlace, OpenFates, FlowTypes
<1>4. QueuedOnce'
  BY DEF QueuedOnce
<1>5. WriterHolds'
  BY DEF WriterHolds, FlowTypes
<1>6. SlotsCover'
  BY DEF SlotsCover
<1>. QED
  BY <1>2, <1>3, <1>4, <1>5, <1>6

\* The event sent is marked in the history ...
LEMMA WriteMarksStep ==
    ASSUME StreamInv, WriteMarks
    PROVE  StreamInv'
<1>. USE StreamAssumption DEF StreamInv, WriteMarks, flowState, link, Copies, Holds
<1>1. \A c \in Copies :
         /\ InBuffer(c)' <=> InBuffer(c)
         /\ InHand(c)' <=> InHand(c)
         /\ InAnswers(c)' <=> InAnswers(c)
  BY DEF InBuffer, InHand, InAnswers, FlowTypes
<1>2. FlowTypes'
  BY DEF FlowTypes
<1>3. OnePlace' /\ OpenFates'
  BY <1>1 DEF OnePlace, OpenFates, FlowTypes
<1>4. QueuedOnce'
  BY DEF QueuedOnce
<1>5. WriterHolds'
  BY DEF WriterHolds, FlowTypes
<1>6. SlotsCover'
  BY DEF SlotsCover
<1>. QED
  BY <1>2, <1>3, <1>4, <1>5, <1>6

\* ... and tracked: its slot is now the tracked event's.
LEMMA WriteTracksStep ==
    ASSUME StreamInv, WriteTracks
    PROVE  StreamInv'
<1>. USE StreamAssumption DEF StreamInv, WriteTracks, flowState, link, Copies, Holds
<1>1. event[writer.copy] \in Events
  BY DEF FlowTypes, WriterHolds
<1>2. \A c \in Copies :
         /\ InBuffer(c)' <=> InBuffer(c)
         /\ InHand(c)' <=> InHand(c)
         /\ InAnswers(c)' <=> InAnswers(c)
  BY <1>1 DEF InBuffer, InHand, InAnswers, FlowTypes
<1>3. FlowTypes'
  BY <1>1 DEF FlowTypes
<1>4. OnePlace' /\ OpenFates'
  BY <1>1, <1>2 DEF OnePlace, OpenFates, FlowTypes
<1>5. QueuedOnce'
  BY DEF QueuedOnce
<1>6. WriterHolds'
  BY DEF WriterHolds, FlowTypes
<1>7. SlotsCover'
  <2>1. /\ IsFiniteSet(dispatched')
        /\ Cardinality(dispatched') =
              IF event[writer.copy] \in dispatched THEN Cardinality(dispatched)
              ELSE Cardinality(dispatched) + 1
    BY FS_AddElement DEF SlotsCover
  <2>. QED
    BY <2>1, FS_CardinalityType DEF SlotsCover, FlowTypes
<1>. QED
  BY <1>3, <1>4, <1>5, <1>6, <1>7

\* Write returns.
LEMMA WriteEndsStep ==
    ASSUME StreamInv, WriteEnds
    PROVE  StreamInv'
<1>. USE StreamAssumption DEF StreamInv, WriteEnds, flowState, link, Copies, Holds
<1>1. \A c \in Copies :
         /\ InBuffer(c)' <=> InBuffer(c)
         /\ InHand(c)' <=> FALSE
         /\ InAnswers(c)' <=> InAnswers(c)
  BY DEF InBuffer, InHand, InAnswers, FlowTypes
<1>2. FlowTypes'
  BY DEF FlowTypes, WriterHolds
<1>3. OnePlace' /\ OpenFates'
  BY <1>1 DEF OnePlace, OpenFates, FlowTypes, WriterHolds, InHand
<1>4. QueuedOnce'
  BY DEF QueuedOnce
<1>5. WriterHolds'
  BY DEF WriterHolds, FlowTypes
<1>6. SlotsCover'
  BY DEF SlotsCover
<1>. QED
  BY <1>2, <1>3, <1>4, <1>5, <1>6

\* The relay's answer is queued for handleFlow.
LEMMA AnswerStep ==
    ASSUME StreamInv, NEW d \in wire, NEW ok \in BOOLEAN, Answer(d, ok)
    PROVE  StreamInv'
<1>. USE StreamAssumption DEF StreamInv, Answer, flowState, link, Copies
<1>. DEFINE a == [event |-> event[d], copy |-> d, ok |-> ok]
<1>1. d \in Copies /\ a \in Answers /\ incoming \in Seq(Answers)
  BY DEF FlowTypes, Answers
<1>2. \A c \in Copies :
         /\ InBuffer(c)' <=> InBuffer(c)
         /\ InHand(c)' <=> InHand(c)
         /\ InAnswers(c)' <=> InAnswers(c) \/ c = d
  <2>. TAKE c \in Copies
  <2>1. InAnswers(c)' <=> InAnswers(c) \/ c = d
    BY <1>1, AppendAt DEF InAnswers
  <2>2. (InBuffer(c)' <=> InBuffer(c)) /\ (InHand(c)' <=> InHand(c))
    BY DEF InBuffer, InHand
  <2>. QED
    BY <2>1, <2>2
<1>3. FlowTypes'
  BY <1>1, AppendAt DEF FlowTypes
<1>4. OnePlace' /\ OpenFates'
  BY <1>1, <1>2 DEF OnePlace, OpenFates, FlowTypes
<1>5. QueuedOnce'
  <2>1. \A n \in DOMAIN incoming : incoming[n].copy # d
    BY <1>1 DEF OnePlace, InAnswers
  <2>. QED
    BY <1>1, <2>1, AppendAt DEF QueuedOnce
<1>6. WriterHolds' /\ SlotsCover'
  BY DEF WriterHolds, SlotsCover
<1>. QED
  BY <1>3, <1>4, <1>5, <1>6

\* So is an answer it repeats.
LEMMA RepeatedAnswerStep ==
    ASSUME StreamInv, NEW e \in Events, RepeatedAnswer(e)
    PROVE  StreamInv'
<1>. USE StreamAssumption DEF StreamInv, RepeatedAnswer, flowState, link, Copies
<1>. DEFINE a == [event |-> e, copy |-> 0, ok |-> TRUE]
<1>1. a \in Answers /\ incoming \in Seq(Answers)
  BY DEF FlowTypes, Answers
<1>2. \A c \in Copies :
         /\ InBuffer(c)' <=> InBuffer(c)
         /\ InHand(c)' <=> InHand(c)
         /\ InAnswers(c)' <=> InAnswers(c)
  <2>. TAKE c \in Copies
  <2>1. InAnswers(c)' <=> InAnswers(c)
    BY <1>1, AppendAt DEF InAnswers
  <2>2. (InBuffer(c)' <=> InBuffer(c)) /\ (InHand(c)' <=> InHand(c))
    BY DEF InBuffer, InHand
  <2>. QED
    BY <2>1, <2>2
<1>3. FlowTypes'
  BY <1>1, AppendAt DEF FlowTypes
<1>4. OnePlace' /\ OpenFates'
  BY <1>2 DEF OnePlace, OpenFates, FlowTypes
<1>5. QueuedOnce'
  BY <1>1, AppendAt DEF QueuedOnce
<1>6. WriterHolds' /\ SlotsCover'
  BY DEF WriterHolds, SlotsCover
<1>. QED
  BY <1>3, <1>4, <1>5, <1>6

\* The reader reports the dead connection ...
LEMMA ReaderFailsStep ==
    ASSUME StreamInv, ReaderFails
    PROVE  StreamInv'
<1>. USE StreamAssumption DEF StreamInv, ReaderFails, flowState, link, Copies, ErrorTaken
<1>1. \A c \in Copies :
         /\ InBuffer(c)' <=> InBuffer(c)
         /\ InHand(c)' <=> InHand(c)
         /\ InAnswers(c)' <=> InAnswers(c)
  BY DEF InBuffer, InHand, InAnswers, FlowTypes
<1>2. FlowTypes'
  BY DEF FlowTypes
<1>3. OnePlace' /\ OpenFates'
  BY <1>1 DEF OnePlace, OpenFates, FlowTypes
<1>4. QueuedOnce'
  BY DEF QueuedOnce
<1>5. WriterHolds'
  BY DEF WriterHolds, FlowTypes
<1>6. SlotsCover'
  BY DEF SlotsCover
<1>. QED
  BY <1>2, <1>3, <1>4, <1>5, <1>6

\* ... or ends.
LEMMA ReaderEndsStep ==
    ASSUME StreamInv, ReaderEnds
    PROVE  StreamInv'
<1>. USE StreamAssumption DEF StreamInv, ReaderEnds, flowState, link, Copies
<1>1. \A c \in Copies :
         /\ InBuffer(c)' <=> InBuffer(c)
         /\ InHand(c)' <=> InHand(c)
         /\ InAnswers(c)' <=> InAnswers(c)
  BY DEF InBuffer, InHand, InAnswers, FlowTypes
<1>2. FlowTypes'
  BY DEF FlowTypes
<1>3. OnePlace' /\ OpenFates'
  BY <1>1 DEF OnePlace, OpenFates, FlowTypes
<1>4. QueuedOnce'
  BY DEF QueuedOnce
<1>5. WriterHolds'
  BY DEF WriterHolds, FlowTypes
<1>6. SlotsCover'
  BY DEF SlotsCover
<1>. QED
  BY <1>2, <1>3, <1>4, <1>5, <1>6

\* handleFlow opens a connection cycle with an empty semaphore.
LEMMA FlowOpensStep ==
    ASSUME StreamInv, FlowOpens
    PROVE  StreamInv'
<1>. USE StreamAssumption DEF StreamInv, FlowOpens, flowState, link, Copies
<1>1. \A c \in Copies :
         /\ InBuffer(c)' <=> InBuffer(c)
         /\ InHand(c)' <=> InHand(c)
         /\ InAnswers(c)' <=> InAnswers(c)
  BY DEF InBuffer, InHand, InAnswers, FlowTypes
<1>2. FlowTypes'
  BY DEF FlowTypes
<1>3. OnePlace' /\ OpenFates'
  BY <1>1 DEF OnePlace, OpenFates, FlowTypes
<1>4. QueuedOnce'
  BY DEF QueuedOnce
<1>5. WriterHolds'
  BY DEF WriterHolds, FlowTypes
<1>6. SlotsCover'
  BY FS_EmptySet DEF SlotsCover, WriterHolds
<1>. QED
  BY <1>2, <1>3, <1>4, <1>5, <1>6

\* handleFlow settles an answer.
LEMMA FlowSettlesStep ==
    ASSUME StreamInv, NEW x \in Custodies, FlowSettles(x)
    PROVE  StreamInv'
<1>. USE StreamAssumption DEF StreamInv, FlowSettles, flowState, link, Copies
<1>. DEFINE a == Head(incoming)
<1>1. incoming \in Seq(Answers) /\ incoming # <<>>
  BY DEF FlowTypes
<1>2. /\ a.copy \in 0..MaxCopies /\ a.event \in Events
      /\ a.copy # 0 => InAnswers(a.copy)
  <2>1. a \in Answers /\ 1 \in DOMAIN incoming /\ a = incoming[1]
    BY <1>1, TailAt
  <2>. QED
    BY <2>1 DEF InAnswers, Answers
<1>3. \A c \in Copies :
         /\ InBuffer(c)' <=> InBuffer(c)
         /\ InHand(c)' <=> InHand(c)
         /\ InAnswers(c)' <=> InAnswers(c) /\ c # a.copy
  <2>. TAKE c \in Copies
  <2>1. InAnswers(c)' => InAnswers(c) /\ c # a.copy
    BY <1>1, TailAt DEF InAnswers, QueuedOnce
  <2>2. InAnswers(c) /\ c # a.copy => InAnswers(c)'
    <3>. SUFFICES ASSUME NEW n \in DOMAIN incoming, incoming[n].copy = c, c # a.copy
                  PROVE  InAnswers(c)'
      BY DEF InAnswers
    <3>1. n - 1 \in DOMAIN Tail(incoming) /\ Tail(incoming)[n - 1].copy = c
      BY <1>1, TailAt
    <3>. QED
      BY <3>1 DEF InAnswers
  <2>3. (InBuffer(c)' <=> InBuffer(c)) /\ (InHand(c)' <=> InHand(c))
    BY DEF InBuffer, InHand
  <2>. QED
    BY <2>1, <2>2, <2>3
<1>4. \A c \in Copies :
         /\ c # a.copy => fate'[c] = fate[c]
         /\ c = a.copy => fate'[c] \in {"acked", "saved", "lost"}
  BY <1>2 DEF FlowTypes, Custodies
<1>5. FlowTypes'
  <2>1. fate' \in [Copies -> {"none", "acked", "saved", "lost", "cut", "closed"}]
    BY <1>2 DEF FlowTypes, Custodies
  <2>. QED
    BY <1>1, <2>1, TailAt DEF FlowTypes
<1>6. OnePlace' /\ OpenFates'
  BY <1>2, <1>3, <1>4 DEF OnePlace, OpenFates, FlowTypes
<1>7. QueuedOnce'
  BY <1>1, TailAt DEF QueuedOnce
<1>8. WriterHolds'
  BY DEF WriterHolds
<1>9. SlotsCover'
  <2>1. /\ IsFiniteSet(dispatched')
        /\ Cardinality(dispatched') =
              IF a.event \in dispatched THEN Cardinality(dispatched) - 1 ELSE Cardinality(dispatched)
    BY FS_RemoveElement DEF SlotsCover
  <2>. QED
    BY <2>1, FS_CardinalityType DEF SlotsCover, FlowTypes
<1>. QED
  BY <1>5, <1>6, <1>7, <1>8, <1>9

\* The drain window ends.
LEMMA FlowReloadsStep ==
    ASSUME StreamInv, FlowReloads
    PROVE  StreamInv'
<1>. USE StreamAssumption DEF StreamInv, FlowReloads, flowState, link, Copies
<1>1. \A c \in Copies :
         /\ InBuffer(c)' <=> InBuffer(c)
         /\ InHand(c)' <=> InHand(c)
         /\ InAnswers(c)' <=> InAnswers(c)
  BY DEF InBuffer, InHand, InAnswers, FlowTypes
<1>2. FlowTypes'
  BY DEF FlowTypes
<1>3. OnePlace' /\ OpenFates'
  BY <1>1 DEF OnePlace, OpenFates, FlowTypes
<1>4. QueuedOnce'
  BY DEF QueuedOnce
<1>5. WriterHolds'
  BY DEF WriterHolds, FlowTypes
<1>6. SlotsCover'
  BY DEF SlotsCover
<1>. QED
  BY <1>2, <1>3, <1>4, <1>5, <1>6

\* handleFlow ends at Close.
LEMMA FlowClosedStep ==
    ASSUME StreamInv, FlowClosed
    PROVE  StreamInv'
<1>. USE StreamAssumption DEF StreamInv, FlowClosed, flowState, link, Copies
<1>1. \A c \in Copies :
         /\ InBuffer(c)' <=> InBuffer(c)
         /\ InHand(c)' <=> InHand(c)
         /\ InAnswers(c)' <=> InAnswers(c)
  BY DEF InBuffer, InHand, InAnswers, FlowTypes
<1>2. FlowTypes'
  BY DEF FlowTypes
<1>3. OnePlace' /\ OpenFates'
  BY <1>1 DEF OnePlace, OpenFates, FlowTypes
<1>4. QueuedOnce'
  BY DEF QueuedOnce
<1>5. WriterHolds'
  BY DEF WriterHolds, FlowTypes
<1>6. SlotsCover'
  BY DEF SlotsCover
<1>. QED
  BY <1>2, <1>3, <1>4, <1>5, <1>6

\* The next cycle starts.
LEMMA RetryStep ==
    ASSUME StreamInv, Retry
    PROVE  StreamInv'
<1>. USE StreamAssumption DEF StreamInv, Retry, flowState, link, Copies, Holds
<1>1. \A c \in Copies :
         /\ InBuffer(c)' <=> InBuffer(c)
         /\ InHand(c)' <=> InHand(c)
         /\ InAnswers(c)' <=> InAnswers(c)
  BY DEF InBuffer, InHand, InAnswers, FlowTypes
<1>2. FlowTypes'
  BY DEF FlowTypes
<1>3. OnePlace' /\ OpenFates'
  BY <1>1 DEF OnePlace, OpenFates, FlowTypes
<1>4. QueuedOnce'
  BY DEF QueuedOnce
<1>5. WriterHolds'
  BY DEF WriterHolds, FlowTypes
<1>6. SlotsCover'
  BY DEF SlotsCover
<1>. QED
  BY <1>2, <1>3, <1>4, <1>5, <1>6

-----------------------------------------------------------------------------
(* What every behaviour satisfies *)

\* StreamInv is inductive.
LEMMA StreamInductive == StreamInv /\ [Next]_vars => StreamInv'
<1>. SUFFICES ASSUME StreamInv, [Next]_vars PROVE StreamInv'
  OBVIOUS
<1>1. CASE \/ \E e \in Events : Deliver(e)
           \/ DeliverQueues \/ \E x \in Custodies : DeliverPaused(x)
  BY <1>1, DeliverStep, DeliverQueuesStep, DeliverPausedStep
<1>2. CASE DialSucceeds \/ DialFails \/ ConnDies \/ Close
  BY <1>2, DialSucceedsStep, DialFailsStep, ConnDiesStep, CloseStep
<1>3. CASE Write
  BY <1>3, WriteTakesStep, WriteAcquiresStep, WriteSendsStep, WriteReportsStep, WriteMarksStep,
     WriteTracksStep, WriteEndsStep, WriteSlotDeadStep, WriteSendFailsStep DEF Write
<1>4. CASE Flow
  BY <1>4, FlowOpensStep, FlowReloadsStep, FlowClosedStep, FlowSettlesStep DEF Flow
<1>5. CASE ReaderFails \/ ReaderEnds \/ Retry
  BY <1>5, ReaderFailsStep, ReaderEndsStep, RetryStep
<1>6. CASE \/ \E c \in wire, ok \in BOOLEAN : Answer(c, ok)
           \/ \E e \in Events : RepeatedAnswer(e)
  BY <1>6, AnswerStep, RepeatedAnswerStep
<1>7. CASE UNCHANGED vars
  <2>. USE <1>7 DEF StreamInv, vars, flowState, link
  <2>1. FlowTypes' /\ WriterHolds' /\ SlotsCover' /\ QueuedOnce'
    BY DEF FlowTypes, WriterHolds, SlotsCover, QueuedOnce
  <2>2. OnePlace' /\ OpenFates'
    BY DEF OnePlace, OpenFates, InBuffer, InHand, InAnswers
  <2>. QED
    BY <2>1, <2>2
<1>. QED
  BY <1>1, <1>2, <1>3, <1>4, <1>5, <1>6, <1>7 DEF Next

\* Whatever the relay, the connection and the schedule do, StreamInv holds.
THEOREM StreamHolds == Spec => []StreamInv
BY StreamInit, StreamInductive, PTL DEF Spec

\* No event handed to the destination drops out of sight: the copy is in the
\* channel, with Write, on the wire or among the answers, or its fate is
\* recorded (saveToRecoveryOrLose, handleFlow).
THEOREM EventsAccounted == Spec => []EveryEventAccounted
<1>1. StreamInv => EveryEventAccounted
  <2>. SUFFICES ASSUME StreamInv, NEW c \in 1..Len(event), fate[c] = "none" PROVE UnderWay(c)
    BY DEF EveryEventAccounted
  <2>1. c \in Copies /\ c <= Len(event)
    BY StreamAssumption DEF StreamInv, FlowTypes, Copies
  <2>2. deliverer = c \/ InBuffer(c) \/ InHand(c) \/ c \in wire \/ InAnswers(c)
    BY <2>1 DEF StreamInv, OpenFates
  <2>. QED
    BY <2>2 DEF UnderWay, InBuffer, InHand, InAnswers
<1>. QED
  BY <1>1, StreamHolds, PTL

\* releaseSlot finds a slot for every tracked event, so handleFlow never
\* blocks on the semaphore.
THEOREM SlotsSuffice == Spec => []TrackedHoldSlots
<1>1. StreamInv => TrackedHoldSlots
  BY FS_CardinalityType DEF StreamInv, FlowTypes, SlotsCover, TrackedHoldSlots
<1>. QED
  BY <1>1, StreamHolds, PTL

\* A step that settles the fate of a copy finds it open.
LEMMA FateStep ==
    StreamInv /\ [Next]_vars => \A c \in Copies : fate[c] # "none" => fate'[c] = fate[c]
<1>. SUFFICES ASSUME StreamInv, [Next]_vars, NEW c \in Copies, fate[c] # "none"
              PROVE  fate'[c] = fate[c]
  OBVIOUS
<1>. USE DEF StreamInv, OpenFates, FlowTypes, Custodies
<1>1. ASSUME NEW x \in Custodies, DeliverPaused(x) PROVE fate'[c] = fate[c]
  BY <1>1 DEF DeliverPaused
<1>2. CASE ConnDies \/ Retry
  BY <1>2 DEF ConnDies, Retry
<1>3. ASSUME NEW x \in Custodies, WriteSlotDead(x) \/ WriteSendFails(x) PROVE fate'[c] = fate[c]
  BY <1>3 DEF WriteSlotDead, WriteSendFails, SaveOrLose, InHand
<1>4. CASE WriteEnds
  BY <1>4 DEF WriteEnds, InHand
<1>5. ASSUME NEW x \in Custodies, FlowSettles(x) PROVE fate'[c] = fate[c]
  <2>1. Head(incoming) = incoming[1] /\ 1 \in DOMAIN incoming
    BY <1>5, TailAt DEF FlowSettles
  <2>. QED
    BY <1>5, <2>1 DEF FlowSettles, InAnswers
<1>6. CASE \/ \E e \in Events : Deliver(e) \/ RepeatedAnswer(e)
           \/ DeliverQueues \/ DialSucceeds \/ DialFails \/ Close
           \/ WriteTakes \/ WriteAcquires \/ WriteSends \/ WriteReports \/ WriteMarks \/ WriteTracks
           \/ FlowOpens \/ FlowReloads \/ FlowClosed \/ ReaderFails \/ ReaderEnds
           \/ \E d \in wire, ok \in BOOLEAN : Answer(d, ok)
           \/ UNCHANGED vars
  BY <1>6 DEF Deliver, RepeatedAnswer, DeliverQueues, DialSucceeds, DialFails, Close, WriteTakes,
     WriteAcquires, WriteSends, WriteReports, WriteMarks, WriteTracks, FlowOpens, FlowReloads,
     FlowClosed, ReaderFails, ReaderEnds, Answer, vars
<1>. QED
  BY <1>1, <1>2, <1>3, <1>4, <1>5, <1>6 DEF Next, Write, Flow

\* An event is accounted for once.
THEOREM AccountedOnce == Spec => FatesFinal
BY FateStep, StreamHolds, PTL DEF Spec, FatesFinal
=============================================================================
