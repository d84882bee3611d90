------------------------------- MODULE Follow -------------------------------
(***************************************************************************)
(* `find --follow` (client/follow.go, followpage.go): a live subscription  *)
(* on every relay, its stored events paged back past the relay's cap, an   *)
(* event emitted once, and the FollowState a restart resumes from.         *)
(* A relay serves the stored events newest first, at most Cap of them,     *)
(* then EOSE.  An event is its id; At gives its created_at.                *)
(***************************************************************************)
EXTENDS Integers, Sequences, FiniteSets, SequencesExt

CONSTANTS
    Relays, Events,
    At,            \* [Events -> created_at]
    Junk,          \* events Emit answers with ErrSeenOnly
    Skipped,       \* events Emit answers with ErrSkip
    FirstStored,   \* [Relays -> SUBSET Events], stored before the follow starts
    Late,          \* [Relays -> SUBSET Events], published while it runs
    Now, Overlap, Cap,
    PageMin,       \* followPageMin
    MaxPages,      \* followPages
    MaxSeen,       \* maxSeen
    Faults,        \* subset of {"drop", "crash", "refuse", "login", "emit"}
    MaxFaults, MaxRuns

VARIABLES
    up,        \* the follow runs
    runs,      \* processes started
    stored,    \* [Relays -> SUBSET Events]
    conn,      \* [Relays -> "first", "down" or "sub"]: first dial, waiting to redial, subscribed
    inbox,     \* [Relays -> Seq([sub, ev])], ev = 0 is EOSE, -1 CLOSED
    pg,        \* [Relays -> followPager]
    retried,   \* [Relays -> BOOLEAN] logged in on this session
    order,     \* FollowState.order: delivered ids, oldest first
    only,      \* FollowState.only
    since,     \* [Relays -> FollowState.since]
    disk,      \* the state file
    emitted,   \* [Events -> times printed]
    unsaved,   \* events printed and not in the file when the process crashed
    gaps,      \* a subscription ended before its stored events were read, or a page was refused
    faults

vars == <<up, runs, stored, conn, inbox, pg, retried, order, only, since, disk, emitted, unsaved, gaps, faults>>

Most(a, b) == IF a >= b THEN a ELSE b
Known == ToSet(order) \union only

\* newFollowPager and restart, for a subscription from s on.
NewPager(s) == [ok |-> TRUE, from |-> s, stored |-> TRUE, page |-> FALSE, until |-> 0, n |-> 0,
                fresh |-> 0, minAt |-> 0, ids |-> {}, pages |-> 0]

NoPager == [NewPager(0) EXCEPT !.ok = FALSE, !.stored = FALSE]

\* A relay's answer to a REQ: newest first, the lower id before, at most Cap.
Older(e, f) == At[e] > At[f] \/ (At[e] = At[f] /\ e < f)
Answer(r, from, until) ==
    LET asked == SetToSortSeq({e \in stored[r] : At[e] >= from /\ (until = 0 \/ At[e] <= until)}, Older)
    IN  SubSeq(asked, 1, IF Len(asked) < Cap THEN Len(asked) ELSE Cap)

Messages(name, seq) == [i \in 1..Len(seq) |-> [sub |-> name, ev |-> seq[i]]] \o <<[sub |-> name, ev |-> 0]>>

\* saw: a stored event of the phase in flight.
Saw(p, e) ==
    [p EXCEPT !.n = @ + 1,
              !.fresh = IF e \in p.ids THEN @ ELSE @ + 1,
              !.ids = @ \union {e},
              !.minAt = IF @ = 0 \/ At[e] < @ THEN At[e] ELSE @]

\* next: the until of the next page ("one second holds a whole page: on past it").
NextUntil(p) == IF p.until # 0 /\ p.minAt >= p.until THEN p.until - 1 ELSE p.minAt

\* Mutant: a phase of exactly followPageMin events counts as uncut.
MorePagesAbove(p) ==
    /\ p.ok /\ p.n > PageMin /\ p.fresh # 0
    /\ NextUntil(p) # 0 /\ NextUntil(p) >= p.from

MorePages(p) ==
    /\ p.ok /\ p.n >= PageMin /\ p.fresh # 0
    /\ NextUntil(p) # 0 /\ NextUntil(p) >= p.from

\* resumeFilters: the filters' own since is 0.
ResumeSince(s) == IF s = 0 THEN 0 ELSE Most(s - Overlap, 0)

Empty == [order |-> <<>>, only |-> {}, since |-> [r \in Relays |-> 0]]

Init ==
    /\ up = TRUE /\ runs = 1
    /\ stored = FirstStored
    /\ conn = [r \in Relays |-> "first"]
    /\ inbox = [r \in Relays |-> <<>>]
    /\ pg = [r \in Relays |-> NoPager]
    /\ retried = [r \in Relays |-> FALSE]
    /\ order = <<>> /\ only = {} /\ since = [r \in Relays |-> 0]
    /\ disk = Empty
    /\ emitted = [e \in Events |-> 0]
    /\ unsaved = {} /\ gaps = {} /\ faults = 0

Fault(f) == f \in Faults /\ faults < MaxFaults /\ faults' = faults + 1
Paging == {r \in Relays : conn[r] = "sub" /\ (pg[r].stored \/ pg[r].page)}
State == <<order, only, since, disk, emitted, unsaved>>

-----------------------------------------------------------------------------
(* The relay *)

\* A new event: stored, and sent to the live subscription.
Publish(r, e) ==
    /\ e \in Late[r] \ stored[r]
    /\ stored' = [stored EXCEPT ![r] = @ \union {e}]
    /\ inbox' = IF up /\ conn[r] = "sub" /\ At[e] >= pg[r].from
                THEN [inbox EXCEPT ![r] = Append(@, [sub |-> "live", ev |-> e])] ELSE inbox
    /\ UNCHANGED <<up, runs, conn, pg, retried, State, gaps, faults>>

\* CLOSED: on the page in flight, or on the live subscription.
Refuse(r, name) ==
    /\ up /\ conn[r] = "sub" /\ Fault("refuse")
    /\ name = "page" => pg[r].page
    /\ inbox' = [inbox EXCEPT ![r] = Append(SelectSeq(@, LAMBDA m : m.sub # name), [sub |-> name, ev |-> -1])]
    /\ gaps' = gaps \union {r}
    /\ UNCHANGED <<up, runs, stored, conn, pg, retried, State>>

-----------------------------------------------------------------------------
(* run and stream *)

\* The dial and stream's first subscribe.
Connect(r) ==
    /\ up /\ conn[r] \in {"first", "down"}
    /\ conn' = [conn EXCEPT ![r] = "sub"]
    /\ LET s == ResumeSince(since[r])
       IN  /\ pg' = [pg EXCEPT ![r] = NewPager(s)]
           /\ inbox' = [inbox EXCEPT ![r] = Messages("live", Answer(r, s, 0))]
    /\ retried' = [retried EXCEPT ![r] = FALSE]
    /\ UNCHANGED <<up, runs, stored, State, gaps, faults>>

\* A failed dial: Follow gives up only when every relay's first one fails.
DialFails(r) ==
    /\ up /\ conn[r] = "first" /\ Fault("drop")
    /\ conn' = [conn EXCEPT ![r] = "down"]
    /\ up' = \E q \in Relays \ {r} : conn[q] # "down"
    /\ UNCHANGED <<runs, stored, inbox, pg, retried, State, gaps>>

\* The connection drops; run waits and dials again.
Disconnected(r) ==
    /\ conn' = [conn EXCEPT ![r] = "down"]
    /\ inbox' = [inbox EXCEPT ![r] = <<>>]
    /\ pg' = [pg EXCEPT ![r] = NoPager]

Drop(r) ==
    /\ up /\ conn[r] = "sub" /\ Fault("drop")
    /\ Disconnected(r)
    /\ gaps' = gaps \union (Paging \intersect {r})
    /\ UNCHANGED <<up, runs, stored, retried, State>>

Msg(r) == Head(inbox[r])
Read(r) == up /\ conn[r] = "sub" /\ inbox[r] # <<>>
Taken(r) == [inbox EXCEPT ![r] = Tail(@)]

\* Mutant: emit does not look at State.Seen.
NewAny(e) == TRUE

\* emit's check, under emitMu: an id delivered or seen only is passed over.
New(e) == e \notin Known

\* add: the oldest id leaves a full list.
Added(e) == IF Len(order) = MaxSeen THEN Append(Tail(order), e) ELSE Append(order, e)

\* The pager counts a page's events, and the live subscription's until its EOSE.
Seeing(r) == Msg(r).sub = "page" \/ pg[r].stored

\* An event: the pager's count, then emit and Mark or MarkSeen.
OnEvent(r) ==
    /\ Read(r) /\ Msg(r).ev > 0
    /\ LET e == Msg(r).ev
           marks == New(e) /\ e \notin Junk \union Skipped
       IN  /\ pg' = IF Seeing(r) THEN [pg EXCEPT ![r] = Saw(@, e)] ELSE pg
           /\ order' = IF marks THEN Added(e) ELSE order
           /\ since' = IF marks THEN [since EXCEPT ![r] = Most(@, IF At[e] > Now THEN Now ELSE At[e])] ELSE since
           /\ only' = IF New(e) /\ e \in Junk THEN only \union {e} ELSE only
           /\ emitted' = IF marks THEN [emitted EXCEPT ![e] = @ + 1] ELSE emitted
    /\ inbox' = Taken(r)
    /\ UNCHANGED <<up, runs, stored, conn, retried, disk, unsaved, gaps, faults>>

\* EOSE: of the live subscription's stored events, or of a page; page asks the next one.
OnEose(r) ==
    /\ Read(r) /\ Msg(r).ev = 0
    /\ LET p == pg[r]
           counts == (Msg(r).sub = "live" /\ p.stored) \/ (Msg(r).sub = "page" /\ p.page)
           more == MorePages(p) /\ p.pages < MaxPages
           cut == MorePages(p) /\ ~more
           u == NextUntil(p)
       IN  /\ pg' = [pg EXCEPT ![r] =
                        CASE ~counts -> p
                          [] counts /\ more -> [p EXCEPT !.stored = FALSE, !.page = TRUE, !.pages = @ + 1,
                                                         !.until = u, !.n = 0, !.fresh = 0, !.minAt = 0]
                          [] OTHER -> [p EXCEPT !.stored = FALSE, !.page = FALSE, !.ok = ~cut /\ @]]
           /\ inbox' = [inbox EXCEPT ![r] = Tail(@) \o
                         (IF counts /\ more THEN Messages("page", Answer(r, p.from, u)) ELSE <<>>)]
           /\ gaps' = IF counts /\ cut THEN gaps \union {r} ELSE gaps
    /\ UNCHANGED <<up, runs, stored, conn, retried, State, faults>>

\* CLOSED: a page's stops the paging; the live one's logs in and subscribes again
\* once when it asks for a login, else run dials again.
OnClosed(r) ==
    /\ Read(r) /\ Msg(r).ev = -1
    /\ UNCHANGED <<up, runs, stored, State, gaps, faults>>
    /\ \/ /\ Msg(r).sub = "page"
          /\ pg' = IF pg[r].page THEN [pg EXCEPT ![r].ok = FALSE, ![r].page = FALSE] ELSE pg
          /\ inbox' = Taken(r)
          /\ UNCHANGED <<conn, retried>>
       \/ /\ Msg(r).sub = "live" /\ ~retried[r]
          /\ retried' = [retried EXCEPT ![r] = TRUE]
          /\ LET s == ResumeSince(since[r])
             IN  /\ pg' = [pg EXCEPT ![r] = NewPager(s)]
                 /\ inbox' = [inbox EXCEPT ![r] = Tail(@) \o Messages("live", Answer(r, s, 0))]
          /\ UNCHANGED conn
       \/ /\ Msg(r).sub = "live"
          /\ Disconnected(r)
          /\ UNCHANGED retried

\* A login refused (LoginError) or a failed Emit ends the follow, with a last Save.
Fatal(r) ==
    /\ Read(r)
    /\ \/ Msg(r).ev = -1 /\ Msg(r).sub = "live" /\ UNCHANGED faults
       \/ Msg(r).ev > 0 /\ New(Msg(r).ev) /\ Fault("emit")
    /\ up' = FALSE
    /\ disk' = [order |-> order, only |-> only, since |-> since]
    /\ gaps' = gaps \union Paging
    /\ UNCHANGED <<runs, stored, conn, inbox, pg, retried, order, only, since, emitted, unsaved>>

-----------------------------------------------------------------------------
(* The state file *)

\* Mutant: the file keeps the since of every relay but no ids.
SavedSinceOnly == [order |-> <<>>, only |-> {}, since |-> since]

Saved == [order |-> order, only |-> only, since |-> since]

\* Save, once a second when dirty.
Save ==
    /\ up /\ disk # Saved
    /\ disk' = Saved
    /\ UNCHANGED <<up, runs, stored, conn, inbox, pg, retried, order, only, since, emitted, unsaved, gaps, faults>>

\* ^C: the context ends, and with it every connection; the last Save.
Stop ==
    /\ up /\ runs < MaxRuns
    /\ up' = FALSE
    /\ disk' = Saved
    /\ gaps' = gaps \union Paging
    /\ UNCHANGED <<runs, stored, conn, inbox, pg, retried, order, only, since, emitted, unsaved, faults>>

Crash ==
    /\ up /\ Fault("crash")
    /\ up' = FALSE
    /\ gaps' = gaps \union Paging
    /\ unsaved' = unsaved \union {e \in Events : emitted[e] > 0 /\ e \notin ToSet(disk.order)}
    /\ UNCHANGED <<runs, stored, conn, inbox, pg, retried, order, only, since, disk, emitted>>

\* LoadFollowState and Follow.
Start ==
    /\ ~up /\ runs < MaxRuns
    /\ up' = TRUE /\ runs' = runs + 1
    /\ order' = disk.order /\ only' = disk.only /\ since' = disk.since
    /\ conn' = [r \in Relays |-> "first"]
    /\ inbox' = [r \in Relays |-> <<>>]
    /\ pg' = [r \in Relays |-> NoPager]
    /\ retried' = [r \in Relays |-> FALSE]
    /\ UNCHANGED <<stored, disk, emitted, unsaved, gaps, faults>>

Next ==
    \/ \E r \in Relays :
        \/ \E e \in Events : Publish(r, e)
        \/ \E name \in {"live", "page"} : Refuse(r, name)
        \/ Connect(r) \/ DialFails(r) \/ Drop(r)
        \/ OnEvent(r) \/ OnEose(r) \/ OnClosed(r) \/ Fatal(r)
    \/ Save \/ Stop \/ Crash \/ Start

Spec == Init /\ [][Next]_vars

-----------------------------------------------------------------------------
(* Properties *)

Wanted == Events \ (Junk \union Skipped)
Quiet(r) == up /\ conn[r] = "sub" /\ inbox[r] = <<>> /\ ~pg[r].stored /\ ~pg[r].page

\* No second holds a whole answer: the pager then goes on past it, by design.
Sparse(r) == \A e \in stored[r] : Cardinality({f \in stored[r] : At[f] = At[e]}) < Cap

\* Paging reaches the oldest stored event, whatever live events, logins and restarts
\* come between, when no subscription ended before its pages did (followPager,
\* resumeFilters).
PagedDown ==
    \A r \in Relays : Quiet(r) /\ gaps = {} /\ Sparse(r) =>
        \A e \in Wanted \intersect stored[r] : emitted[e] > 0

\* An event is printed once across relays, reconnects and restarts; again only if a
\* crash came before its id was saved (emit, Mark, Save).
PrintedOnce == \A e \in Events \ unsaved : emitted[e] <= 1

\* "Delivery across a crash is at least once ... nothing is skipped": once a
\* subscription is quiet, every stored event was printed (FollowState,
\* client/follow.go:48-51).
\* It fails when a stop comes amid a page, newest event first: the time saved is
\* the newest one's, and the next run never asks for the rest of the page.
NothingSkipped ==
    \A r \in Relays : Quiet(r) /\ pg[r].ok /\ Sparse(r) =>
        \A e \in Wanted \intersect stored[r] : emitted[e] > 0
=============================================================================
