---------------------------- MODULE BunkerHistory ----------------------------
(***************************************************************************)
(* The bunker's request history and its write-ahead log                    *)
(* (cli/bunker/eventlog.go and the history half of cli/bunker/daemon.go).  *)
(*                                                                         *)
(* The daemon keeps the last MaxTail resolved requests in memory and, for  *)
(* crashes, an append-only log of "added", "resolved" and "signed" lines.  *)
(* recordHistory and recordSignedEvent run under historyMu; recordAdded    *)
(* does not, so a request's "added" line may land after its "resolved" one.*)
(* LoadEventLog replays the log after a crash.  Every request here is a    *)
(* sign_event, the one method whose entries carry an event, and each id is *)
(* used for one request.                                                   *)
(***************************************************************************)
EXTENDS Integers, FiniteSets, SequencesExt

CONSTANTS
    IDs,         \* request ids
    MaxTail,     \* maxHistoryTail
    MaxMishaps,  \* bound on crashes and failed writes together
    TornWrites,  \* may a crash tear the line being appended?
    MaxErrors,   \* bound on failed writes (appends and compactions)
    SlowAdded    \* may MaxTail requests resolve while one onAdded callback runs?

\* What the constants of an instance satisfy.
HistoryAssumption ==
    /\ MaxTail \in Nat \ {0}
    /\ MaxMishaps \in Nat
    /\ MaxErrors \in Nat
    /\ TornWrites \in BOOLEAN /\ SlowAdded \in BOOLEAN

VARIABLES
    phase,       \* of each request: "new", "queued", "resolved", "answered", "gone"
    addDue,      \* onAdded has not run yet for the request
    created,     \* Pending.CreatedAt, as an order of arrival
    tail,        \* Daemon.historyTail
    lock,        \* holder of historyMu between the append and the compaction
    wal,         \* the lines of events.wal
    handle,      \* EventLog.f: "open" or "closed"
    sinceCompact,\* EventLog.resolvedSinceCompact
    up,          \* the daemon runs
    failed,      \* LoadEventLog refused to start: corrupt entry
    crashes,
    errors,
    \* observation
    outcome,     \* what was really decided for each request, "open" until then
    durable,     \* requests whose "resolved" line was written
    durableSig   \* requests whose "signed" line was written

memVars == <<tail, lock, handle, sinceCompact>>
ghostVars == <<outcome, durable, durableSig>>
vars == <<phase, addDue, created, memVars, wal, up, failed, crashes, errors, ghostVars>>

\* What a live daemon records: approved by a human, by a standing grant, or
\* turned down (by a human or by the queue's sweep).
Decided == {"allow", "auto", "deny"}

\* "expired" stands for the entries a recovery makes up for leftovers.
Outcomes == Decided \cup {"expired"}

\* HistoryEntry, down to what a reader of the history can tell apart.
Entry == [id : IDs, outcome : Outcomes, event : {"none", "unsigned", "signed"}]

AddedLine(id) == [type |-> "added", id |-> id, at |-> created[id]]
ResolvedLine(h) == [type |-> "resolved", id |-> h.id, entry |-> h]
SignedLine(id) == [type |-> "signed", id |-> id]
TornLine == [type |-> "torn"]

\* A line appended after a torn one continues it: the two are one line that
\* does not parse.
AppendLine(log, line) ==
    IF log # <<>> /\ Last(log).type = "torn"
    THEN Front(log) \o <<[type |-> "corrupt"]>>
    ELSE Append(log, line)

-----------------------------------------------------------------------------
\* LoadEventLog's replay: undecided requests, decided ones in the order of
\* their first "resolved" line, and their entries.
Blank == [pending |-> {}, order |-> <<>>, history |-> {}]

EntryOf(st, id) == CHOOSE h \in st.history : h.id = id

Known(st, id) == \E h \in st.history : h.id = id

\* Mutant: an "added" line after its own "resolved" line counts.
ReplayLineStaleAdded(st, line) ==
    CASE line.type = "added" ->
            [st EXCEPT !.pending = @ \cup {line}]
      [] line.type = "resolved" ->
            [pending |-> {p \in st.pending : p.id # line.id},
             order |-> IF Known(st, line.id) THEN st.order ELSE Append(st.order, line.id),
             history |-> {h \in st.history : h.id # line.id} \cup {line.entry}]
      [] line.type = "signed" /\ Known(st, line.id) ->
            [st EXCEPT !.history = {h \in @ : h.id # line.id}
                                   \cup {[EntryOf(st, line.id) EXCEPT !.event = "signed"]}]
      [] OTHER -> st

ReplayLine(st, line) ==
    CASE line.type = "added" ->
            IF Known(st, line.id) THEN st ELSE [st EXCEPT !.pending = @ \cup {line}]
      [] line.type = "resolved" ->
            [pending |-> {p \in st.pending : p.id # line.id},
             order |-> IF Known(st, line.id) THEN st.order ELSE Append(st.order, line.id),
             history |-> {h \in st.history : h.id # line.id} \cup {line.entry}]
      [] line.type = "signed" /\ Known(st, line.id) ->
            [st EXCEPT !.history = {h \in @ : h.id # line.id}
                                   \cup {[EntryOf(st, line.id) EXCEPT !.event = "signed"]}]
      [] OTHER -> st

\* readWALEntries: a last line that does not parse is dropped, any other is
\* an error.
Unparsed(line) == line.type \in {"torn", "corrupt"}

Corrupt(log) == \E i \in 1..(Len(log) - 1) : Unparsed(log[i])

Replay(log) == FoldLeft(ReplayLine, Blank, log)

\* What is still pending after the replay, oldest first, becomes expired.
Leftovers(log) ==
    SetToSortSeq(Replay(log).pending, LAMBDA p, q : p.at < q.at)

LeftoverEntry(p) == [id |-> p.id, outcome |-> "expired", event |-> "none"]

Newest(s) == SubSeq(s, Len(s) - MaxTail + 1, Len(s))

\* Mutant: the tail is trimmed one entry too late.
TrimTailLate(s) == IF Len(s) > MaxTail + 1 THEN Newest(s) ELSE s

TrimTail(s) == IF Len(s) > MaxTail THEN Newest(s) ELSE s

ResolvedLines(log) == SelectSeq(log, LAMBDA line : line.type = "resolved")

-----------------------------------------------------------------------------
Init ==
    /\ phase = [id \in IDs |-> "new"]
    /\ addDue = {}
    /\ created = [id \in IDs |-> 0]
    /\ tail = <<>>
    /\ lock = FALSE
    /\ wal = <<>>
    /\ handle = "open"
    /\ sinceCompact = 0
    /\ up = TRUE
    /\ failed = FALSE
    /\ crashes = 0
    /\ errors = 0
    /\ outcome = [id \in IDs |-> "open"]
    /\ durable = {}
    /\ durableSig = {}

CanWrite == handle = "open"

\* A write that fails: the handle is gone, or the disk refuses this once.
WriteFails ==
    IF CanWrite
    THEN errors < MaxErrors /\ crashes + errors < MaxMishaps /\ errors' = errors + 1
    ELSE UNCHANGED errors

\* An append that fails at the write, or at the fsync after it.
AppendFails(line) ==
    /\ WriteFails
    /\ wal' \in {wal} \cup IF CanWrite THEN {AppendLine(wal, line)} ELSE {}

\* Queue.Add files a request; its onAdded callback is still to run.
Enqueue(id) ==
    /\ up /\ phase[id] = "new"
    /\ phase' = [phase EXCEPT ![id] = "queued"]
    /\ addDue' = addDue \cup {id}
    /\ created' = [created EXCEPT ![id] = Cardinality({i \in IDs : phase[i] # "new"})]
    /\ UNCHANGED <<memVars, wal, up, failed, crashes, errors, ghostVars>>

\* recordAdded, outside historyMu.
RecordAdded(id) ==
    /\ up /\ id \in addDue
    /\ addDue' = addDue \ {id}
    /\ \/ CanWrite /\ wal' = AppendLine(wal, AddedLine(id)) /\ UNCHANGED errors
       \/ AppendFails(AddedLine(id))
    /\ UNCHANGED <<phase, created, memVars, up, failed, crashes, ghostVars>>

\* Mutant: compaction waits for twice the interval.
CompactDueLate(n) == n >= 2 * MaxTail

CompactDue(n) == n >= MaxTail

IDsIn(entries) == {entries[i].id : i \in DOMAIN entries}

\* recordHistory up to the compaction check; the request came from the queue
\* or, with outcome "auto", straight from Authorize.
RecordHistory(id, out) ==
    LET h == [id |-> id, outcome |-> out, event |-> "unsigned"] IN
    /\ up /\ ~lock
    /\ phase[id] = IF out = "auto" THEN "new" ELSE "queued"
    /\ phase' = [phase EXCEPT ![id] = "resolved"]
    /\ outcome' = [outcome EXCEPT ![id] = out]
    /\ tail' = TrimTail(Append(tail, h))
    /\ SlowAdded \/ addDue \cap IDsIn(tail) \subseteq IDsIn(tail')
    /\ \/ /\ CanWrite
          /\ wal' = AppendLine(wal, ResolvedLine(h))
          /\ sinceCompact' = sinceCompact + 1
          /\ durable' = durable \cup {id}
          /\ UNCHANGED errors
       \/ AppendFails(ResolvedLine(h)) /\ UNCHANGED <<sinceCompact, durable>>
    /\ lock' = CompactDue(sinceCompact')
    /\ UNCHANGED <<addDue, created, handle, up, failed, crashes, durableSig>>

\* Mutant: the log is rewritten from the entries in memory, unsigned.
CompactedUnsigned == [i \in 1..Len(tail) |-> ResolvedLine([tail[i] EXCEPT !.event = "unsigned"])]

\* What compact writes: one "resolved" line per entry of the tail.
Compacted == [i \in 1..Len(tail) |-> ResolvedLine(tail[i])]

\* recordHistory's compaction, still under historyMu.  It may fail before the
\* old handle is closed, or after, before or after the rename, which leaves
\* the daemon without a handle.
Compact ==
    /\ up /\ lock
    /\ lock' = FALSE
    /\ \/ /\ CanWrite
          /\ wal' = Compacted
          /\ sinceCompact' = 0
          /\ UNCHANGED <<handle, errors>>
       \/ WriteFails /\ UNCHANGED <<wal, sinceCompact, handle>>
       \/ /\ CanWrite /\ WriteFails
          /\ wal' \in {wal, Compacted}
          /\ handle' = "closed"
          /\ UNCHANGED sinceCompact
    /\ UNCHANGED <<phase, addDue, created, tail, up, failed, crashes, ghostVars>>

\* recordSignedEvent: patch the newest entry of that id, then the log; a
\* rotated-out entry is ignored.
RecordSigned(id) ==
    /\ up /\ ~lock
    /\ phase[id] = "resolved" /\ outcome[id] \in {"allow", "auto"}
    /\ phase' = [phase EXCEPT ![id] = "answered"]
    /\ IF id \in IDsIn(tail)
       THEN /\ tail' = [i \in DOMAIN tail |->
                           IF i = SelectLastInSeq(tail, LAMBDA h : h.id = id)
                           THEN [tail[i] EXCEPT !.event = "signed"] ELSE tail[i]]
            /\ \/ /\ CanWrite
                  /\ wal' = AppendLine(wal, SignedLine(id))
                  /\ durableSig' = durableSig \cup {id}
                  /\ UNCHANGED errors
               \/ AppendFails(SignedLine(id)) /\ UNCHANGED durableSig
       ELSE UNCHANGED <<tail, wal, durableSig, errors>>
    /\ UNCHANGED <<addDue, created, lock, handle, sinceCompact, up, failed, crashes,
                   outcome, durable>>

\* The process dies: memory is gone, requests without an answer with it.
\* With TornWrites a line may be half written.
Crash ==
    /\ up /\ crashes + errors < MaxMishaps
    /\ crashes' = crashes + 1
    /\ up' = FALSE
    /\ tail' = <<>> /\ lock' = FALSE /\ handle' = "closed" /\ sinceCompact' = 0
    /\ addDue' = {}
    /\ phase' = [id \in IDs |-> IF phase[id] \in {"queued", "resolved"} THEN "gone" ELSE phase[id]]
    /\ \/ wal' = wal
       \/ TornWrites /\ CanWrite /\ wal' = AppendLine(wal, TornLine)
    /\ UNCHANGED <<created, failed, errors, ghostVars>>

LoadedEntries(log, lost) ==
    LET st == Replay(log) IN
    [i \in 1..Len(st.order) |-> EntryOf(st, st.order[i])]
        \o [i \in 1..Len(lost) |-> LeftoverEntry(lost[i])]

\* Mutant: the leftovers are shown but not written back.
LoadForgets ==
    /\ ~up /\ ~failed
    /\ IF Corrupt(wal)
       THEN failed' = TRUE /\ UNCHANGED <<memVars, wal, up>>
       ELSE /\ tail' = TrimTail(LoadedEntries(wal, Leftovers(wal)))
            /\ up' = TRUE /\ handle' = "open"
            /\ sinceCompact' = 0
            /\ UNCHANGED <<failed, lock, wal>>
    /\ UNCHANGED <<phase, addDue, created, crashes, errors, ghostVars>>

\* LoadEventLog: replay, write each leftover back as an expired entry, trim,
\* and compact if something was trimmed.
Load ==
    /\ ~up /\ ~failed
    /\ IF Corrupt(wal)
       THEN failed' = TRUE /\ UNCHANGED <<memVars, wal, up>>
       ELSE LET lost == Leftovers(wal)
                out == LoadedEntries(wal, lost)
                appended == FoldLeft(LAMBDA log, p : AppendLine(log, ResolvedLine(LeftoverEntry(p))),
                                     wal, lost)
            IN  /\ tail' = TrimTail(out)
                /\ up' = TRUE /\ handle' = "open"
                /\ IF Len(out) > MaxTail
                   THEN /\ wal' = [i \in 1..MaxTail |-> ResolvedLine(Newest(out)[i])]
                        /\ sinceCompact' = 0
                   ELSE wal' = appended /\ sinceCompact' = Len(lost)
                /\ UNCHANGED <<failed, lock>>
    /\ UNCHANGED <<phase, addDue, created, crashes, errors, ghostVars>>

\* LoadEventLog dies after writing back some of the leftovers.
LoadInterrupted ==
    /\ ~up /\ ~failed /\ ~Corrupt(wal)
    /\ crashes + errors < MaxMishaps
    /\ crashes' = crashes + 1
    /\ \E n \in 1..Len(Leftovers(wal)) :
          wal' = FoldLeft(LAMBDA log, p : AppendLine(log, ResolvedLine(LeftoverEntry(p))),
                          wal, SubSeq(Leftovers(wal), 1, n))
    /\ UNCHANGED <<phase, addDue, created, memVars, up, failed, errors, ghostVars>>

Next ==
    \/ \E id \in IDs : Enqueue(id) \/ RecordAdded(id) \/ RecordSigned(id)
    \/ \E id \in IDs, out \in Decided : RecordHistory(id, out)
    \/ Compact
    \/ Crash \/ Load \/ LoadInterrupted

Spec == Init /\ [][Next]_vars

-----------------------------------------------------------------------------
\* Type correctness; the history in memory never exceeds its bound.
TypeOK ==
    /\ phase \in [IDs -> {"new", "queued", "resolved", "answered", "gone"}]
    /\ addDue \subseteq IDs
    /\ tail \in Seq(Entry) /\ Len(tail) <= MaxTail
    /\ lock \in BOOLEAN /\ up \in BOOLEAN /\ failed \in BOOLEAN
    /\ handle \in {"open", "closed"}
    /\ sinceCompact \in Nat
    /\ outcome \in [IDs -> Decided \cup {"open"}]
    /\ durable \subseteq IDs /\ durableSig \subseteq IDs

\* "Request History survives a crash or restart": whatever the history shows
\* and was written, a crash at this point would bring back with the same
\* outcome and the same signed event, across appends, compactions and
\* earlier recoveries.
HistorySurvivesCrash ==
    LET st == Replay(wal) IN
    up => \A i \in DOMAIN tail : tail[i].id \in durable =>
        /\ Known(st, tail[i].id)
        /\ EntryOf(st, tail[i].id).outcome = tail[i].outcome
        /\ tail[i].id \in durableSig => EntryOf(st, tail[i].id).event = "signed"

\* No recovery rewrites a recorded decision: a request that a human or a
\* grant decided on record is never undecided in the log and never comes
\* back as expired, although its "added" line may follow its "resolved" line.
DecisionNotRewritten ==
    LET st == Replay(wal) IN
    \A id \in durable :
        /\ \A p \in st.pending : p.id # id
        /\ Known(st, id) => EntryOf(st, id).outcome = outcome[id]
        /\ \A i \in DOMAIN tail : tail[i].id = id => tail[i].outcome = outcome[id]

\* "a second restart doesn't rediscover the same leftover": while the daemon
\* runs, the log calls undecided only requests that still wait, or whose
\* decision could not be written.
LeftoversSettled ==
    up => \A p \in Replay(wal).pending :
              phase[p.id] = "queued" \/ (outcome[p.id] # "open" /\ p.id \notin durable)

\* The log stays bounded: in a running daemon whose writes succeed it holds
\* no more "resolved" lines than the history and the ones since the last
\* compaction, of which there are at most MaxTail between two resolutions; so
\* at most 2 * MaxTail, whatever crashes and recoveries happened before.
LogBounded ==
    up /\ ~lock /\ errors = 0 =>
        /\ Len(ResolvedLines(wal)) <= Len(tail) + sinceCompact
        /\ sinceCompact <= MaxTail

\* "a parse failure on the very last line is treated as a torn write ... and
\* is silently dropped rather than failing startup": a daemon whose only
\* mishap is dying while it appends can always be started again.
TornWriteTolerated == ~failed
=============================================================================
