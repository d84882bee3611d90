-------------------------- MODULE RelayModeration --------------------------
(* The relay's moderation state (cli/relay/moderation.go): bans of pubkeys,
   events and addresses, the kind rules and the relay's name, changed over
   NIP-86, saved to one file beside the store, read by the event policy, by
   the NIP-11 document (cli/relay/service.go) and by the publisher of the
   relay's own stats event (cli/relay/relay_stats.go).

   A change runs under the state's mutex: it sets the new state, saves it and
   puts the old one back when the save fails.  What follows the change runs
   after the unlock: banevent looks the event up and deletes it, a rename
   reads the state again and replaces the served document.  The store checks
   the policy before it stores an event, in two steps, so both race with a
   ban.  Reasons, list methods and parameter parsing are left out; a request
   that fails to parse changes nothing. *)
EXTENDS Naturals, FiniteSets

CONSTANTS Callers,     \* NIP-86 requests in progress at once
          IDs,         \* event ids
          Pubkeys,     \* authors of events
          Kinds,       \* kinds of events
          Self,        \* the relay's own pubkey
          Addrs,       \* client addresses
          Names,       \* relay names an admin may set
          Name0,       \* the configured name
          MaxCalls,    \* bound: NIP-86 requests
          MaxStores,   \* bound: events stored
          MaxCrashes,  \* bound: crashes
          Faults       \* a subset of {"save", "delete"}: what may fail

VARIABLES mem,        \* m.state
          disk,       \* the moderation file
          mu,         \* who holds the mutex for writing, or "free"
          prev,       \* update's copy of the state, while saving
          calls,      \* [Callers -> the request in progress]
          served,     \* the name in the NIP-11 document being served
          open,       \* addresses with a WebSocket session
          checked,    \* events past the policy check, not stored yet
          stored,     \* events in the store
          late,       \* events stored although banned since their check
          acked,      \* bans answered true and not lifted since
          commits,    \* the store's commit counter
          ready,      \* the store's counters are complete
          tick,       \* the publisher's memory: ticked, commits, name
          published,  \* the name and kind rules in the stats event
          used        \* calls, stores and crashes so far

vars == <<mem, disk, mu, prev, calls, served, open, checked, stored, late,
          acked, commits, ready, tick, published, used>>
----------------------------------------------------------------------------
\* An event is what the policy reads of it; a ban of an event names all of it.
Events == [id : IDs, pubkey : Pubkeys, kind : Kinds]
Targets == (Pubkeys \cup Events \cup Addrs) \ {Self}

ASSUME ModerationAssumption ==
  /\ MaxCalls \in Nat /\ MaxStores \in Nat /\ MaxCrashes \in Nat
  /\ "free" \notin Callers

\* The changes NIP-86 can ask for; banning the relay's own key is refused.
Requests == [m : {"ban", "unban"}, x : Targets]
            \cup [m : {"allowkind", "disallowkind"}, x : Kinds]
            \cup [m : {"name"}, x : Names]

Idle == [pc |-> "idle", m |-> "none", x |-> Name0, md |-> Name0, sure |-> FALSE]
Empty == [bans |-> {}, allowed |-> {}, disallowed |-> {}, name |-> Name0]
Rules(s) == [allowed |-> s.allowed, disallowed |-> s.disallowed]

\* What each method does to a copy of the state.
Apply(s, r) ==
  CASE r.m = "ban" -> [s EXCEPT !.bans = @ \cup {r.x}]
    [] r.m = "unban" -> [s EXCEPT !.bans = @ \ {r.x}]
    [] r.m = "allowkind" -> [s EXCEPT !.disallowed = @ \ {r.x}, !.allowed = @ \cup {r.x}]
    [] r.m = "disallowkind" -> [s EXCEPT !.allowed = @ \ {r.x}, !.disallowed = @ \cup {r.x}]
    [] r.m = "name" -> [s EXCEPT !.name = r.x]

\* eventPolicy: the relay's own events are never refused.
eventPolicy(s, e) ==
  \/ e.pubkey = Self
  \/ /\ e.pubkey \notin s.bans
     /\ e \notin s.bans
     /\ e.kind \notin s.disallowed
     /\ s.allowed = {} \/ e.kind \in s.allowed

Init ==
  /\ mem = Empty /\ disk = Empty /\ mu = "free" /\ prev = Empty
  /\ calls = [c \in Callers |-> Idle]
  /\ served = Name0
  /\ open = {} /\ checked = {} /\ stored = {} /\ late = {} /\ acked = {}
  /\ commits = 0 /\ ready \in BOOLEAN
  /\ tick = [ticked |-> FALSE, commits |-> 0, name |-> Name0]
  /\ published = [name |-> Name0, rules |-> Rules(Empty)]
  /\ used = [calls |-> 0, stores |-> 0, crashes |-> 0]
----------------------------------------------------------------------------
(* update *)

\* Mutant: the ban is kept in memory and never saved.
BeginUnsaved(c, r) ==
  /\ calls[c].pc = "idle" /\ mu = "free" /\ used.calls < MaxCalls
  /\ mem' = Apply(mem, r)
  /\ calls' = [calls EXCEPT ![c] = [pc |-> "reply", m |-> r.m, x |-> r.x,
                                     md |-> Name0, sure |-> TRUE]]
  /\ used' = [used EXCEPT !.calls = @ + 1]
  /\ acked' = IF r.m = "unban" THEN acked \ {r.x} ELSE acked
  /\ UNCHANGED <<disk, mu, prev, served, open, checked, stored, late, commits,
                 ready, tick, published>>

\* A request takes the mutex and sets the changed copy as the state.
Begin(c, r) ==
  /\ calls[c].pc = "idle" /\ mu = "free" /\ used.calls < MaxCalls
  /\ mu' = c
  /\ prev' = mem
  /\ mem' = Apply(mem, r)
  /\ calls' = [d \in Callers |->
        IF d = c THEN [pc |-> "saving", m |-> r.m, x |-> r.x, md |-> Name0, sure |-> TRUE]
        ELSE IF r.m = "unban" /\ calls[d].x = r.x THEN [calls[d] EXCEPT !.sure = FALSE]
        ELSE calls[d]]
  /\ acked' = IF r.m = "unban" THEN acked \ {r.x} ELSE acked
  /\ used' = [used EXCEPT !.calls = @ + 1]
  /\ UNCHANGED <<disk, served, open, checked, stored, late, commits, ready,
                 tick, published>>

\* What a method does once its change is saved.
After(r) == IF r.m = "ban" /\ r.x \in Events THEN "find"
            ELSE IF r.m = "name" THEN "rebuild" ELSE "reply"

\* save writes a temporary file and renames it over the old one.
Save(c) ==
  /\ calls[c].pc = "saving"
  /\ disk' = mem
  /\ mu' = "free"
  /\ calls' = [calls EXCEPT ![c].pc = After(calls[c])]
  /\ UNCHANGED <<mem, prev, served, open, checked, stored, late, acked,
                 commits, ready, tick, published, used>>

\* A save that fails puts the old state back; the caller gets the error.
SaveFails(c) ==
  /\ "save" \in Faults /\ calls[c].pc = "saving"
  /\ mem' = prev
  /\ mu' = "free"
  /\ calls' = [calls EXCEPT ![c] = Idle]
  /\ UNCHANGED <<disk, prev, served, open, checked, stored, late, acked,
                 commits, ready, tick, published, used>>

\* Mutant: banevent answers without looking for the stored event.
DeleteBannedSkipped(c) ==
  /\ calls[c].pc = "find"
  /\ calls' = [calls EXCEPT ![c].pc = "reply"]
  /\ UNCHANGED <<mem, disk, mu, prev, served, open, checked, stored, late,
                 acked, commits, ready, tick, published, used>>

\* banevent looks the event up and deletes it, with the mutex free again.
DeleteBanned(c) ==
  /\ calls[c].pc = "find"
  /\ \/ /\ calls[c].x \in stored
        /\ stored' = stored \ {calls[c].x}
        /\ commits' = commits + 1
        /\ calls' = [calls EXCEPT ![c].pc = "reply"]
     \/ /\ calls[c].x \notin stored
        /\ calls' = [calls EXCEPT ![c].pc = "reply"]
        /\ UNCHANGED <<stored, commits>>
     \/ /\ "delete" \in Faults
        /\ calls' = [calls EXCEPT ![c] = Idle]
        /\ UNCHANGED <<stored, commits>>
  /\ UNCHANGED <<mem, disk, mu, prev, served, open, checked, late, acked,
                 ready, tick, published, used>>

\* buildNip11 reads the state under the mutex ...
ReadNip11(c) ==
  /\ calls[c].pc = "rebuild" /\ mu = "free"
  /\ calls' = [calls EXCEPT ![c].pc = "swap", ![c].md = mem.name]
  /\ UNCHANGED <<mem, disk, mu, prev, served, open, checked, stored, late,
                 acked, commits, ready, tick, published, used>>

\* ... and stores the handler it built after releasing it.
SwapNip11(c) ==
  /\ calls[c].pc = "swap"
  /\ served' = calls[c].md
  /\ calls' = [calls EXCEPT ![c].pc = "reply"]
  /\ UNCHANGED <<mem, disk, mu, prev, open, checked, stored, late, acked,
                 commits, ready, tick, published, used>>

Reply(c) ==
  /\ calls[c].pc = "reply"
  /\ acked' = IF calls[c].m = "ban" /\ calls[c].sure THEN acked \cup {calls[c].x} ELSE acked
  /\ calls' = [calls EXCEPT ![c] = Idle]
  /\ UNCHANGED <<mem, disk, mu, prev, served, open, checked, stored, late,
                 commits, ready, tick, published, used>>
----------------------------------------------------------------------------
(* Readers *)

\* ipGate lets an address in, or not, when it connects.
Connect(a) ==
  /\ mu = "free" /\ a \notin open /\ a \notin mem.bans
  /\ open' = open \cup {a}
  /\ UNCHANGED <<mem, disk, mu, prev, calls, served, checked, stored, late,
                 acked, commits, ready, tick, published, used>>

Check(e) ==
  /\ mu = "free" /\ open # {} /\ e \notin checked \cup stored
  /\ used.stores < MaxStores
  /\ eventPolicy(mem, e)
  /\ checked' = checked \cup {e}
  /\ used' = [used EXCEPT !.stores = @ + 1]
  /\ UNCHANGED <<mem, disk, mu, prev, calls, served, open, stored, late, acked,
                 commits, ready, tick, published>>

Store(e) ==
  /\ e \in checked
  /\ checked' = checked \ {e}
  /\ stored' = stored \cup {e}
  /\ late' = IF e \in mem.bans THEN late \cup {e} ELSE late \ {e}
  /\ commits' = commits + 1
  /\ UNCHANGED <<mem, disk, mu, prev, calls, served, open, acked, ready, tick,
                 published, used>>

\* The store finishes counting what an older version stored.
CountsReady ==
  /\ ~ready /\ ready' = TRUE
  /\ UNCHANGED <<mem, disk, mu, prev, calls, served, open, checked, stored,
                 late, acked, commits, tick, published, used>>

\* Mutant: only a commit makes the publisher look again.
UnchangedCommits == tick.ticked /\ commits = tick.commits

\* tick has nothing to do when neither the store nor the document changed.
Unchanged == tick.ticked /\ commits = tick.commits /\ mem.name = tick.name

\* One tick that publishes: the event is stored only when it differs, and
\* storing it is a commit the next tick sees.
Tick ==
  /\ mu = "free" /\ ready /\ ~Unchanged
  /\ LET new == [name |-> mem.name, rules |-> Rules(mem)]
     IN  /\ published' = new
         /\ commits' = IF new = published THEN commits ELSE commits + 1
         /\ tick' = [ticked |-> TRUE, commits |-> commits, name |-> mem.name]
  /\ UNCHANGED <<mem, disk, mu, prev, calls, served, open, checked, stored,
                 late, acked, ready, used>>

\* The relay dies and is started again on the same files.
Restart ==
  /\ used.crashes < MaxCrashes
  /\ mem' = disk /\ mu' = "free" /\ prev' = disk
  /\ calls' = [c \in Callers |-> Idle]
  /\ served' = disk.name
  /\ open' = {} /\ checked' = {}
  /\ tick' = [tick EXCEPT !.ticked = FALSE]
  /\ used' = [used EXCEPT !.crashes = @ + 1]
  /\ UNCHANGED <<disk, stored, late, acked, commits, ready, published>>

Next ==
  \/ \E c \in Callers : \/ \E r \in Requests : Begin(c, r)
                        \/ Save(c) \/ SaveFails(c) \/ DeleteBanned(c)
                        \/ ReadNip11(c) \/ SwapNip11(c) \/ Reply(c)
  \/ \E a \in Addrs : Connect(a)
  \/ \E e \in Events : Check(e) \/ Store(e)
  \/ CountsReady \/ Tick \/ Restart

Spec == Init /\ [][Next]_vars

\* The handlers run to their end, and the publisher's ticker keeps ticking.
Fairness ==
  /\ \A c \in Callers : /\ WF_vars(Save(c)) /\ WF_vars(DeleteBanned(c))
                        /\ WF_vars(ReadNip11(c)) /\ WF_vars(SwapNip11(c))
                        /\ WF_vars(Reply(c))
  /\ \A e \in Events : WF_vars(Store(e))
  /\ WF_vars(CountsReady) /\ WF_vars(Tick)

FairSpec == Spec /\ Fairness
----------------------------------------------------------------------------
State == [bans : SUBSET Targets, allowed : SUBSET Kinds,
          disallowed : SUBSET Kinds, name : Names \cup {Name0}]

Call == [pc : {"idle", "saving", "find", "rebuild", "swap", "reply"},
         m : {"none", "ban", "unban", "allowkind", "disallowkind", "name"},
         x : Targets \cup Kinds \cup Names \cup {Name0},
         md : Names \cup {Name0}, sure : BOOLEAN]

TypeOK ==
  /\ mem \in State /\ disk \in State /\ prev \in State
  /\ mu \in Callers \cup {"free"}
  /\ calls \in [Callers -> Call]
  /\ served \in Names \cup {Name0} /\ open \subseteq Addrs
  /\ checked \subseteq Events /\ stored \subseteq Events
  /\ late \subseteq Events /\ acked \subseteq Targets

\* A ban an admin was told is in place stays in place, through failed saves
\* of other changes and through restarts, until somebody lifts it: update
\* saves a change before it answers and puts the old state back when the save
\* fails, and loadModeration reads back what was saved.
AckedBansHold == mu = "free" => acked \subseteq mem.bans \cap disk.bans

\* Once banevent has answered, the event is not in the store, unless it was
\* past the policy check before the ban and stored after the deletion.
BannedEventsGone == (acked \cap stored) \subseteq late

NamePublished == published.name = mem.name

\* The publisher's stats event ends up carrying the relay's name: tick
\* compares the NIP-11 document with the one it published last, so a rename
\* is published although nothing was stored.
NameIsPublished == <>[]NamePublished

\* The NIP-11 document being served is the current one whenever no request
\* is in progress.
\* It fails with two renames at once: the later swap may carry the earlier read.
Nip11Current == (\A c \in Callers : calls[c].pc = "idle") => served = mem.name

\* The stats event ends up carrying the kind rules in force.
\* It fails: tick compares the commits and the NIP-11 document, and a change of
\* rules moves neither.
RulesArePublished == <>[](published.rules = Rules(mem))
=============================================================================
