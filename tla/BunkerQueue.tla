----------------------------- MODULE BunkerQueue -----------------------------
(***************************************************************************)
(* The bunker's queue of requests waiting for a human (cli/bunker/queue.go).*)
(*                                                                         *)
(* Every NIP-46 request the policy cannot settle calls Queue.Add, which    *)
(* blocks until a human (Resolve) or the expiry sweep (sweepExpired)       *)
(* decides it.  The lock q.mu protects the map and the resolved flags      *)
(* only: the callbacks, the result and close(done) happen after the unlock,*)
(* so each of Add, Resolve and sweepExpired is several steps here, one per *)
(* locked section or externally visible effect.                            *)
(*                                                                         *)
(* An entry of the map is named by the Add call that created it, which     *)
(* gives entries an identity that outlives their place in byID: one request*)
(* id may have several entries over time.                                  *)
(***************************************************************************)
EXTENDS Naturals, FiniteSets, FiniteSetTheorems, TLAPS

CONSTANTS
    IDs,        \* NIP-46 request ids, the map's keys
    Calls,      \* invocations of Add; also the names of the entries they create
    Resolvers,  \* invocations of Resolve by attached clients
    MaxPending, \* q.max
    TTL,        \* q.ttl
    MaxTime,    \* bound on the clock
    None        \* no entry, no result

Verdicts == {"allow", "deny"}

Resolution == [verdict : Verdicts, remembered : BOOLEAN, expired : BOOLEAN]

ASSUME NoneAssumption == None \notin Calls /\ None \notin IDs /\ None \notin Resolution

ASSUME BoundsAssumption ==
    /\ MaxPending \in Nat
    /\ TTL \in Nat \ {0}
    /\ MaxTime \in Nat

VARIABLES
    now,        \* q.now()
    byID,       \* q.byID: the entry filed under each id, or None
    reqID,      \* the id each Add call carries (Pending.ID)
    expiresAt,  \* Pending.ExpiresAt of the entry each call created
    resolved,   \* entry.resolved
    result,     \* entry.result
    closes,     \* how many times close(entry.done) ran
    delivered,  \* how many times onResolved ran for the entry
    addPC,      \* where each Add call is
    waitsOn,    \* the entry whose done channel the call blocks on
    answer,     \* what the call returned
    resPC,      \* where each Resolve call is
    resTarget,  \* the entry it decides
    resVerdict, \* the resolution it carries
    sweepPC,    \* where the sweep goroutine is: "idle", "locking", "draining"
    sweepNow,   \* the clock it read before taking the lock
    expired,    \* the entries it marked and has not settled yet
    settling    \* the entry it has recorded and not closed yet

addVars == <<reqID, addPC, waitsOn, answer>>
resVars == <<resPC, resTarget, resVerdict>>
sweepVars == <<sweepPC, sweepNow, expired, settling>>
entryVars == <<expiresAt, resolved, result, closes, delivered>>
vars == <<now, byID, addVars, resVars, sweepVars, entryVars>>

ExpiredDeny == [verdict |-> "deny", remembered |-> FALSE, expired |-> TRUE]

Human(v, r) == [verdict |-> v, remembered |-> r, expired |-> FALSE]

\* The entries Get and List show and Add counts: filed and not decided.
Pending(e) == e # None /\ ~resolved[e]

PendingIDs == {id \in IDs : Pending(byID[id])}

-----------------------------------------------------------------------------
Init ==
    /\ now = 0
    /\ byID = [id \in IDs |-> None]
    /\ reqID = [c \in Calls |-> None]
    /\ expiresAt = [c \in Calls |-> 0]
    /\ resolved = [c \in Calls |-> FALSE]
    /\ result = [c \in Calls |-> None]
    /\ closes = [c \in Calls |-> 0]
    /\ delivered = [c \in Calls |-> 0]
    /\ addPC = [c \in Calls |-> "new"]
    /\ waitsOn = [c \in Calls |-> None]
    /\ answer = [c \in Calls |-> None]
    /\ resPC = [r \in Resolvers |-> "new"]
    /\ resTarget = [r \in Resolvers |-> None]
    /\ resVerdict = [r \in Resolvers |-> None]
    /\ sweepPC = "idle"
    /\ sweepNow = 0
    /\ expired = {}
    /\ settling = None

-----------------------------------------------------------------------------
\* Add, locked section, the id is filed: wait on the entry that is there,
\* decided or not.
AddDuplicate(c, id) ==
    /\ addPC[c] = "new"
    /\ byID[id] # None
    /\ reqID' = [reqID EXCEPT ![c] = id]
    /\ addPC' = [addPC EXCEPT ![c] = "waiting"]
    /\ waitsOn' = [waitsOn EXCEPT ![c] = byID[id]]
    /\ UNCHANGED <<now, byID, answer, resVars, sweepVars, entryVars>>

\* Add, locked section, at capacity: ErrQueueFull.
AddFull(c, id) ==
    /\ addPC[c] = "new"
    /\ byID[id] = None
    /\ Cardinality(PendingIDs) >= MaxPending
    /\ reqID' = [reqID EXCEPT ![c] = id]
    /\ addPC' = [addPC EXCEPT ![c] = "full"]
    /\ UNCHANGED <<now, byID, waitsOn, answer, resVars, sweepVars, entryVars>>


\* Mutant: room for one more than q.max.
AddNewOverCapacity(c, id) ==
    /\ addPC[c] = "new"
    /\ byID[id] = None
    /\ Cardinality(PendingIDs) <= MaxPending
    /\ now + TTL <= MaxTime
    /\ byID' = [byID EXCEPT ![id] = c]
    /\ expiresAt' = [expiresAt EXCEPT ![c] = now + TTL]
    /\ reqID' = [reqID EXCEPT ![c] = id]
    /\ addPC' = [addPC EXCEPT ![c] = "added"]
    /\ waitsOn' = [waitsOn EXCEPT ![c] = c]
    /\ UNCHANGED <<now, answer, resVars, sweepVars, resolved, result, closes, delivered>>

\* Mutant: the id is not looked up before it is filed.
AddNewBlind(c, id) ==
    /\ addPC[c] = "new"
    /\ Cardinality(PendingIDs \ {id}) < MaxPending
    /\ now + TTL <= MaxTime
    /\ byID' = [byID EXCEPT ![id] = c]
    /\ expiresAt' = [expiresAt EXCEPT ![c] = now + TTL]
    /\ reqID' = [reqID EXCEPT ![c] = id]
    /\ addPC' = [addPC EXCEPT ![c] = "added"]
    /\ waitsOn' = [waitsOn EXCEPT ![c] = c]
    /\ UNCHANGED <<now, answer, resVars, sweepVars, resolved, result, closes, delivered>>

\* Mutant: the deadline is ttl before, not after, the request.
AddNewPastDeadline(c, id) ==
    /\ addPC[c] = "new"
    /\ byID[id] = None
    /\ Cardinality(PendingIDs) < MaxPending
    /\ now + TTL <= MaxTime
    /\ byID' = [byID EXCEPT ![id] = c]
    /\ expiresAt' = [expiresAt EXCEPT ![c] = now - TTL]
    /\ reqID' = [reqID EXCEPT ![c] = id]
    /\ addPC' = [addPC EXCEPT ![c] = "added"]
    /\ waitsOn' = [waitsOn EXCEPT ![c] = c]
    /\ UNCHANGED <<now, answer, resVars, sweepVars, resolved, result, closes, delivered>>

\* Add, locked section, a new entry.  The last guard is the clock's bound.
AddNew(c, id) ==
    /\ addPC[c] = "new"
    /\ byID[id] = None
    /\ Cardinality(PendingIDs) < MaxPending
    /\ now + TTL <= MaxTime
    /\ byID' = [byID EXCEPT ![id] = c]
    /\ expiresAt' = [expiresAt EXCEPT ![c] = now + TTL]
    /\ reqID' = [reqID EXCEPT ![c] = id]
    /\ addPC' = [addPC EXCEPT ![c] = "added"]
    /\ waitsOn' = [waitsOn EXCEPT ![c] = c]
    /\ UNCHANGED <<now, answer, resVars, sweepVars, resolved, result, closes, delivered>>

\* Add, after the unlock: the onAdded callback, then block on done.
AddNotify(c) ==
    /\ addPC[c] = "added"
    /\ addPC' = [addPC EXCEPT ![c] = "waiting"]
    /\ UNCHANGED <<now, byID, reqID, waitsOn, answer, resVars, sweepVars, entryVars>>


\* Mutant: a resent request does not wait for the channel, only for a result.
AddReturnNoWait(c) ==
    /\ addPC[c] = "waiting"
    /\ result[waitsOn[c]] # None
    /\ addPC' = [addPC EXCEPT ![c] = "done"]
    /\ answer' = [answer EXCEPT ![c] = result[waitsOn[c]]]
    /\ UNCHANGED <<now, byID, reqID, waitsOn, resVars, sweepVars, entryVars>>

\* Add returns the result once done is closed.
AddReturn(c) ==
    /\ addPC[c] = "waiting"
    /\ closes[waitsOn[c]] > 0
    /\ addPC' = [addPC EXCEPT ![c] = "done"]
    /\ answer' = [answer EXCEPT ![c] = result[waitsOn[c]]]
    /\ UNCHANGED <<now, byID, reqID, waitsOn, resVars, sweepVars, entryVars>>

-----------------------------------------------------------------------------

\* Mutant: the resolved flag is not consulted.
ResolveClaimTwice(r, id, res) ==
    /\ resPC[r] = "new"
    /\ byID[id] # None
    /\ resolved' = [resolved EXCEPT ![byID[id]] = TRUE]
    /\ resPC' = [resPC EXCEPT ![r] = "claimed"]
    /\ resTarget' = [resTarget EXCEPT ![r] = byID[id]]
    /\ resVerdict' = [resVerdict EXCEPT ![r] = res]
    /\ UNCHANGED <<now, byID, addVars, sweepVars, expiresAt, result, closes, delivered>>

\* Mutant: the waiters are woken under the lock, before the callback.
ResolveClaimWakes(r, id, res) ==
    /\ resPC[r] = "new"
    /\ Pending(byID[id])
    /\ resolved' = [resolved EXCEPT ![byID[id]] = TRUE]
    /\ closes' = [closes EXCEPT ![byID[id]] = @ + 1]
    /\ resPC' = [resPC EXCEPT ![r] = "claimed"]
    /\ resTarget' = [resTarget EXCEPT ![r] = byID[id]]
    /\ resVerdict' = [resVerdict EXCEPT ![r] = res]
    /\ UNCHANGED <<now, byID, addVars, sweepVars, expiresAt, result, delivered>>

\* Resolve, locked section: mark the entry decided.
ResolveClaim(r, id, res) ==
    /\ resPC[r] = "new"
    /\ Pending(byID[id])
    /\ resolved' = [resolved EXCEPT ![byID[id]] = TRUE]
    /\ resPC' = [resPC EXCEPT ![r] = "claimed"]
    /\ resTarget' = [resTarget EXCEPT ![r] = byID[id]]
    /\ resVerdict' = [resVerdict EXCEPT ![r] = res]
    /\ UNCHANGED <<now, byID, addVars, sweepVars, expiresAt, result, closes, delivered>>

\* Resolve, locked section: not filed or already decided, ErrNotPending.
ResolveLate(r, id) ==
    /\ resPC[r] = "new"
    /\ ~Pending(byID[id])
    /\ resPC' = [resPC EXCEPT ![r] = "late"]
    /\ UNCHANGED <<now, byID, addVars, resTarget, resVerdict, sweepVars, entryVars>>

\* Resolve, after the unlock: write the result, run onResolved.
ResolveRecord(r) ==
    /\ resPC[r] = "claimed"
    /\ resPC' = [resPC EXCEPT ![r] = "recorded"]
    /\ result' = [result EXCEPT ![resTarget[r]] = resVerdict[r]]
    /\ delivered' = [delivered EXCEPT ![resTarget[r]] = @ + 1]
    /\ UNCHANGED <<now, byID, addVars, resTarget, resVerdict, sweepVars,
                   expiresAt, resolved, closes>>


\* Mutant: Resolve returns without closing done.
ResolveCloseForgotten(r) ==
    /\ resPC[r] = "recorded"
    /\ resPC' = [resPC EXCEPT ![r] = "ok"]
    /\ UNCHANGED <<now, byID, addVars, resTarget, resVerdict, sweepVars, entryVars>>

\* Resolve: close(done), return nil.
ResolveClose(r) ==
    /\ resPC[r] = "recorded"
    /\ resPC' = [resPC EXCEPT ![r] = "ok"]
    /\ closes' = [closes EXCEPT ![resTarget[r]] = @ + 1]
    /\ UNCHANGED <<now, byID, addVars, resTarget, resVerdict, sweepVars,
                   expiresAt, resolved, result, delivered>>

-----------------------------------------------------------------------------
\* A tick of Run: sweepExpired reads the clock before it takes the lock.
SweepStart ==
    /\ sweepPC = "idle"
    /\ sweepPC' = "locking"
    /\ sweepNow' = now
    /\ UNCHANGED <<now, byID, addVars, resVars, expired, settling, entryVars>>


\* Mutant: the sweep settles decided entries again.
LapsedResolvedToo(id) == byID[id] # None /\ expiresAt[byID[id]] <= sweepNow

\* Mutant: one tick early.
LapsedEarly(id) == Pending(byID[id]) /\ expiresAt[byID[id]] <= sweepNow + 1

Lapsed(id) == Pending(byID[id]) /\ expiresAt[byID[id]] <= sweepNow


\* Mutant: what has lapsed is dropped from the map without being settled.
SweepLockDrops ==
    /\ sweepPC = "locking"
    /\ sweepPC' = "draining"
    /\ expired' = {}
    /\ byID' = [id \in IDs |-> IF Pending(byID[id]) /\ ~Lapsed(id) THEN byID[id] ELSE None]
    /\ UNCHANGED <<now, addVars, resVars, sweepNow, settling, entryVars>>

\* sweepExpired, locked section: prune what an earlier pass or Resolve
\* decided, mark what has lapsed.
SweepLock ==
    /\ sweepPC = "locking"
    /\ sweepPC' = "draining"
    /\ expired' = {byID[id] : id \in {i \in IDs : Lapsed(i)}}
    /\ resolved' = [c \in Calls |-> resolved[c] \/ c \in expired']
    /\ byID' = [id \in IDs |-> IF Pending(byID[id]) THEN byID[id] ELSE None]
    /\ UNCHANGED <<now, addVars, resVars, sweepNow, settling,
                   expiresAt, result, closes, delivered>>

\* After the unlock, entry by entry: result and onResolved ...
SweepRecord(e) ==
    /\ sweepPC = "draining"
    /\ settling = None
    /\ e \in expired
    /\ settling' = e
    /\ expired' = expired \ {e}
    /\ result' = [result EXCEPT ![e] = ExpiredDeny]
    /\ delivered' = [delivered EXCEPT ![e] = @ + 1]
    /\ UNCHANGED <<now, byID, addVars, resVars, sweepPC, sweepNow,
                   expiresAt, resolved, closes>>

\* ... then close(done).
SweepClose ==
    /\ settling # None
    /\ settling' = None
    /\ closes' = [closes EXCEPT ![settling] = @ + 1]
    /\ UNCHANGED <<now, byID, addVars, resVars, sweepPC, sweepNow, expired,
                   expiresAt, resolved, result, delivered>>

SweepDone ==
    /\ sweepPC = "draining"
    /\ expired = {}
    /\ settling = None
    /\ sweepPC' = "idle"
    /\ UNCHANGED <<now, byID, addVars, resVars, sweepNow, expired, settling, entryVars>>

Tick ==
    /\ now < MaxTime
    /\ now' = now + 1
    /\ UNCHANGED <<byID, addVars, resVars, sweepVars, entryVars>>

-----------------------------------------------------------------------------
Next ==
    \/ \E c \in Calls, id \in IDs :
          AddDuplicate(c, id) \/ AddFull(c, id) \/ AddNew(c, id)
    \/ \E c \in Calls : AddNotify(c) \/ AddReturn(c)
    \/ \E r \in Resolvers, id \in IDs :
          \/ \E v \in Verdicts, m \in BOOLEAN : ResolveClaim(r, id, Human(v, m))
          \/ ResolveLate(r, id)
    \/ \E r \in Resolvers : ResolveRecord(r) \/ ResolveClose(r)
    \/ SweepStart \/ SweepLock \/ (\E e \in Calls : SweepRecord(e))
    \/ SweepClose \/ SweepDone
    \/ Tick

Spec == Init /\ [][Next]_vars

\* The goroutines that have started run on: a running Add or Resolve, the
\* sweep's ticker, and time.  Nobody owes the queue a human decision.
Fairness ==
    /\ \A c \in Calls : WF_vars(AddNotify(c)) /\ WF_vars(AddReturn(c))
    /\ \A r \in Resolvers : WF_vars(ResolveRecord(r)) /\ WF_vars(ResolveClose(r))
    /\ WF_vars(SweepStart) /\ WF_vars(SweepLock)
    /\ \A e \in Calls : WF_vars(SweepRecord(e))
    /\ WF_vars(SweepClose) /\ WF_vars(SweepDone)
    /\ WF_vars(Tick)

FairSpec == Spec /\ Fairness

-----------------------------------------------------------------------------
\* The queue's maps, the entries' channels and results, and the positions of
\* the goroutines in Add, Resolve and the sweep keep their types.
TypeOK ==
    /\ now \in Nat
    /\ byID \in [IDs -> Calls \cup {None}]
    /\ reqID \in [Calls -> IDs \cup {None}]
    /\ expiresAt \in [Calls -> Nat]
    /\ resolved \in [Calls -> BOOLEAN]
    /\ result \in [Calls -> Resolution \cup {None}]
    /\ closes \in [Calls -> Nat]
    /\ delivered \in [Calls -> Nat]
    /\ addPC \in [Calls -> {"new", "added", "waiting", "done", "full"}]
    /\ waitsOn \in [Calls -> Calls \cup {None}]
    /\ answer \in [Calls -> Resolution \cup {None}]
    /\ resPC \in [Resolvers -> {"new", "claimed", "recorded", "ok", "late"}]
    /\ resTarget \in [Resolvers -> Calls \cup {None}]
    /\ resVerdict \in [Resolvers -> Resolution \cup {None}]
    /\ sweepPC \in {"idle", "locking", "draining"}
    /\ sweepNow \in Nat
    /\ expired \in SUBSET Calls
    /\ settling \in Calls \cup {None}

\* Queue.max bounds the requests that wait for a decision, whatever
\* duplicates, decided-but-filed entries and sweeps are about.
CapacityRespected == Cardinality(PendingIDs) <= MaxPending

\* close(entry.done) runs at most once for an entry (a second close panics
\* the daemon), and so does onResolved, although humans on several clients
\* and the sweep race to decide it.
SettledOnce == \A e \in Calls : closes[e] <= 1 /\ delivered[e] <= 1

\* Whoever returns from Add finds the request already recorded in the
\* history by onResolved, and returns what onResolved was told.
RecordedBeforeAnswer ==
    \A c \in Calls : addPC[c] = "done" =>
        /\ delivered[waitsOn[c]] = 1
        /\ answer[c] = result[waitsOn[c]]
        /\ answer[c] # None

\* A Resolve call that reported success decided its entry alone: every Add
\* call that waited on that entry returns exactly that decision.
AnswerIsTheDecision ==
    \A r \in Resolvers, c \in Calls :
        resPC[r] = "ok" /\ addPC[c] = "done" /\ waitsOn[c] = resTarget[r]
            => answer[c] = resVerdict[r]

\* A Resolve or the sweep is about to close the entry.
BeingDecided(e) ==
    \/ \E r \in Resolvers : resPC[r] \in {"claimed", "recorded"} /\ resTarget[r] = e
    \/ e \in expired
    \/ e = settling

\* No Add call waits for an entry that nobody will close: the entry is still
\* filed and undecided (so the sweep will reach it), or a Resolve or the
\* sweep is on its way to close it.
NoOrphanWaiter ==
    \A c \in Calls : addPC[c] \in {"added", "waiting"} =>
        LET e == waitsOn[c] IN
        \/ closes[e] > 0
        \/ Pending(e) /\ byID[reqID[c]] = e
        \/ resolved[e] /\ BeingDecided(e)

\* One id never has two undecided entries, so a human is never shown two
\* cards for the same request.
OneCardPerID ==
    \A e, f \in Calls :
        /\ waitsOn[e] = e /\ waitsOn[f] = f
        /\ reqID[e] = reqID[f]
        /\ ~resolved[e] /\ ~resolved[f]
        => e = f

\* An undecided request is not denied before its time: what the sweep
\* settles had lapsed.
ExpiryNotEarly ==
    \A e \in Calls : result[e] = ExpiredDeny => expiresAt[e] <= now

\* A decision is final: a written result never changes, and an answered
\* call keeps its answer.
DecisionFinal ==
    [][\A e \in Calls : /\ result[e] # None => result'[e] = result[e]
                        /\ answer[e] # None => answer'[e] = answer[e]]_vars

\* The refinement mapping: a decision is taken when done is closed.
Decided == [e \in Calls |-> IF closes[e] > 0 THEN result[e] ELSE None]

Decisions == INSTANCE BunkerDecisions
    WITH joined <- waitsOn, about <- reqID, decision <- Decided, returned <- answer

\* The queue implements one-shot decisions: a decision is taken when done is
\* closed, and a caller returns the decision it joined (BunkerDecisions).
ImplementsDecisions == Decisions!Spec

\* Every blocked Add call returns, with or without a human.
EveryCallReturns ==
    \A c \in Calls : addPC[c] \in {"added", "waiting"} ~> addPC[c] = "done"

\* What Add's comment says of resent requests: while one call for an id is
\* still blocked, another call for that id waits on the same entry instead
\* of opening a second decision.
DuplicatesShareDecision ==
    \A c, d \in Calls :
        /\ addPC[c] \in {"added", "waiting"} /\ addPC[d] \in {"added", "waiting"}
        /\ reqID[c] = reqID[d]
        /\ closes[waitsOn[c]] = 0 /\ closes[waitsOn[d]] = 0
        => waitsOn[c] = waitsOn[d]

-----------------------------------------------------------------------------
(***************************************************************************)
(* Proofs about BunkerQueue, for any sets of ids, Add calls and clients,   *)
(* any capacity and any time-to-live.                                      *)
(*                                                                         *)
(* None of the safety invariants is inductive by itself: that close(done)  *)
(* runs once needs to know who, of the clients and the sweep, owns a       *)
(* decided entry and how far it got.  QueueInv says so.                    *)
(***************************************************************************)

\* A call that never got past the lock, or was turned away, has no entry.
NoEntryYet ==
    \A c \in Calls :
        /\ addPC[c] = "new" => reqID[c] = None
        /\ addPC[c] # "new" => reqID[c] \in IDs
        /\ waitsOn[c] = None <=> addPC[c] \in {"new", "full"}
        /\ waitsOn[c] # c => ~resolved[c]

\* What is filed under an id is an entry about that id, and what a call waits
\* on is an entry about its own id.
FiledWell ==
    /\ \A id \in IDs : byID[id] # None =>
          waitsOn[byID[id]] = byID[id] /\ reqID[byID[id]] = id
    /\ \A c \in Calls : waitsOn[c] # None =>
          waitsOn[waitsOn[c]] = waitsOn[c] /\ reqID[waitsOn[c]] = reqID[c]

\* An entry leaves the map only after it is decided.
UndecidedIsFiled ==
    \A e \in Calls : waitsOn[e] = e /\ ~resolved[e] => byID[reqID[e]] = e

Untouched(e) == delivered[e] = 0 /\ closes[e] = 0 /\ result[e] = None

\* Whoever marked an entry resolved owns it alone, and the entry's result,
\* callback and channel are where the owner's program counter says.
ClientOwns ==
    \A r \in Resolvers : LET e == resTarget[r] IN
        /\ resPC[r] \in {"claimed", "recorded", "ok"} =>
              /\ e \in Calls /\ resolved[e] /\ e \notin expired /\ e # settling
              /\ resVerdict[r] \in Resolution /\ ~resVerdict[r].expired
              /\ \A s \in Resolvers :
                    resPC[s] \in {"claimed", "recorded", "ok"} /\ resTarget[s] = e => s = r
        /\ resPC[r] = "claimed" => Untouched(e)
        /\ resPC[r] = "recorded" =>
              delivered[e] = 1 /\ closes[e] = 0 /\ result[e] = resVerdict[r]
        /\ resPC[r] = "ok" =>
              delivered[e] = 1 /\ closes[e] = 1 /\ result[e] = resVerdict[r]

SweepOwns ==
    /\ sweepNow <= now
    /\ sweepPC # "draining" => expired = {} /\ settling = None
    /\ \A e \in expired :
          resolved[e] /\ Untouched(e) /\ e # settling /\ expiresAt[e] <= sweepNow
    /\ settling # None =>
          /\ resolved[settling] /\ delivered[settling] = 1 /\ closes[settling] = 0
          /\ result[settling] = ExpiredDeny

EntryState ==
    \A e \in Calls :
        /\ ~resolved[e] => Untouched(e)
        /\ resolved[e] => closes[e] = 1 \/ BeingDecided(e)
        /\ closes[e] <= delivered[e] /\ delivered[e] <= 1
        /\ delivered[e] = 1 => result[e] # None
        /\ result[e] # None => delivered[e] = 1
        /\ result[e] = ExpiredDeny => expiresAt[e] <= sweepNow

Answered ==
    \A c \in Calls :
        /\ addPC[c] # "done" => answer[c] = None
        /\ addPC[c] = "done" => closes[waitsOn[c]] = 1 /\ answer[c] = result[waitsOn[c]]

QueueInv ==
    /\ TypeOK
    /\ NoEntryYet
    /\ FiledWell
    /\ UndecidedIsFiled
    /\ ClientOwns
    /\ SweepOwns
    /\ EntryState
    /\ Answered


-----------------------------------------------------------------------------
\* The resolutions written by the sweep and by humans are resolutions, and
\* only the sweep's is marked expired.
LEMMA ResolutionFacts ==
    /\ ExpiredDeny \in Resolution /\ ExpiredDeny # None /\ ExpiredDeny.expired
    /\ \A v \in Verdicts, m \in BOOLEAN :
          Human(v, m) \in Resolution /\ ~Human(v, m).expired
<1>1. ExpiredDeny \in Resolution
  BY DEF ExpiredDeny, Resolution, Verdicts
<1>2. ExpiredDeny # None
  BY <1>1, NoneAssumption
<1>3. ExpiredDeny.expired
  BY DEF ExpiredDeny
<1>4. ASSUME NEW v \in Verdicts, NEW m \in BOOLEAN
      PROVE  Human(v, m) \in Resolution /\ ~Human(v, m).expired
  BY DEF Human, Resolution, Verdicts
<1>. QED
  BY <1>1, <1>2, <1>3, <1>4

\* A call that joins the entry already filed under its id (Add's existing
\* branch) preserves QueueInv.
LEMMA AddDuplicateStep ==
    ASSUME QueueInv, NEW c \in Calls, NEW id \in IDs, AddDuplicate(c, id)
    PROVE  QueueInv'
<1>. USE NoneAssumption, BoundsAssumption DEF QueueInv, AddDuplicate, addVars, resVars, sweepVars, entryVars
<1>1. TypeOK'
  BY DEF TypeOK, Resolution, Verdicts
<1>2. NoEntryYet'
  BY DEF TypeOK, NoEntryYet, FiledWell, UndecidedIsFiled
<1>3. FiledWell'
  BY DEF TypeOK, NoEntryYet, FiledWell, UndecidedIsFiled
<1>4. UndecidedIsFiled'
  BY DEF TypeOK, NoEntryYet, FiledWell, UndecidedIsFiled
<1>5. ClientOwns'
  BY DEF TypeOK, NoEntryYet, FiledWell, ClientOwns, SweepOwns, EntryState, Untouched, Resolution
<1>6. SweepOwns'
  BY DEF TypeOK, NoEntryYet, FiledWell, ClientOwns, SweepOwns, EntryState, Untouched, ExpiredDeny
<1>7. EntryState'
  BY DEF TypeOK, NoEntryYet, FiledWell, ClientOwns, SweepOwns, EntryState, Untouched, BeingDecided, ExpiredDeny, Resolution
<1>8. Answered'
  BY DEF TypeOK, NoEntryYet, FiledWell, ClientOwns, SweepOwns, EntryState, Untouched, Answered
<1>. QED
  BY <1>1, <1>2, <1>3, <1>4, <1>5, <1>6, <1>7, <1>8

\* A call turned away by a full queue preserves QueueInv.
LEMMA AddFullStep ==
    ASSUME QueueInv, NEW c \in Calls, NEW id \in IDs, AddFull(c, id)
    PROVE  QueueInv'
<1>. USE NoneAssumption, BoundsAssumption DEF QueueInv, AddFull, addVars, resVars, sweepVars, entryVars
<1>1. TypeOK'
  BY DEF TypeOK, Resolution, Verdicts
<1>2. NoEntryYet'
  BY DEF TypeOK, NoEntryYet, FiledWell, UndecidedIsFiled
<1>3. FiledWell'
  BY DEF TypeOK, NoEntryYet, FiledWell, UndecidedIsFiled
<1>4. UndecidedIsFiled'
  BY DEF TypeOK, NoEntryYet, FiledWell, UndecidedIsFiled
<1>5. ClientOwns'
  BY DEF TypeOK, NoEntryYet, FiledWell, ClientOwns, SweepOwns, EntryState, Untouched, Resolution
<1>6. SweepOwns'
  BY DEF TypeOK, NoEntryYet, FiledWell, ClientOwns, SweepOwns, EntryState, Untouched, ExpiredDeny
<1>7. EntryState'
  BY DEF TypeOK, NoEntryYet, FiledWell, ClientOwns, SweepOwns, EntryState, Untouched, BeingDecided, ExpiredDeny, Resolution
<1>8. Answered'
  BY DEF TypeOK, NoEntryYet, FiledWell, ClientOwns, SweepOwns, EntryState, Untouched, Answered
<1>. QED
  BY <1>1, <1>2, <1>3, <1>4, <1>5, <1>6, <1>7, <1>8

\* A call that files a new entry preserves QueueInv.
LEMMA AddNewStep ==
    ASSUME QueueInv, NEW c \in Calls, NEW id \in IDs, AddNew(c, id)
    PROVE  QueueInv'
<1>. USE NoneAssumption, BoundsAssumption DEF QueueInv, AddNew, addVars, resVars, sweepVars, entryVars
<1>1. TypeOK'
  BY DEF TypeOK, Resolution, Verdicts
<1>2. NoEntryYet'
  BY DEF TypeOK, NoEntryYet, FiledWell, UndecidedIsFiled
<1>3. FiledWell'
  BY DEF TypeOK, NoEntryYet, FiledWell, UndecidedIsFiled
<1>4. UndecidedIsFiled'
  BY DEF TypeOK, NoEntryYet, FiledWell, UndecidedIsFiled
<1>5. ClientOwns'
  BY DEF TypeOK, NoEntryYet, FiledWell, ClientOwns, SweepOwns, EntryState, Untouched, Resolution
<1>6. SweepOwns'
  BY DEF TypeOK, NoEntryYet, FiledWell, ClientOwns, SweepOwns, EntryState, Untouched, ExpiredDeny
<1>7. EntryState'
  BY ResolutionFacts DEF TypeOK, NoEntryYet, ClientOwns, SweepOwns, EntryState, Untouched, BeingDecided
<1>8. Answered'
  BY DEF TypeOK, NoEntryYet, FiledWell, ClientOwns, SweepOwns, EntryState, Untouched, Answered
<1>. QED
  BY <1>1, <1>2, <1>3, <1>4, <1>5, <1>6, <1>7, <1>8

\* The notification Add sends after unlocking preserves QueueInv.
LEMMA AddNotifyStep ==
    ASSUME QueueInv, NEW c \in Calls, AddNotify(c)
    PROVE  QueueInv'
<1>. USE NoneAssumption, BoundsAssumption DEF QueueInv, AddNotify, addVars, resVars, sweepVars, entryVars
<1>1. TypeOK'
  BY DEF TypeOK, Resolution, Verdicts
<1>2. NoEntryYet'
  BY DEF TypeOK, NoEntryYet, FiledWell, UndecidedIsFiled
<1>3. FiledWell'
  BY DEF TypeOK, NoEntryYet, FiledWell, UndecidedIsFiled
<1>4. UndecidedIsFiled'
  BY DEF TypeOK, NoEntryYet, FiledWell, UndecidedIsFiled
<1>5. ClientOwns'
  BY DEF TypeOK, NoEntryYet, FiledWell, ClientOwns, SweepOwns, EntryState, Untouched, Resolution
<1>6. SweepOwns'
  BY DEF TypeOK, NoEntryYet, FiledWell, ClientOwns, SweepOwns, EntryState, Untouched, ExpiredDeny
<1>7. EntryState'
  BY DEF TypeOK, NoEntryYet, FiledWell, ClientOwns, SweepOwns, EntryState, Untouched, BeingDecided, ExpiredDeny, Resolution
<1>8. Answered'
  BY DEF TypeOK, NoEntryYet, FiledWell, ClientOwns, SweepOwns, EntryState, Untouched, Answered
<1>. QED
  BY <1>1, <1>2, <1>3, <1>4, <1>5, <1>6, <1>7, <1>8

\* A call that wakes on the closed channel and returns the result preserves
\* QueueInv.
LEMMA AddReturnStep ==
    ASSUME QueueInv, NEW c \in Calls, AddReturn(c)
    PROVE  QueueInv'
<1>. USE NoneAssumption, BoundsAssumption DEF QueueInv, AddReturn, addVars, resVars, sweepVars, entryVars
<1>1. TypeOK'
  BY DEF TypeOK, NoEntryYet
<1>2. NoEntryYet'
  BY DEF TypeOK, NoEntryYet, FiledWell, UndecidedIsFiled
<1>3. FiledWell'
  BY DEF TypeOK, NoEntryYet, FiledWell, UndecidedIsFiled
<1>4. UndecidedIsFiled'
  BY DEF TypeOK, NoEntryYet, FiledWell, UndecidedIsFiled
<1>5. ClientOwns'
  BY DEF TypeOK, NoEntryYet, FiledWell, ClientOwns, SweepOwns, EntryState, Untouched, Resolution
<1>6. SweepOwns'
  BY DEF TypeOK, NoEntryYet, FiledWell, ClientOwns, SweepOwns, EntryState, Untouched, ExpiredDeny
<1>7. EntryState'
  BY DEF TypeOK, NoEntryYet, FiledWell, ClientOwns, SweepOwns, EntryState, Untouched, BeingDecided, ExpiredDeny, Resolution
<1>8. Answered'
  BY DEF TypeOK, NoEntryYet, FiledWell, ClientOwns, SweepOwns, EntryState, Untouched, Answered
<1>. QED
  BY <1>1, <1>2, <1>3, <1>4, <1>5, <1>6, <1>7, <1>8

\* The locked part of Resolve, which claims the entry, preserves QueueInv.
LEMMA ResolveClaimStep ==
    ASSUME QueueInv, NEW r \in Resolvers, NEW id \in IDs, NEW v \in Verdicts, NEW m \in BOOLEAN, ResolveClaim(r, id, Human(v, m))
    PROVE  QueueInv'
<1>. USE NoneAssumption, BoundsAssumption DEF QueueInv, ResolveClaim, addVars, resVars, sweepVars, entryVars
<1>1. TypeOK'
  BY DEF TypeOK, Resolution, Verdicts, Pending, Human
<1>2. NoEntryYet'
  BY DEF TypeOK, NoEntryYet, FiledWell, UndecidedIsFiled, Pending, Human
<1>3. FiledWell'
  BY DEF TypeOK, NoEntryYet, FiledWell, UndecidedIsFiled, Pending, Human
<1>4. UndecidedIsFiled'
  BY DEF TypeOK, NoEntryYet, FiledWell, UndecidedIsFiled, Pending, Human
<1>5. ClientOwns'
  BY DEF TypeOK, NoEntryYet, FiledWell, ClientOwns, SweepOwns, EntryState, Untouched, Resolution, Pending, Human
<1>6. SweepOwns'
  BY DEF TypeOK, NoEntryYet, FiledWell, ClientOwns, SweepOwns, EntryState, Untouched, ExpiredDeny, Pending, Human
<1>7. EntryState'
  BY DEF TypeOK, NoEntryYet, FiledWell, ClientOwns, SweepOwns, EntryState, Untouched, BeingDecided, ExpiredDeny, Resolution, Pending, Human
<1>8. Answered'
  BY DEF TypeOK, NoEntryYet, FiledWell, ClientOwns, SweepOwns, EntryState, Untouched, Answered, Pending, Human
<1>. QED
  BY <1>1, <1>2, <1>3, <1>4, <1>5, <1>6, <1>7, <1>8

\* A Resolve that finds no undecided entry preserves QueueInv.
LEMMA ResolveLateStep ==
    ASSUME QueueInv, NEW r \in Resolvers, NEW id \in IDs, ResolveLate(r, id)
    PROVE  QueueInv'
<1>. USE NoneAssumption, BoundsAssumption DEF QueueInv, ResolveLate, addVars, resVars, sweepVars, entryVars
<1>1. TypeOK'
  BY DEF TypeOK, Resolution, Verdicts
<1>2. NoEntryYet'
  BY DEF TypeOK, NoEntryYet, FiledWell, UndecidedIsFiled
<1>3. FiledWell'
  BY DEF TypeOK, NoEntryYet, FiledWell, UndecidedIsFiled
<1>4. UndecidedIsFiled'
  BY DEF TypeOK, NoEntryYet, FiledWell, UndecidedIsFiled
<1>5. ClientOwns'
  BY DEF TypeOK, NoEntryYet, FiledWell, ClientOwns, SweepOwns, EntryState, Untouched, Resolution
<1>6. SweepOwns'
  BY DEF TypeOK, NoEntryYet, FiledWell, ClientOwns, SweepOwns, EntryState, Untouched, ExpiredDeny
<1>7. EntryState'
  BY DEF TypeOK, NoEntryYet, FiledWell, ClientOwns, SweepOwns, EntryState, Untouched, BeingDecided, ExpiredDeny, Resolution
<1>8. Answered'
  BY DEF TypeOK, NoEntryYet, FiledWell, ClientOwns, SweepOwns, EntryState, Untouched, Answered
<1>. QED
  BY <1>1, <1>2, <1>3, <1>4, <1>5, <1>6, <1>7, <1>8

\* Resolve's call of onResolved, after the unlock, preserves QueueInv.
LEMMA ResolveRecordStep ==
    ASSUME QueueInv, NEW r \in Resolvers, ResolveRecord(r)
    PROVE  QueueInv'
<1>. USE NoneAssumption, BoundsAssumption DEF QueueInv, ResolveRecord, addVars, resVars, sweepVars, entryVars
<1>1. TypeOK'
  BY DEF TypeOK, ClientOwns
<1>2. NoEntryYet'
  BY DEF TypeOK, NoEntryYet, FiledWell, UndecidedIsFiled
<1>3. FiledWell'
  BY DEF TypeOK, NoEntryYet, FiledWell, UndecidedIsFiled
<1>4. UndecidedIsFiled'
  BY DEF TypeOK, NoEntryYet, FiledWell, UndecidedIsFiled
<1>5. ClientOwns'
  BY DEF TypeOK, NoEntryYet, FiledWell, ClientOwns, SweepOwns, EntryState, Untouched, Resolution
<1>6. SweepOwns'
  BY DEF TypeOK, NoEntryYet, FiledWell, ClientOwns, SweepOwns, EntryState, Untouched, ExpiredDeny
<1>7. EntryState'
  BY DEF TypeOK, NoEntryYet, FiledWell, ClientOwns, SweepOwns, EntryState, Untouched, BeingDecided, ExpiredDeny, Resolution
<1>8. Answered'
  BY DEF TypeOK, NoEntryYet, FiledWell, ClientOwns, SweepOwns, EntryState, Untouched, Answered
<1>. QED
  BY <1>1, <1>2, <1>3, <1>4, <1>5, <1>6, <1>7, <1>8

\* Resolve's close of the entry's channel preserves QueueInv.
LEMMA ResolveCloseStep ==
    ASSUME QueueInv, NEW r \in Resolvers, ResolveClose(r)
    PROVE  QueueInv'
<1>. USE NoneAssumption, BoundsAssumption DEF QueueInv, ResolveClose, addVars, resVars, sweepVars, entryVars
<1>1. TypeOK'
  BY DEF TypeOK, ClientOwns
<1>2. NoEntryYet'
  BY DEF TypeOK, NoEntryYet, FiledWell, UndecidedIsFiled
<1>3. FiledWell'
  BY DEF TypeOK, NoEntryYet, FiledWell, UndecidedIsFiled
<1>4. UndecidedIsFiled'
  BY DEF TypeOK, NoEntryYet, FiledWell, UndecidedIsFiled
<1>5. ClientOwns'
  BY DEF TypeOK, NoEntryYet, FiledWell, ClientOwns, SweepOwns, EntryState, Untouched, Resolution
<1>6. SweepOwns'
  BY DEF TypeOK, NoEntryYet, FiledWell, ClientOwns, SweepOwns, EntryState, Untouched, ExpiredDeny
<1>7. EntryState'
  BY DEF TypeOK, NoEntryYet, FiledWell, ClientOwns, SweepOwns, EntryState, Untouched, BeingDecided, ExpiredDeny, Resolution
<1>8. Answered'
  BY DEF TypeOK, NoEntryYet, FiledWell, ClientOwns, SweepOwns, EntryState, Untouched, Answered
<1>. QED
  BY <1>1, <1>2, <1>3, <1>4, <1>5, <1>6, <1>7, <1>8

\* The sweep's reading of the clock preserves QueueInv.
LEMMA SweepStartStep ==
    ASSUME QueueInv, SweepStart
    PROVE  QueueInv'
<1>. USE NoneAssumption, BoundsAssumption DEF QueueInv, SweepStart, addVars, resVars, sweepVars, entryVars
<1>1. TypeOK'
  BY DEF TypeOK, Resolution, Verdicts
<1>2. NoEntryYet'
  BY DEF NoEntryYet
<1>3. FiledWell'
  BY DEF FiledWell
<1>4. UndecidedIsFiled'
  BY DEF UndecidedIsFiled
<1>5. ClientOwns'
  BY DEF ClientOwns, Untouched
<1>6. SweepOwns'
  BY DEF TypeOK, SweepOwns, Untouched
<1>7. EntryState'
  BY DEF TypeOK, SweepOwns, EntryState, Untouched, BeingDecided
<1>8. Answered'
  BY DEF Answered
<1>. QED
  BY <1>1, <1>2, <1>3, <1>4, <1>5, <1>6, <1>7, <1>8

\* The locked part of the sweep, which unfiles what has lapsed, preserves
\* QueueInv.
LEMMA SweepLockStep ==
    ASSUME QueueInv, SweepLock
    PROVE  QueueInv'
<1>. USE NoneAssumption, BoundsAssumption DEF QueueInv, SweepLock, addVars, resVars, sweepVars, entryVars
<1>1. TypeOK'
  BY DEF TypeOK, Resolution, Verdicts, Pending, Lapsed
<1>2. NoEntryYet'
  BY DEF TypeOK, NoEntryYet, FiledWell, UndecidedIsFiled, Pending, Lapsed
<1>3. FiledWell'
  BY DEF TypeOK, NoEntryYet, FiledWell, UndecidedIsFiled, Pending, Lapsed
<1>4. UndecidedIsFiled'
  BY DEF TypeOK, NoEntryYet, FiledWell, UndecidedIsFiled, Pending, Lapsed
<1>5. ClientOwns'
  BY DEF TypeOK, NoEntryYet, FiledWell, ClientOwns, SweepOwns, EntryState, Untouched, Resolution, Pending, Lapsed
<1>6. SweepOwns'
  <2>1. \A e \in expired' : e \in Calls /\ ~resolved[e] /\ expiresAt[e] <= sweepNow
    BY DEF TypeOK, Pending, Lapsed
  <2>2. settling = None
    BY DEF SweepOwns
  <2>. QED
    BY <2>1, <2>2 DEF TypeOK, SweepOwns, EntryState, Untouched
<1>7. EntryState'
  BY DEF TypeOK, NoEntryYet, FiledWell, ClientOwns, SweepOwns, EntryState, Untouched, BeingDecided, ExpiredDeny, Resolution, Pending, Lapsed
<1>8. Answered'
  BY DEF TypeOK, NoEntryYet, FiledWell, ClientOwns, SweepOwns, EntryState, Untouched, Answered, Pending, Lapsed
<1>. QED
  BY <1>1, <1>2, <1>3, <1>4, <1>5, <1>6, <1>7, <1>8

\* The sweep's denial of one lapsed entry preserves QueueInv.
LEMMA SweepRecordStep ==
    ASSUME QueueInv, NEW e \in Calls, SweepRecord(e)
    PROVE  QueueInv'
<1>. USE NoneAssumption, BoundsAssumption DEF QueueInv, SweepRecord, addVars, resVars, sweepVars, entryVars
<1>1. TypeOK'
  BY DEF TypeOK, Resolution, Verdicts, ExpiredDeny
<1>2. NoEntryYet'
  BY DEF TypeOK, NoEntryYet
<1>3. FiledWell'
  BY DEF FiledWell
<1>4. UndecidedIsFiled'
  BY DEF UndecidedIsFiled
<1>5. ClientOwns'
  <2>1. \A r \in Resolvers : resPC[r] \in {"claimed", "recorded", "ok"} => resTarget[r] # e
    BY DEF ClientOwns
  <2>2. \A f \in Calls \ {e} : result'[f] = result[f] /\ delivered'[f] = delivered[f]
    BY DEF TypeOK
  <2>. QED
    BY <2>1, <2>2 DEF ClientOwns, Untouched
<1>6. SweepOwns'
  BY DEF TypeOK, SweepOwns, EntryState, Untouched
<1>7. EntryState'
  BY ResolutionFacts DEF TypeOK, SweepOwns, EntryState, Untouched, BeingDecided
<1>8. Answered'
  BY DEF TypeOK, NoEntryYet, SweepOwns, Untouched, Answered
<1>. QED
  BY <1>1, <1>2, <1>3, <1>4, <1>5, <1>6, <1>7, <1>8

\* The sweep's close of that entry's channel preserves QueueInv.
LEMMA SweepCloseStep ==
    ASSUME QueueInv, SweepClose
    PROVE  QueueInv'
<1>. USE NoneAssumption, BoundsAssumption DEF QueueInv, SweepClose, addVars, resVars, sweepVars, entryVars
<1>1. TypeOK'
  BY DEF TypeOK, Resolution, Verdicts, ExpiredDeny
<1>2. NoEntryYet'
  BY DEF TypeOK, NoEntryYet
<1>3. FiledWell'
  BY DEF FiledWell
<1>4. UndecidedIsFiled'
  BY DEF UndecidedIsFiled
<1>5. ClientOwns'
  BY DEF TypeOK, ClientOwns, SweepOwns, Untouched
<1>6. SweepOwns'
  BY DEF TypeOK, SweepOwns, Untouched
<1>7. EntryState'
  BY DEF TypeOK, SweepOwns, EntryState, Untouched, BeingDecided
<1>8. Answered'
  BY DEF TypeOK, NoEntryYet, SweepOwns, Answered
<1>. QED
  BY <1>1, <1>2, <1>3, <1>4, <1>5, <1>6, <1>7, <1>8

\* The end of a sweep preserves QueueInv.
LEMMA SweepDoneStep ==
    ASSUME QueueInv, SweepDone
    PROVE  QueueInv'
<1>. USE NoneAssumption, BoundsAssumption DEF QueueInv, SweepDone, addVars, resVars, sweepVars, entryVars
<1>1. TypeOK'
  BY DEF TypeOK, Resolution, Verdicts
<1>2. NoEntryYet'
  BY DEF NoEntryYet
<1>3. FiledWell'
  BY DEF FiledWell
<1>4. UndecidedIsFiled'
  BY DEF UndecidedIsFiled
<1>5. ClientOwns'
  BY DEF ClientOwns, Untouched
<1>6. SweepOwns'
  BY DEF TypeOK, SweepOwns, Untouched
<1>7. EntryState'
  BY DEF EntryState, Untouched, BeingDecided
<1>8. Answered'
  BY DEF Answered
<1>. QED
  BY <1>1, <1>2, <1>3, <1>4, <1>5, <1>6, <1>7, <1>8

\* The passing of time preserves QueueInv.
LEMMA TickStep ==
    ASSUME QueueInv, Tick
    PROVE  QueueInv'
<1>. USE NoneAssumption, BoundsAssumption DEF QueueInv, Tick, addVars, resVars, sweepVars, entryVars
<1>1. TypeOK'
  BY DEF TypeOK, Resolution, Verdicts
<1>2. NoEntryYet'
  BY DEF NoEntryYet
<1>3. FiledWell'
  BY DEF FiledWell
<1>4. UndecidedIsFiled'
  BY DEF UndecidedIsFiled
<1>5. ClientOwns'
  BY DEF ClientOwns, Untouched
<1>6. SweepOwns'
  BY DEF TypeOK, SweepOwns, Untouched
<1>7. EntryState'
  BY DEF EntryState, Untouched, BeingDecided
<1>8. Answered'
  BY DEF Answered
<1>. QED
  BY <1>1, <1>2, <1>3, <1>4, <1>5, <1>6, <1>7, <1>8

\* A step that changes nothing preserves QueueInv.
LEMMA StutterStep ==
    ASSUME QueueInv, UNCHANGED vars
    PROVE  QueueInv'
<1>. USE NoneAssumption, BoundsAssumption DEF QueueInv, vars, addVars, resVars, sweepVars, entryVars
<1>1. TypeOK'
  BY DEF TypeOK, Resolution, Verdicts
<1>2. NoEntryYet'
  BY DEF NoEntryYet
<1>3. FiledWell'
  BY DEF FiledWell
<1>4. UndecidedIsFiled'
  BY DEF UndecidedIsFiled
<1>5. ClientOwns'
  BY DEF ClientOwns, Untouched
<1>6. SweepOwns'
  BY DEF TypeOK, SweepOwns, Untouched
<1>7. EntryState'
  BY DEF EntryState, Untouched, BeingDecided
<1>8. Answered'
  BY DEF Answered
<1>. QED
  BY <1>1, <1>2, <1>3, <1>4, <1>5, <1>6, <1>7, <1>8

\* Initially nothing was asked and nothing decided.
LEMMA InitStep == Init => QueueInv
  BY NoneAssumption, BoundsAssumption, ResolutionFacts
     DEF Init, QueueInv, TypeOK, NoEntryYet, FiledWell, UndecidedIsFiled, ClientOwns,
         SweepOwns, EntryState, Untouched, Answered

\* QueueInv holds in every state the queue can reach.
THEOREM QueueInvariant == Spec => []QueueInv
<1>1. QueueInv /\ [Next]_vars => QueueInv'
  <2>. SUFFICES ASSUME QueueInv, [Next]_vars PROVE QueueInv'
    OBVIOUS
  <2>1. ASSUME NEW c \in Calls, NEW id \in IDs,
               AddDuplicate(c, id) \/ AddFull(c, id) \/ AddNew(c, id)
        PROVE  QueueInv'
    BY <2>1, AddDuplicateStep, AddFullStep, AddNewStep
  <2>2. ASSUME NEW c \in Calls, AddNotify(c) \/ AddReturn(c)
        PROVE  QueueInv'
    BY <2>2, AddNotifyStep, AddReturnStep
  <2>3. ASSUME NEW r \in Resolvers, NEW id \in IDs,
               \/ \E v \in Verdicts, m \in BOOLEAN : ResolveClaim(r, id, Human(v, m))
               \/ ResolveLate(r, id)
        PROVE  QueueInv'
    BY <2>3, ResolveClaimStep, ResolveLateStep
  <2>4. ASSUME NEW r \in Resolvers, ResolveRecord(r) \/ ResolveClose(r)
        PROVE  QueueInv'
    BY <2>4, ResolveRecordStep, ResolveCloseStep
  <2>5. ASSUME NEW e \in Calls, SweepRecord(e)
        PROVE  QueueInv'
    BY <2>5, SweepRecordStep
  <2>6. CASE SweepStart \/ SweepLock \/ SweepClose \/ SweepDone \/ Tick
    BY <2>6, SweepStartStep, SweepLockStep, SweepCloseStep, SweepDoneStep, TickStep
  <2>7. CASE UNCHANGED vars
    BY <2>7, StutterStep
  <2>. QED
    BY <2>1, <2>2, <2>3, <2>4, <2>5, <2>6, <2>7 DEF Next
<1>. QED
  BY <1>1, InitStep, PTL DEF Spec

\* TypeOK, for every instance: the queue's maps, channels and the positions of
\* its goroutines keep their types.
THEOREM TypeCorrect == Spec => []TypeOK
  BY QueueInvariant, PTL DEF QueueInv

\* SettledOnce, for every instance: an entry's channel is closed once.
THEOREM SettledOnceHolds == Spec => []SettledOnce
<1>1. QueueInv => SettledOnce
  BY DEF QueueInv, TypeOK, EntryState, SettledOnce
<1>. QED
  BY <1>1, QueueInvariant, PTL

\* RecordedBeforeAnswer, for every instance: Add returns only what onResolved
\* was told before.
THEOREM RecordedBeforeAnswerHolds == Spec => []RecordedBeforeAnswer
<1>1. QueueInv => RecordedBeforeAnswer
  BY NoneAssumption DEF QueueInv, TypeOK, NoEntryYet, EntryState, Answered, RecordedBeforeAnswer
<1>. QED
  BY <1>1, QueueInvariant, PTL

\* AnswerIsTheDecision, for every instance: a Resolve that reported success is
\* what every waiting Add returns.
THEOREM AnswerIsTheDecisionHolds == Spec => []AnswerIsTheDecision
<1>1. QueueInv => AnswerIsTheDecision
  BY DEF QueueInv, ClientOwns, Answered, AnswerIsTheDecision
<1>. QED
  BY <1>1, QueueInvariant, PTL

\* NoOrphanWaiter, for every instance: no Add waits on an entry that nobody
\* will close.
THEOREM NoOrphanWaiterHolds == Spec => []NoOrphanWaiter
<1>1. QueueInv => NoOrphanWaiter
  BY NoneAssumption
     DEF QueueInv, TypeOK, NoEntryYet, FiledWell, UndecidedIsFiled, EntryState, Pending,
         NoOrphanWaiter
<1>. QED
  BY <1>1, QueueInvariant, PTL

\* OneCardPerID, for every instance: one id has one undecided entry at most.
THEOREM OneCardPerIDHolds == Spec => []OneCardPerID
<1>1. QueueInv => OneCardPerID
  BY DEF QueueInv, UndecidedIsFiled, OneCardPerID
<1>. QED
  BY <1>1, QueueInvariant, PTL

\* ExpiryNotEarly, for every instance: the sweep denies only what has lapsed.
THEOREM ExpiryNotEarlyHolds == Spec => []ExpiryNotEarly
<1>1. QueueInv => ExpiryNotEarly
  BY DEF QueueInv, TypeOK, SweepOwns, EntryState, ExpiryNotEarly
<1>. QED
  BY <1>1, QueueInvariant, PTL


\* The set Add counts stays finite, and only AddNew can make it larger.
LEMMA PendingGrowth ==
    ASSUME QueueInv, [Next]_vars
    PROVE  \/ PendingIDs' \subseteq PendingIDs
           \/ /\ Cardinality(PendingIDs) < MaxPending
              /\ \E id \in IDs : PendingIDs' = PendingIDs \cup {id} /\ id \notin PendingIDs
<1>. USE NoneAssumption DEF PendingIDs, Pending
<1>1. ASSUME NEW c \in Calls, NEW id \in IDs, AddNew(c, id)
      PROVE  /\ Cardinality(PendingIDs) < MaxPending
             /\ PendingIDs' = PendingIDs \cup {id} /\ id \notin PendingIDs
  <2>1. ~resolved[c] /\ resolved' = resolved
    BY <1>1 DEF QueueInv, NoEntryYet, AddNew
  <2>2. byID' = [byID EXCEPT ![id] = c] /\ byID[id] = None
    BY <1>1 DEF AddNew
  <2>3. Cardinality(PendingIDs) < MaxPending
    BY <1>1 DEF AddNew
  <2>. QED
    BY <2>1, <2>2, <2>3 DEF QueueInv, TypeOK
<1>2. ASSUME byID' = byID, \A c \in Calls : resolved[c] => resolved'[c]
      PROVE  PendingIDs' \subseteq PendingIDs
  BY <1>2 DEF QueueInv, TypeOK
<1>3. ASSUME NEW r \in Resolvers, NEW id \in IDs, NEW v \in Verdicts, NEW m \in BOOLEAN,
             ResolveClaim(r, id, Human(v, m))
      PROVE  byID' = byID /\ \A c \in Calls : resolved[c] => resolved'[c]
  BY <1>3 DEF ResolveClaim, QueueInv, TypeOK
<1>4. CASE SweepLock
  BY <1>4 DEF SweepLock, QueueInv, TypeOK
<1>. QED
  BY <1>1, <1>2, <1>3, <1>4
     DEF Next, vars, addVars, resVars, sweepVars, entryVars, AddDuplicate, AddFull, AddNotify,
         AddReturn, ResolveLate, ResolveRecord, ResolveClose, SweepStart, SweepRecord,
         SweepClose, SweepDone, Tick

\* CapacityRespected, for every instance: Queue.max bounds what waits.
THEOREM CapacityRespectedHolds == Spec => []CapacityRespected
<1>. DEFINE Bounded == IsFiniteSet(PendingIDs) /\ CapacityRespected
<1>1. Init => Bounded
  <2>. SUFFICES ASSUME Init PROVE Bounded
    OBVIOUS
  <2>1. PendingIDs = {}
    BY DEF Init, PendingIDs, Pending
  <2>. QED
    BY <2>1, FS_EmptySet, BoundsAssumption DEF CapacityRespected
<1>2. QueueInv /\ Bounded /\ [Next]_vars => Bounded'
  <2>. SUFFICES ASSUME QueueInv, Bounded, [Next]_vars PROVE Bounded'
    OBVIOUS
  <2>1. CASE PendingIDs' \subseteq PendingIDs
    <3>1. IsFiniteSet(PendingIDs') /\ Cardinality(PendingIDs') <= Cardinality(PendingIDs)
      BY <2>1, FS_Subset
    <3>2. Cardinality(PendingIDs) \in Nat /\ Cardinality(PendingIDs') \in Nat
      BY <3>1, FS_CardinalityType
    <3>. QED
      BY <3>1, <3>2, BoundsAssumption DEF CapacityRespected
  <2>2. ASSUME Cardinality(PendingIDs) < MaxPending,
               NEW id \in IDs, PendingIDs' = PendingIDs \cup {id}, id \notin PendingIDs
        PROVE  Bounded'
    <3>1. IsFiniteSet(PendingIDs') /\ Cardinality(PendingIDs') = Cardinality(PendingIDs) + 1
      BY <2>2, FS_AddElement
    <3>2. Cardinality(PendingIDs) \in Nat
      BY FS_CardinalityType
    <3>. QED
      BY <2>2, <3>1, <3>2, BoundsAssumption DEF CapacityRespected
  <2>. QED
    BY <2>1, <2>2, PendingGrowth
<1>. QED
  BY <1>1, <1>2, QueueInvariant, PTL DEF Spec


-----------------------------------------------------------------------------
\* What each step does to the results, the channels and the answers.
LEMMA EntryEffects ==
    ASSUME QueueInv, [Next]_vars
    PROVE  /\ \A e \in Calls : result[e] # None => result'[e] = result[e]
           /\ \A c \in Calls : answer[c] # None => answer'[c] = answer[c]
<1>. USE DEF QueueInv, TypeOK
<1>1. ASSUME NEW c \in Calls, AddReturn(c)
      PROVE  result' = result /\ answer[c] = None /\ \A d \in Calls \ {c} : answer'[d] = answer[d]
  BY <1>1 DEF AddReturn, Answered, entryVars
<1>2. ASSUME NEW r \in Resolvers, ResolveRecord(r)
      PROVE  /\ answer' = answer
             /\ result[resTarget[r]] = None
             /\ \A e \in Calls \ {resTarget[r]} : result'[e] = result[e]
  BY <1>2 DEF ResolveRecord, ClientOwns, Untouched, addVars
<1>3. ASSUME NEW e \in Calls, SweepRecord(e)
      PROVE  answer' = answer /\ result[e] = None /\ \A f \in Calls \ {e} : result'[f] = result[f]
  BY <1>3 DEF SweepRecord, SweepOwns, Untouched, addVars
<1>. QED
  BY <1>1, <1>2, <1>3
     DEF Next, vars, addVars, resVars, sweepVars, entryVars, AddDuplicate, AddFull, AddNew,
         AddNotify, ResolveClaim, ResolveLate, ResolveClose, SweepStart, SweepLock,
         SweepClose, SweepDone, Tick

\* DecisionFinal, for every instance: nothing rewrites a result or an answer.
THEOREM DecisionFinalHolds == Spec => DecisionFinal
<1>1. QueueInv /\ [Next]_vars =>
          [\A e \in Calls : /\ result[e] # None => result'[e] = result[e]
                            /\ answer[e] # None => answer'[e] = answer[e]]_vars
  BY EntryEffects
<1>. QED
  BY <1>1, QueueInvariant, PTL DEF Spec, DecisionFinal

\* The initial states map to initial states of BunkerDecisions.
LEMMA InitMaps == Init => Decisions!Init
  BY DEF Init, Decisions!Init, Decided

\* Closing the channel of an entry whose result is written takes the decision.
LEMMA CloseDecides ==
    ASSUME QueueInv, NEW e \in Calls, closes[e] = 0, resolved[e], result[e] \in Resolution,
           closes' = [closes EXCEPT ![e] = @ + 1], UNCHANGED <<result, addVars>>
    PROVE  Decisions!Next
<1>. USE DEF QueueInv, TypeOK
<1>1. waitsOn[e] = e
  BY DEF NoEntryYet
<1>2. Decided[e] = None /\ Decided' = [Decided EXCEPT ![e] = result[e]]
  <2>1. closes'[e] > 0 /\ \A f \in Calls \ {e} : closes'[f] = closes[f]
    OBVIOUS
  <2>2. Decided' = [f \in Calls |-> IF closes'[f] > 0 THEN result[f] ELSE None]
    BY DEF Decided
  <2>3. Decided' = [f \in Calls |-> IF f = e THEN result[e] ELSE Decided[f]]
    BY <2>1, <2>2 DEF Decided
  <2>4. Decided[e] = None
    BY DEF Decided
  <2>5. DOMAIN Decided = Calls
    BY DEF Decided
  <2>6. [Decided EXCEPT ![e] = result[e]] = [f \in Calls |-> IF f = e THEN result[e] ELSE Decided[f]]
    BY <2>5, Zenon
  <2>. QED
    BY <2>3, <2>4, <2>6
<1>3. Decisions!Decide(e, result[e])
  BY <1>1, <1>2 DEF Decisions!Decide, addVars
<1>. QED
  BY <1>3 DEF Decisions!Next

\* Every step of the queue is a step of BunkerDecisions or changes nothing
\* BunkerDecisions sees.
LEMMA StepMaps ==
    ASSUME QueueInv, [Next]_vars
    PROVE  [Decisions!Next]_(Decisions!vars)
<1>. USE NoneAssumption DEF QueueInv, TypeOK
<1>1. ASSUME NEW c \in Calls, NEW id \in IDs, AddDuplicate(c, id)
      PROVE  Decisions!Next
  <2>1. Decisions!Join(c, id, byID[id])
    BY <1>1 DEF AddDuplicate, NoEntryYet, FiledWell, Decisions!Join, Decided, entryVars
  <2>. QED
    BY <1>1, <2>1 DEF AddDuplicate, Decisions!Next
<1>2. ASSUME NEW c \in Calls, NEW id \in IDs, AddFull(c, id)
      PROVE  Decisions!Next
  <2>1. Decisions!TurnAway(c, id)
    BY <1>2 DEF AddFull, NoEntryYet, Decisions!TurnAway, Decided, entryVars
  <2>. QED
    BY <2>1 DEF Decisions!Next
<1>3. ASSUME NEW c \in Calls, NEW id \in IDs, AddNew(c, id)
      PROVE  Decisions!Next
  <2>1. Decisions!Join(c, id, c)
    BY <1>3 DEF AddNew, NoEntryYet, Decisions!Join, Decided
  <2>. QED
    BY <2>1 DEF Decisions!Next
<1>4. ASSUME NEW c \in Calls, AddReturn(c)
      PROVE  Decisions!Next
  <2>1. waitsOn[c] \in Calls /\ answer[c] = None
    BY <1>4 DEF AddReturn, NoEntryYet, Answered
  <2>2. Decided[waitsOn[c]] = result[waitsOn[c]] /\ result[waitsOn[c]] # None
    BY <1>4, <2>1 DEF AddReturn, EntryState, Decided
  <2>3. Decided' = Decided
    BY <1>4 DEF AddReturn, Decided, entryVars
  <2>4. Decisions!Return(c)
    BY <1>4, <2>1, <2>2, <2>3 DEF AddReturn, Decisions!Return
  <2>. QED
    BY <2>4 DEF Decisions!Next
<1>5. ASSUME NEW r \in Resolvers, ResolveClose(r)
      PROVE  Decisions!Next
  BY <1>5, CloseDecides DEF ResolveClose, ClientOwns, addVars
<1>6. ASSUME SweepClose
      PROVE  Decisions!Next
  <2>1. /\ settling \in Calls /\ closes[settling] = 0 /\ resolved[settling]
        /\ result[settling] \in Resolution
    BY <1>6, ResolutionFacts DEF SweepClose, SweepOwns
  <2>2. closes' = [closes EXCEPT ![settling] = @ + 1] /\ UNCHANGED <<result, addVars>>
    BY <1>6 DEF SweepClose
  <2>. QED
    BY <2>1, <2>2, CloseDecides
<1>7. ASSUME UNCHANGED addVars \/ \E c \in Calls : AddNotify(c),
             UNCHANGED closes, \A e \in Calls : closes[e] > 0 => result'[e] = result[e]
      PROVE  UNCHANGED Decisions!vars
  BY <1>7 DEF Decisions!vars, Decided, addVars, AddNotify
<1>8. ASSUME NEW r \in Resolvers, ResolveRecord(r)
      PROVE  UNCHANGED Decisions!vars
  BY <1>7, <1>8 DEF ResolveRecord, ClientOwns, Untouched
<1>9. ASSUME NEW e \in Calls, SweepRecord(e)
      PROVE  UNCHANGED Decisions!vars
  BY <1>7, <1>9 DEF SweepRecord, SweepOwns, Untouched
<1>. QED
  BY <1>1, <1>2, <1>3, <1>4, <1>5, <1>6, <1>7, <1>8, <1>9
     DEF Next, vars, addVars, entryVars, AddNotify, ResolveClaim, ResolveLate, SweepStart,
         SweepLock, SweepDone, Tick

\* The queue implements BunkerDecisions, for every instance: locks, callbacks
\* after the unlock, channels and the sweep never show a caller anything but a
\* decision taken once.
THEOREM QueueImplementsDecisions == Spec => ImplementsDecisions
  BY InitMaps, StepMaps, QueueInvariant, PTL DEF Spec, ImplementsDecisions, Decisions!Spec
=============================================================================
