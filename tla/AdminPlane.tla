----------------------------- MODULE AdminPlane -----------------------------
(***************************************************************************)
(* Who may use the relay's admin listener (cli/relay/adminplane): the gate *)
(* with its failure limiter, NIP-98 requests with the replay guard, and    *)
(* dashboard sessions.  A request is one step: every check it makes is     *)
(* under its own lock and reads the same second.  A NIP-98 event carries   *)
(* the time its author wrote, which may lie ahead of the relay's clock.    *)
(***************************************************************************)
EXTENDS Integers, Sequences, FiniteSets

CONSTANTS Pubkeys,       \* keys that sign
          Addrs,         \* client addresses
          Events,        \* NIP-98 events: [id, signer, created]
          Validity,      \* nip98.Verify accepts |now - created| <= Validity
          ReplayWindow,  \* nip98Window
          SessionTTL, MaxSessions,
          FailLimit, FailWindow, MaxFailedAddr,
          MaxTime, MaxLogins

VARIABLES now,
          admins,        \* Options.Admins(): changed by NIP-86 and the config
          seen,          \* ReplayGuard.seen: partial function id -> expiry
          sessions,      \* sessions.byID: partial function id -> [pubkey, expires]
          logins,        \* ids given out so far
          fails,         \* failLimiter.fails: partial function addr -> [n, since]
          served,        \* [event ids -> requests it opened]
          failed         \* [Addrs -> times of the last FailLimit failures counted]

vars == <<now, admins, seen, sessions, logins, fails, served, failed>>

Without(f, S) == [x \in DOMAIN f \ S |-> f[x]]
With(f, x, v) == [y \in DOMAIN f \cup {x} |-> IF y = x THEN v ELSE f[y]]
Empty == [x \in {} |-> 0]
Ids == {e.id : e \in Events}

Init == /\ now = 0
        /\ admins = Pubkeys
        /\ seen = Empty /\ sessions = Empty /\ logins = 0 /\ fails = Empty
        /\ served = [i \in Ids |-> 0]
        /\ failed = [a \in Addrs |-> <<>>]

----------------------------------------------------------------------------
\* failLimiter.blocked: an entry whose window passed is dropped.
Stale(a) == now - fails[a].since > FailWindow
Blocked(a) == a \in DOMAIN fails /\ ~Stale(a) /\ fails[a].n >= FailLimit

\* The gate lets the request through: host and address are allowed, and
\* the address is not blocked.
Forgotten(a) == IF a \in DOMAIN fails /\ Stale(a) THEN Without(fails, {a}) ELSE fails

\* failLimiter.fail, on what the gate left: a new window, after a sweep
\* when the table is full, or one more in the running one.
CountedSliding(a, fs) ==
    With(fs, a, [n |-> IF a \in DOMAIN fs THEN fs[a].n + 1 ELSE 1, since |-> now])

Counted(a, fs) ==
    LET swept == IF Cardinality(DOMAIN fs) >= MaxFailedAddr
                   THEN Without(fs, {b \in DOMAIN fs : now - fs[b].since > FailWindow}) ELSE fs
    IN  IF a \in DOMAIN fs THEN With(fs, a, [fs[a] EXCEPT !.n = @ + 1])
        ELSE IF Cardinality(DOMAIN swept) >= MaxFailedAddr THEN swept
        ELSE With(swept, a, [n |-> 1, since |-> now])

\* The last FailLimit failures, this one included.
Latest(times) == Append(IF Len(times) < FailLimit THEN times ELSE Tail(times), now)

Fail(a) == /\ fails' = Counted(a, Forgotten(a))
           /\ failed' = [failed EXCEPT ![a] = IF a \in DOMAIN fails' THEN Latest(@) ELSE @]

Passes(a) == fails' = Forgotten(a) /\ UNCHANGED failed

----------------------------------------------------------------------------
\* verifyNIP98: the event is an admin's and of this minute, and
\* ReplayGuard.First, which forgets expired ids first, has not seen it.
Verifies(e) == e.signer \in admins /\ now - e.created \in (-Validity)..Validity

RememberedBriefly == Without(seen, {i \in DOMAIN seen : now >= seen[i]})

Remembered == Without(seen, {i \in DOMAIN seen : now > seen[i]})

Fresh(e) == e.id \notin DOMAIN Remembered

\* A new event is remembered, and its request let in.
Consume(e) == /\ seen' = With(Remembered, e.id, now + ReplayWindow)
              /\ served' = [served EXCEPT ![e.id] = @ + 1]

\* requireAdmin with a NIP-98 header
NipRequest(a, e) ==
    /\ ~Blocked(a)
    /\ \/ Verifies(e) /\ Fresh(e) /\ Consume(e) /\ Passes(a)
       \/ Verifies(e) /\ ~Fresh(e) /\ Fail(a) /\ seen' = Remembered /\ UNCHANGED served
       \/ ~Verifies(e) /\ Fail(a) /\ UNCHANGED <<seen, served>>
    /\ UNCHANGED <<now, admins, sessions, logins>>

\* sessions.create: expired ones are swept; when it is still full the one
\* closest to expiring makes room.
Created(pubkey) ==
    LET live   == Without(sessions, {i \in DOMAIN sessions : now > sessions[i].expires})
        oldest == {CHOOSE i \in DOMAIN live : \A j \in DOMAIN live : live[i].expires <= live[j].expires}
        room   == IF Cardinality(DOMAIN live) >= MaxSessions THEN Without(live, oldest) ELSE live
    IN  With(room, logins + 1, [pubkey |-> pubkey, expires |-> now + SessionTTL])

Login(a, e) ==
    /\ ~Blocked(a) /\ logins < MaxLogins
    /\ Verifies(e) /\ Fresh(e) /\ Consume(e) /\ Passes(a)
    /\ sessions' = Created(e.signer)
    /\ logins' = logins + 1
    /\ UNCHANGED <<now, admins>>

\* requireAdmin with a session cookie: sessions.get drops a session that
\* expired or whose owner is no admin any more; anything but GET needs the
\* CSRF token.
Live(i) == i \in DOMAIN sessions /\ now <= sessions[i].expires /\ sessions[i].pubkey \in admins

SessionRequest(a, i) ==
    /\ ~Blocked(a)
    /\ IF Live(i) THEN (Passes(a) \/ Fail(a)) /\ UNCHANGED sessions
       ELSE Fail(a) /\ sessions' = Without(sessions, {i})
    /\ UNCHANGED <<now, admins, seen, logins, served>>

Logout(a, i) ==
    /\ ~Blocked(a) /\ Live(i) /\ Passes(a)
    /\ sessions' = Without(sessions, {i})
    /\ UNCHANGED <<now, admins, seen, logins, served>>

\* A scrape with a bad or no token counts like any failure; an API request
\* with no credentials does not.
BadToken(a) == /\ ~Blocked(a) /\ Fail(a)
               /\ UNCHANGED <<now, admins, seen, sessions, logins, served>>

\* The admins change, and time passes.
SetAdmins == /\ \E s \in SUBSET Pubkeys : admins' = s /\ s # admins
             /\ UNCHANGED <<now, seen, sessions, logins, fails, served, failed>>

Tick == /\ now < MaxTime /\ now' = now + 1
        /\ UNCHANGED <<admins, seen, sessions, logins, fails, served, failed>>

Next == \/ \E a \in Addrs : \/ \E e \in Events : NipRequest(a, e) \/ Login(a, e)
                            \/ \E i \in 1..logins : SessionRequest(a, i) \/ Logout(a, i)
                            \/ BadToken(a)
        \/ SetAdmins \/ Tick

Spec == Init /\ [][Next]_vars

----------------------------------------------------------------------------
(***************************************************************************)
(* A signed admin request takes effect at most once: the replay guard      *)
(* remembers an event for as long as nip98.Verify would accept it, also    *)
(* when its author's clock runs ahead (ReplayGuard.First, nip98Window).    *)
(***************************************************************************)
ServedOnce == \A i \in Ids : served[i] <= 1

(***************************************************************************)
(* An address is refused outright only after FailLimit failures within the *)
(* last window: slow, spread-out mistakes never lock anybody out           *)
(* (failLimiter.fail, failLimiter.blocked).                                *)
(***************************************************************************)
BlockedForCause ==
    \A a \in Addrs : Blocked(a) =>
        Len(failed[a]) = FailLimit /\ \A k \in 1..FailLimit : now - failed[a][k] <= FailWindow
=============================================================================
