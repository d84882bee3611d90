----------------------------- MODULE BunkerPolicy -----------------------------
(***************************************************************************)
(* The bunker's remembered permissions (Store, cli/bunker/policy.go): per  *)
(* app, the session it got by pairing and an ordered list of grants, kept  *)
(* in memory and rewritten to sessions.yaml on most changes.  Every method *)
(* of Store runs under s.mu, so each is one step.  Saving is best effort:  *)
(* a failed write leaves the file as it was and the memory as it is.       *)
(*                                                                         *)
(* What the store should remember is tracked beside it: the latest grant   *)
(* per scope (rule) and, per grant ever issued, the requests it let        *)
(* through (spent).                                                        *)
(***************************************************************************)
EXTENDS Integers, FiniteSets, SequencesExt

CONSTANTS
    Apps,       \* client pubkeys
    Kinds,      \* event kinds
    Sensitive,  \* sensitiveKinds
    MaxTime,    \* bound on the clock
    MaxUses,    \* largest budget of a grant
    MaxGrants,  \* bound on the grants issued
    MaxErrors   \* bound on failed saves

\* What the constants of an instance satisfy.
PolicyAssumption ==
    /\ Kinds \subseteq Nat /\ Sensitive \subseteq Kinds /\ 0 \in Kinds
    /\ MaxTime \in Nat /\ MaxGrants \in Nat /\ MaxErrors \in Nat /\ MaxUses \in Nat \ {0}

VARIABLES
    now,
    sessions,  \* s.byPub
    disk,      \* sessions.yaml
    stale,     \* the last save failed
    errors,    \* failed saves
    \* observation
    lost,      \* the daemon restarted from a stale file
    rule,      \* per app and scope, the grant in force or NoGrant
    issued,    \* budget of each grant, by serial number
    spent      \* requests each grant let through

ghostVars == <<lost, rule, issued, spent>>
vars == <<now, sessions, disk, stale, errors, ghostVars>>

AnyKind == -1          \* Grant.Kind = nil
Unlimited == -1    \* Grant.RemainingUses = nil
Never == MaxTime + 1  \* Grant.ExpiresAt = nil

\* sign_event requests name a kind; every other method passes 0 and is only
\* ever granted without a kind.
Requests == ({"sign_event"} \X Kinds) \cup {<<"ping", 0>>}
Scopes == ({"sign_event"} \X (Kinds \cup {AnyKind})) \cup {<<"ping", AnyKind>>}

Serials == 1..MaxGrants

Grant == [scope : Scopes, verdict : {"allow", "deny"}, expiresAt : 1..Never,
          uses : {Unlimited} \cup 1..MaxUses, serial : Serials]

NoGrant == [scope |-> <<"none", AnyKind>>]

Session == [paired : BOOLEAN, grants : Seq(Grant)]
NoSession == [paired |-> FALSE, grants |-> <<>>]

-----------------------------------------------------------------------------
Expired(g, t) == g.expiresAt <= t

SensitiveSign(req) == req[1] = "sign_event" /\ req[2] \in Sensitive

\* Mutant: a grant naming the exact sensitive kind counts.
MatchesNamedSensitive(g, req, exactOnly) ==
    /\ g.scope[1] = req[1]
    /\ IF g.scope[2] # AnyKind
       THEN g.scope[2] = req[2]
       ELSE ~exactOnly /\ ~SensitiveSign(req)

\* Grant.matches
Matches(g, req, exactOnly) ==
    /\ g.scope[1] = req[1]
    /\ IF g.scope[2] # AnyKind
       THEN g.scope[2] = req[2] /\ ~(g.verdict = "allow" /\ SensitiveSign(req))
       ELSE ~exactOnly /\ ~SensitiveSign(req)

\* pruneSessionLocked
Live(grants, t) == SelectSeq(grants, LAMBDA g : ~Expired(g, t))

\* The grant Decide uses: the first exact match, else the first match; 0 if
\* there is none.
IndexOfMatch(grants, req) ==
    LET exact == SelectInSeq(grants, LAMBDA g : Matches(g, req, TRUE))
    IN  IF exact # 0 THEN exact
        ELSE SelectInSeq(grants, LAMBDA g : Matches(g, req, FALSE))

Verdict(grants, req) ==
    LET i == IndexOfMatch(grants, req) IN IF i = 0 THEN "ask" ELSE grants[i].verdict

\* Mutant: a budget of one survives its last use.
ChargeLate(grants, i) ==
    IF grants[i].uses = Unlimited THEN grants
    ELSE IF grants[i].uses - 1 < 0 THEN RemoveAt(grants, i)
    ELSE [grants EXCEPT ![i].uses = @ - 1]

\* resolveGrantLocked: one use less, gone after the last.
Charge(grants, i) ==
    IF grants[i].uses = Unlimited THEN grants
    ELSE IF grants[i].uses - 1 <= 0 THEN RemoveAt(grants, i)
    ELSE [grants EXCEPT ![i].uses = @ - 1]

\* Mutant: a second grant of the same scope is appended, never replaced.
AddGrantAppends(grants, g) == Append(grants, g)

\* Remember's replace-or-append.
AddGrant(grants, g) ==
    LET i == SelectInSeq(grants, LAMBDA h : h.scope = g.scope)
    IN  IF i = 0 THEN Append(grants, g) ELSE [grants EXCEPT ![i] = g]

\* saveLocked: the whole map, or nothing.
Save ==
    \/ disk' = sessions' /\ stale' = FALSE /\ UNCHANGED errors
    \/ /\ errors < MaxErrors /\ errors' = errors + 1
       /\ stale' = TRUE /\ UNCHANGED disk

NoSave == UNCHANGED <<disk, stale, errors>>

\* The issued budgets are Nat-valued; 0 stands for no limit.
Budget(g) == IF g.uses = Unlimited THEN 0 ELSE g.uses

-----------------------------------------------------------------------------
Init ==
    /\ now = 0
    /\ sessions = [a \in Apps |-> NoSession]
    /\ disk = [a \in Apps |-> NoSession]
    /\ stale = FALSE /\ errors = 0
    /\ lost = FALSE
    /\ rule = [a \in Apps |-> [s \in Scopes |-> NoGrant]]
    /\ issued = <<>>
    /\ spent = <<>>

\* Pair: a no-op for a known app.
Pair(a) ==
    /\ ~sessions[a].paired
    /\ sessions' = [sessions EXCEPT ![a].paired = TRUE]
    /\ Save
    /\ UNCHANGED <<now, ghostVars>>

\* Remember: also the session-creation path of an app Pair never saw.
Remember(a, scope, verdict, expiresAt, uses) ==
    LET g == [scope |-> scope, verdict |-> verdict, expiresAt |-> expiresAt,
              uses |-> uses, serial |-> Len(issued) + 1]
    IN  /\ Len(issued) < MaxGrants
        /\ sessions' = [sessions EXCEPT ![a] =
                           [paired |-> TRUE, grants |-> AddGrant(@.grants, g)]]
        /\ Save
        /\ rule' = [rule EXCEPT ![a][scope] = g]
        /\ issued' = Append(issued, Budget(g))
        /\ spent' = Append(spent, 0)
        /\ UNCHANGED <<now, lost>>

\* The rule a request falls under, as the comment on Decide puts it: the grant of its own kind, else the one of any kind.
InForce(a, scope) == rule[a][scope] # NoGrant /\ ~Expired(rule[a][scope], now)

RuleFor(a, req) ==
    LET any == <<req[1], AnyKind>>
        own == req \in Scopes /\ InForce(a, req)
                 /\ (SensitiveSign(req) => rule[a][req].verdict = "deny")
    IN  IF own THEN rule[a][req]
        ELSE IF InForce(a, any) /\ ~SensitiveSign(req) THEN rule[a][any]
        ELSE NoGrant

ChargeRule(g) ==
    IF g.uses = Unlimited THEN g
    ELSE IF g.uses = 1 THEN NoGrant ELSE [g EXCEPT !.uses = @ - 1]

\* Decide for a known app: prune lazily (not saved by itself), look up,
\* charge, save if a budget changed.
Decide(a, req) ==
    LET live == Live(sessions[a].grants, now)
        i == IndexOfMatch(live, req)
    IN  /\ sessions[a].paired
        /\ IF i = 0
           THEN /\ sessions' = [sessions EXCEPT ![a].grants = live]
                /\ NoSave /\ UNCHANGED <<rule, spent>>
           ELSE /\ sessions' = [sessions EXCEPT ![a].grants = Charge(live, i)]
                /\ IF live[i].uses # Unlimited THEN Save ELSE NoSave
                /\ spent' = [spent EXCEPT ![live[i].serial] =
                                 IF live[i].uses = Unlimited THEN @ ELSE @ + 1]
                /\ rule' = [rule EXCEPT ![a][live[i].scope] = IF @ = NoGrant THEN @ ELSE ChargeRule(@)]
        /\ UNCHANGED <<now, lost, issued>>

\* Prune: every session; saved if something was dropped.
Prune ==
    /\ sessions' = [a \in Apps |-> [sessions[a] EXCEPT !.grants = Live(@, now)]]
    /\ sessions' # sessions
    /\ Save
    /\ UNCHANGED <<now, ghostVars>>

\* Revoke: the session and all its grants.
Revoke(a) ==
    /\ sessions[a].paired
    /\ sessions' = [sessions EXCEPT ![a] = NoSession]
    /\ Save
    /\ rule' = [rule EXCEPT ![a] = [s \in Scopes |-> NoGrant]]
    /\ UNCHANGED <<now, lost, issued, spent>>

\* Mutant: the grant is taken from memory only.
RevokeGrantUnsaved(a, scope) ==
    LET i == SelectInSeq(sessions[a].grants, LAMBDA g : g.scope = scope)
    IN  /\ i # 0
        /\ sessions' = [sessions EXCEPT ![a].grants = RemoveAt(@, i)]
        /\ NoSave
        /\ rule' = [rule EXCEPT ![a][scope] = NoGrant]
        /\ UNCHANGED <<now, lost, issued, spent>>

\* RevokeGrant: the first grant of exactly that scope.
RevokeGrant(a, scope) ==
    LET i == SelectInSeq(sessions[a].grants, LAMBDA g : g.scope = scope)
    IN  /\ i # 0
        /\ sessions' = [sessions EXCEPT ![a].grants = RemoveAt(@, i)]
        /\ Save
        /\ rule' = [rule EXCEPT ![a][scope] = NoGrant]
        /\ UNCHANGED <<now, lost, issued, spent>>

\* SetName: nicknames are left out, the save is not.
SetName(a) ==
    /\ sessions[a].paired
    /\ UNCHANGED sessions
    /\ Save
    /\ UNCHANGED <<now, ghostVars>>

\* The daemon stops and starts: LoadStore.
Restart ==
    /\ sessions' = disk
    /\ lost' = (lost \/ stale)
    /\ stale' = FALSE
    /\ UNCHANGED <<now, disk, errors, rule, issued, spent>>

Tick ==
    /\ now < MaxTime
    /\ now' = now + 1
    /\ UNCHANGED <<sessions, disk, stale, errors, ghostVars>>

\* The limits a grant may carry: none, a time or a number of uses, never both
\* (grantspec.go refuses the pair; the constructors set at most one).
Limits == {<<Never, Unlimited>>} \cup (((now + 1)..MaxTime) \X {Unlimited})
                                \cup ({Never} \X (1..MaxUses))

Next ==
    \/ \E a \in Apps : Pair(a) \/ Revoke(a) \/ SetName(a)
    \/ \E a \in Apps, s \in Scopes, v \in {"allow", "deny"}, l \in Limits :
          Remember(a, s, v, l[1], l[2])
    \/ \E a \in Apps, s \in Scopes : RevokeGrant(a, s)
    \/ \E a \in Apps, req \in Requests : Decide(a, req)
    \/ Prune \/ Restart \/ Tick

Spec == Init /\ [][Next]_vars

-----------------------------------------------------------------------------
\* Type correctness; no grant with an empty budget is ever kept.
TypeOK ==
    /\ now \in 0..MaxTime
    /\ \A a \in Apps : sessions[a] \in Session /\ disk[a] \in Session
    /\ stale \in BOOLEAN /\ lost \in BOOLEAN
    /\ errors \in 0..MaxErrors

\* Decide answers by the latest grant remembered for the request's own kind,
\* else for any kind, whatever was replaced, revoked, charged, pruned or
\* reloaded in between (as long as no restart lost a failed save).
LatestGrantRules ==
    ~lost => \A a \in Apps, req \in Requests :
        LET g == RuleFor(a, req)
        IN  Verdict(Live(sessions[a].grants, now), req) =
                IF g = NoGrant THEN "ask" ELSE g.verdict

\* "concurrent requests can never over-spend a 'next N uses' grant past
\* zero", also across restarts.
BudgetNotOverspent ==
    ~lost => \A n \in 1..Len(issued) : spent[n] <= issued[n]

\* "sensitiveKinds are never silently signable under any remembered Allow
\* grant": whatever was remembered, Decide never allows one.
SensitiveNeverSilent ==
    \A a \in Apps, k \in Sensitive :
        Verdict(Live(sessions[a].grants, now), <<"sign_event", k>>) # "allow"

\* A restart changes no answer: unless the last save failed, the file holds
\* the same apps and the same live grants as the memory, although Decide
\* drops expired grants without saving.
RestartChangesNothing ==
    ~stale => \A a \in Apps :
        /\ disk[a].paired = sessions[a].paired
        /\ Live(disk[a].grants, now) = Live(sessions[a].grants, now)
=============================================================================
