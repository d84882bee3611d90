--------------------------- MODULE BunkerCommands ---------------------------
(***************************************************************************)
(* The scripted control of a running signer: `bunker pending', `bunker     *)
(* sessions' and the grants file they share with `connect' (cli/bunker/    *)
(* pending.go, command.go, grantspec.go).  Every command is a client of    *)
(* its own that lists first and acts on what it listed a call later        *)
(* (ipc_client.go), while other commands and the apps go on.  A request is *)
(* its scope <<method, kind>> and its app; a grant is a scope, kind Any    *)
(* for every kind, with a verdict.                                         *)
(***************************************************************************)
EXTENDS Naturals, FiniteSets, Sequences

CONSTANTS Ids,        \* request ids
          Request,    \* [Ids -> [app, method, kind]]
          Apps,
          Sensitive,  \* sensitiveKinds
          Commands,   \* runs of commands
          Asks,       \* the command lines they may be: see Start
          Any, None

VARIABLES waiting,    \* ids in the queue
          used,       \* ids that have arrived
          verdictOf,  \* [Ids -> how it was decided]
          grants,     \* [Apps -> the remembered grants]
          paired,     \* apps with a session
          run         \* [Commands -> [st, ask, grant, left]]

vars == <<waiting, used, verdictOf, grants, paired, run>>

Idle == [st |-> "idle", ask |-> None, left |-> <<>>]

----------------------------------------------------------------------------
\* GrantEntrySpec.UnmarshalJSON: connect and unknown methods are refused,
\* kinds belong to sign_event alone, expires and uses exclude each other.
Grantable == {"sign_event", "ping"}

ValidEntry(e) ==
    /\ e.method \in Grantable
    /\ (e.method = "sign_event") = (e.kinds # <<>>)
    /\ ~(e.expires /\ e.uses)

\* scopeKeys and Resolve walk an entry's kinds alike: one scope a kind.
Scopes(e) == IF e.method = "sign_event"
               THEN [i \in DOMAIN e.kinds |-> <<e.method, e.kinds[i]>>]
               ELSE << <<e.method, Any>> >>

Resolved(e) == [i \in DOMAIN Scopes(e) |-> [scope |-> Scopes(e)[i], verdict |-> e.verdict]]

\* GrantSpec.Resolve: the grants of every entry, in order.
Resolve(spec) ==
    LET upto[i \in 0..Len(spec)] == IF i = 0 THEN <<>> ELSE upto[i - 1] \o Resolved(spec[i])
    IN  upto[Len(spec)]

\* GrantSpec.UnmarshalJSON: not empty, no scope twice.
ValidSpecAny(spec) == spec # <<>> /\ \A i \in DOMAIN spec : ValidEntry(spec[i])

ValidSpec(spec) ==
    /\ ValidSpecAny(spec)
    /\ LET gs == Resolve(spec)
       IN  \A i, j \in DOMAIN gs : gs[i].scope = gs[j].scope => i = j

----------------------------------------------------------------------------
\* Store.Remember: a grant of the same scope is replaced (sameScope).
Remembered(set, g) == {h \in set : h.scope # g.scope} \cup {g}

\* Grant.matches, for the kind named and for any kind.
MatchesExact(g, r) == /\ g.scope = <<r.method, r.kind>>
                      /\ ~(g.verdict = "allow" /\ r.method = "sign_event" /\ r.kind \in Sensitive)

MatchesAny(g, r) == /\ g.scope = <<r.method, Any>>
                    /\ ~(r.method = "sign_event" /\ r.kind \in Sensitive)

\* Store.Decide: the exact grant before the any-kind one, else ask.
Decide(r) ==
    LET exact == {g \in grants[r.app] : MatchesExact(g, r)}
        any   == {g \in grants[r.app] : MatchesAny(g, r)}
    IN  IF exact # {} THEN (CHOOSE g \in exact : TRUE).verdict
        ELSE IF any # {} THEN (CHOOSE g \in any : TRUE).verdict ELSE "ask"

Init == /\ waiting = {}
        /\ used = {}
        /\ verdictOf = [i \in Ids |-> "-"]
        /\ grants = [a \in Apps |-> {}]
        /\ paired = Apps
        /\ run = [c \in Commands |-> Idle]

\* A request arrives: answered by a grant, or it waits for a decision.
Arrive(i) ==
    /\ i \notin used
    /\ used' = used \cup {i}
    /\ LET d == Decide(Request[i])
       IN  IF d = "ask" THEN waiting' = waiting \cup {i} /\ UNCHANGED verdictOf
           ELSE verdictOf' = [verdictOf EXCEPT ![i] = d] /\ UNCHANGED waiting
    /\ UNCHANGED <<grants, paired, run>>

\* The queue's own timeout.
Expire(i) ==
    /\ i \in waiting
    /\ waiting' = waiting \ {i}
    /\ verdictOf' = [verdictOf EXCEPT ![i] = "expired"]
    /\ UNCHANGED <<used, grants, paired, run>>

Ends(c, what) == run' = [run EXCEPT ![c].st = what]

\* resolvePending's remembered grant: a rejection covers the whole method;
\* an approval this kind, or with --any-kind every kind.
AlwaysGrant(ask) ==
    LET r == Request[ask.id]
    IN  [scope |-> <<r.method, IF ask.op = "reject" \/ ask.any \/ r.method # "sign_event"
                                 THEN Any ELSE r.kind>>,
         verdict |-> IF ask.op = "reject" THEN "deny" ELSE "allow"]

Refusable(ask) == /\ ask.op = "approve" /\ ask.always
                  /\ Request[ask.id].method = "sign_event"
                  /\ Request[ask.id].kind \in Sensitive

\* resolvePending up to the call: flags, ListPending, the grant.
PendingList(c, ask) ==
    /\ run[c].st = "idle" /\ ask.op \in {"approve", "reject"}
    /\ IF ask.any /\ ~ask.always THEN Ends(c, "usage")
       ELSE IF ask.id \notin waiting THEN Ends(c, "not found")
       ELSE IF Refusable(ask) THEN Ends(c, "refused")
       ELSE run' = [run EXCEPT ![c] =
                      [st |-> IF ask.always THEN "remember" ELSE "resolve", ask |-> ask,
                       left |-> IF ask.always THEN <<AlwaysGrant(ask)>> ELSE <<>>]]
    /\ UNCHANGED <<waiting, used, verdictOf, grants, paired>>

\* localClient.resolve, first half: the grant goes to the app of whatever
\* request carries the id now.
PendingRemember(c) ==
    /\ run[c].st = "remember"
    /\ IF run[c].ask.id \in waiting
         THEN LET a == Request[run[c].ask.id].app
              IN  /\ grants' = [grants EXCEPT ![a] = Remembered(@, Head(run[c].left))]
                  /\ paired' = paired \cup {a}
                  /\ Ends(c, "resolve")
         ELSE Ends(c, "failed") /\ UNCHANGED <<grants, paired>>
    /\ UNCHANGED <<waiting, used, verdictOf>>

\* Second half: Queue.Resolve refuses what is no longer pending.
PendingResolveAny(c) ==
    /\ run[c].st = "resolve"
    /\ waiting' = waiting \ {run[c].ask.id}
    /\ verdictOf' = [verdictOf EXCEPT ![run[c].ask.id] = run[c].ask.op]
    /\ Ends(c, "decided")
    /\ UNCHANGED <<used, grants, paired>>

PendingResolve(c) ==
    /\ run[c].st = "resolve"
    /\ IF run[c].ask.id \in waiting
         THEN /\ waiting' = waiting \ {run[c].ask.id}
              /\ verdictOf' = [verdictOf EXCEPT ![run[c].ask.id] = run[c].ask.op]
              /\ Ends(c, "decided")
         ELSE Ends(c, "failed") /\ UNCHANGED <<waiting, verdictOf>>
    /\ UNCHANGED <<used, grants, paired>>

\* newSetGrantCommand: the file is loaded and resolved, the app must have a
\* session; then one SetGrant a grant, the first failure ending the command.
SetGrantList(c, ask) ==
    /\ run[c].st = "idle" /\ ask.op = "set-grant"
    /\ IF ~ValidSpec(ask.spec) THEN Ends(c, "invalid")
       ELSE IF ask.app \notin paired THEN Ends(c, "not found")
       ELSE run' = [run EXCEPT ![c] = [st |-> "set", ask |-> ask, left |-> Resolve(ask.spec)]]
    /\ UNCHANGED <<waiting, used, verdictOf, grants, paired>>

SetGrant(c) ==
    /\ run[c].st = "set"
    /\ grants' = [grants EXCEPT ![run[c].ask.app] = Remembered(@, Head(run[c].left))]
    /\ paired' = paired \cup {run[c].ask.app}
    /\ run' = [run EXCEPT ![c].left = Tail(@),
                          ![c].st = IF Len(run[c].left) = 1 THEN "updated" ELSE "set"]
    /\ UNCHANGED <<waiting, used, verdictOf>>

\* Store.RevokeGrant: the grant of exactly that scope.
GrantsLeft(a, scope) == {g \in grants[a] : g.scope # scope}

\* sessions revoke and revoke-grant.
Revoke(c, ask) ==
    /\ run[c].st = "idle" /\ ask.op = "revoke"
    /\ IF ask.app \in paired THEN /\ grants' = [grants EXCEPT ![ask.app] = {}]
                                  /\ paired' = paired \ {ask.app}
                                  /\ Ends(c, "revoked")
       ELSE Ends(c, "not found") /\ UNCHANGED <<grants, paired>>
    /\ UNCHANGED <<waiting, used, verdictOf>>

RevokeGrant(c, ask) ==
    /\ run[c].st = "idle" /\ ask.op = "revoke-grant"
    /\ grants' = [grants EXCEPT ![ask.app] = GrantsLeft(ask.app, ask.scope)]
    /\ Ends(c, IF grants' = grants THEN "not found" ELSE "revoked")
    /\ UNCHANGED <<waiting, used, verdictOf, paired>>

Next == \/ \E i \in Ids : Arrive(i) \/ Expire(i)
        \/ \E c \in Commands :
             \/ PendingRemember(c) \/ PendingResolve(c) \/ SetGrant(c)
             \/ \E ask \in Asks : \/ PendingList(c, ask) \/ SetGrantList(c, ask)
                                  \/ Revoke(c, ask) \/ RevokeGrant(c, ask)

Spec == Init /\ [][Next]_vars

----------------------------------------------------------------------------
(***************************************************************************)
(* However many terminals decide the same request, one decision counts,    *)
(* and only the command that made it says so (Queue.Resolve under          *)
(* resolvePending).                                                        *)
(***************************************************************************)
DecidersAgree ==
    \A c \in Commands : run[c].st = "decided" =>
        /\ verdictOf[run[c].ask.id] = run[c].ask.op
        /\ \A d \in Commands \ {c} :
             ~(run[d].st = "decided" /\ run[d].ask.id = run[c].ask.id)

AppliedWhole(spec) ==
    LET gs == Resolve(spec)
        store[i \in 0..Len(gs)] == IF i = 0 THEN {} ELSE Remembered(store[i - 1], gs[i])
    IN  \A i \in DOMAIN gs : gs[i] \in store[Len(gs)]

(***************************************************************************)
(* A grants file that loads is applied whole: the grants it resolves to    *)
(* are all in the store afterwards, none having replaced another           *)
(* (GrantSpec.UnmarshalJSON, Resolve and Store.Remember together).         *)
(***************************************************************************)
SpecsApplyWhole == \A c \in Commands : run[c].st = "set" => AppliedWhole(run[c].ask.spec)

(***************************************************************************)
(* The help of `pending reject': --always also rejects this method from    *)
(* the app from now on.  So while the remembered rejection stands, no      *)
(* request of the method is left waiting for a decision that arrived       *)
(* after it.                                                               *)
(* It fails for the sensitive kinds of sign_event, which no any-kind grant *)
(* covers, a rejection no more than an approval.                           *)
(***************************************************************************)
RejectedFromNowOn ==
    [][\A i \in Ids : i \in waiting' \ waiting =>
          [scope |-> <<Request[i].method, Any>>, verdict |-> "deny"] \notin grants[Request[i].app]]_vars
=============================================================================
