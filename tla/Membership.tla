----------------------------- MODULE Membership -----------------------------
(* Relay membership as the admin surfaces change it: members and their roles,
   invite codes and the limits they carry, and the live huddles a removed
   member is evicted from (cli/relay/membership_admin.go and the REST and
   NIP-86 handlers over it, service_membership.go and service_nip86.go; the
   huddle door is huddle.go's Authorize hook).

   Both surfaces call the same membershipAdmin, several requests at a time.
   One call of the membership service or of the store is atomic; a handler
   that makes two is two steps.  The membership service, the store's claims
   and the room manager are the relay SDK's: Join writes a member's record
   whole, ConsumeInviteClaim checks and counts a use at once. *)
EXTENDS Naturals, FiniteSets

CONSTANTS Pubkeys, Roles, Codes,
          Ops,         \* admin requests in progress at once
          MaxOps,      \* bound: admin requests
          MaxNow,      \* bound: the clock
          Policy,      \* [defaultTTL, maxTTL, allowNoExpiry, defaultMaxUses]
          Absent,      \* a limit the request leaves out
          Limits,      \* limits requests ask for: [exp, uses], or Absent
          Kinds        \* the requests this instance makes

VARIABLES members,   \* pubkeys with a member record
          roles,     \* [Pubkeys -> SUBSET Roles], of the records
          invites,   \* [Codes -> claim]
          now,       \* unix time
          door,      \* pubkeys Authorize let through, not yet in a room
          calls,     \* pubkeys in a live huddle
          ops,       \* [Ops -> the admin request in progress]
          used,      \* requests so far
          asked,     \* [Codes -> the limits asked for and when]
          slipped,   \* in a room although removed between door and room
          granted    \* roles acknowledged as assigned and not taken since

vars == <<members, roles, invites, now, door, calls, ops, used, asked, slipped, granted>>
----------------------------------------------------------------------------
NoOp == [pc |-> "idle", k |-> "none", p |-> "", r |-> "", c |-> "", saw |-> {}, lim |-> [exp |-> 0, uses |-> 0]]
NoClaim == [on |-> FALSE, exp |-> 0, max |-> 0, uses |-> 0, gen |-> 0]
NoAsk == [at |-> 0, lim |-> [exp |-> Absent, uses |-> Absent]]

\* What resolveInviteLimits accepts: nothing is clamped, a limit outside the
\* policy is an error.
InPolicy(t, lim) ==
  /\ \/ lim.exp = Absent
     \/ lim.exp = 0 /\ Policy.allowNoExpiry
     \/ lim.exp > t /\ lim.exp <= t + Policy.maxTTL
  /\ lim.uses = Absent \/ lim.uses >= 1

\* Mutant: an expiry past the ceiling is pulled down to it.
ResolvedClamped(t, lim) ==
  [exp |-> IF lim.exp = Absent THEN t + Policy.defaultTTL
           ELSE IF lim.exp > t + Policy.defaultTTL THEN t + Policy.defaultTTL ELSE lim.exp,
   uses |-> IF lim.uses = Absent THEN Policy.defaultMaxUses ELSE lim.uses]

\* The values it resolves an accepted request to.
Resolved(t, lim) ==
  [exp |-> IF lim.exp = Absent THEN t + Policy.defaultTTL ELSE lim.exp,
   uses |-> IF lim.uses = Absent THEN Policy.defaultMaxUses ELSE lim.uses]

\* liveInviteCodes lists the codes not expired and not used up.
Live(c) == /\ invites[c].on
           /\ ~(invites[c].exp > 0 /\ now > invites[c].exp)
           /\ ~(invites[c].max > 0 /\ invites[c].uses >= invites[c].max)

Init ==
  /\ members \in SUBSET Pubkeys /\ roles = [p \in Pubkeys |-> {}]
  /\ invites = [c \in Codes |-> NoClaim]
  /\ now = 1 /\ door = {} /\ calls = {}
  /\ ops = [o \in Ops |-> NoOp] /\ used = 0
  /\ asked = [c \in Codes |-> NoAsk] /\ slipped = {} /\ granted = {}

Start(o, k) == /\ k \in Kinds /\ ops[o].pc = "idle" /\ used < MaxOps
               /\ used' = used + 1
Step(o, new) == ops' = [ops EXCEPT ![o] = new]
----------------------------------------------------------------------------
(* Members *)

\* addMember: Join with the roles the request gives, a membership event, and
\* the record read back.
AddMember(o, p, rs) ==
  /\ Start(o, "add")
  /\ members' = members \cup {p}
  /\ roles' = [roles EXCEPT ![p] = rs]
  /\ granted' = {g \in granted : g[1] # p} \cup ({p} \X rs)
  /\ UNCHANGED <<invites, now, door, calls, ops, asked, slipped>>

\* removeMember leaves first ...
RemoveMember(o, p) ==
  /\ Start(o, "remove")
  /\ members' = members \ {p}
  /\ roles' = [roles EXCEPT ![p] = {}]
  /\ granted' = {g \in granted : g[1] # p}
  /\ Step(o, [NoOp EXCEPT !.pc = "evict", !.k = "remove", !.p = p])
  /\ UNCHANGED <<invites, now, door, calls, asked, slipped>>

\* Mutant: a removal leaves the member's calls alone.
EvictNobody(o) ==
  /\ ops[o].pc = "evict" /\ Step(o, NoOp)
  /\ UNCHANGED <<members, roles, invites, now, door, calls, used, asked, slipped, granted>>

\* ... and then ends the member's calls.
Evict(o) ==
  /\ ops[o].pc = "evict"
  /\ calls' = calls \ {ops[o].p}
  /\ slipped' = slipped \ {ops[o].p}
  /\ Step(o, NoOp)
  /\ UNCHANGED <<members, roles, invites, now, door, used, asked, granted>>

\* setMemberRoles reads the record; someone who is no member is an error ...
ReadRoles(o, p, r, assign) ==
  /\ Start(o, IF assign THEN "assign" ELSE "unassign")
  /\ IF p \in members
     THEN Step(o, [NoOp EXCEPT !.pc = "join", !.k = IF assign THEN "assign" ELSE "unassign",
                               !.p = p, !.r = r, !.saw = roles[p]])
     ELSE Step(o, NoOp)
  /\ granted' = IF assign THEN granted ELSE granted \ {<<p, r>>}
  /\ UNCHANGED <<members, roles, invites, now, door, calls, asked, slipped>>

\* ... and joins the member again with the roles it computed from it.
JoinRoles(o) ==
  /\ ops[o].pc = "join"
  /\ LET p == ops[o].p
         new == IF ops[o].k = "assign" THEN ops[o].saw \cup {ops[o].r} ELSE ops[o].saw \ {ops[o].r}
     IN  /\ members' = members \cup {p}
         /\ roles' = [roles EXCEPT ![p] = new]
         /\ granted' = IF ops[o].k = "assign" THEN granted \cup {<<p, ops[o].r>>} ELSE granted
  /\ Step(o, NoOp)
  /\ UNCHANGED <<invites, now, door, calls, used, asked, slipped>>
----------------------------------------------------------------------------
(* Invites *)

\* createclaimwithlimits and the REST route with expires_at: limits outside
\* the policy are refused; a code that exists is refused ...
FindCode(o, c, lim) ==
  /\ Start(o, "invite")
  /\ IF InPolicy(now, lim) /\ ~invites[c].on
     THEN Step(o, [NoOp EXCEPT !.pc = "put", !.k = "invite", !.c = c, !.lim = Resolved(now, lim)])
          /\ asked' = [asked EXCEPT ![c] = [at |-> now, lim |-> lim]]
     ELSE Step(o, NoOp) /\ asked' = asked
  /\ UNCHANGED <<members, roles, invites, now, door, calls, slipped, granted>>

\* ... and the claim is stored whole, with no use counted.
PutCode(o) ==
  /\ ops[o].pc = "put"
  /\ LET c == ops[o].c
     IN  invites' = [invites EXCEPT ![c] = [on |-> TRUE, exp |-> ops[o].lim.exp,
                       max |-> ops[o].lim.uses, uses |-> 0, gen |-> @.gen + 1]]
  /\ Step(o, NoOp)
  /\ UNCHANGED <<members, roles, now, door, calls, used, asked, slipped, granted>>

\* revokeInvite looks the code up, so that an unknown one is an error ...
FindRevoked(o, c) ==
  /\ Start(o, "revoke")
  /\ IF invites[c].on THEN Step(o, [NoOp EXCEPT !.pc = "delete", !.k = "revoke", !.c = c])
     ELSE Step(o, NoOp)
  /\ UNCHANGED <<members, roles, invites, now, door, calls, asked, slipped, granted>>

\* ... and deletes whatever is stored under it by then.
DeleteCode(o) ==
  /\ ops[o].pc = "delete"
  /\ invites' = [invites EXCEPT ![ops[o].c] = [NoClaim EXCEPT !.gen = invites[ops[o].c].gen]]
  /\ Step(o, NoOp)
  /\ UNCHANGED <<members, roles, now, door, calls, used, asked, slipped, granted>>

\* Someone joins with a code.
Consume(p, c) ==
  /\ p \notin members /\ Live(c)
  /\ invites' = [invites EXCEPT ![c].uses = @ + 1]
  /\ members' = members \cup {p}
  /\ UNCHANGED <<roles, now, door, calls, ops, used, asked, slipped, granted>>
----------------------------------------------------------------------------
(* The huddle door *)

Authorize(p) ==
  /\ "huddle" \in Kinds /\ p \in members /\ p \notin door \cup calls
  /\ door' = door \cup {p}
  /\ UNCHANGED <<members, roles, invites, now, calls, ops, used, asked, slipped, granted>>

EnterRoom(p) ==
  /\ p \in door
  /\ door' = door \ {p}
  /\ calls' = calls \cup {p}
  /\ slipped' = IF p \in members THEN slipped \ {p} ELSE slipped \cup {p}
  /\ UNCHANGED <<members, roles, invites, now, ops, used, asked, granted>>

LeaveRoom(p) ==
  /\ p \in calls
  /\ calls' = calls \ {p} /\ slipped' = slipped \ {p}
  /\ UNCHANGED <<members, roles, invites, now, door, ops, used, asked, granted>>

Tick == /\ now < MaxNow /\ now' = now + 1
        /\ UNCHANGED <<members, roles, invites, door, calls, ops, used, asked, slipped, granted>>

Next ==
  \/ \E o \in Ops :
       \/ \E p \in Pubkeys : RemoveMember(o, p) \/ \E rs \in SUBSET Roles : AddMember(o, p, rs)
       \/ \E p \in Pubkeys, r \in Roles, a \in BOOLEAN : ReadRoles(o, p, r, a)
       \/ \E c \in Codes : FindRevoked(o, c) \/ \E l \in Limits : FindCode(o, c, l)
       \/ Evict(o) \/ JoinRoles(o) \/ PutCode(o) \/ DeleteCode(o)
  \/ \E p \in Pubkeys : \/ Authorize(p) \/ EnterRoom(p) \/ LeaveRoom(p)
                        \/ \E c \in Codes : Consume(p, c)
  \/ Tick

Spec == Init /\ [][Next]_vars
----------------------------------------------------------------------------
TypeOK ==
  /\ members \subseteq Pubkeys /\ door \subseteq Pubkeys /\ calls \subseteq Pubkeys
  /\ roles \in [Pubkeys -> SUBSET Roles]
  /\ now \in 1..MaxNow /\ used \in 0..MaxOps

\* Nobody who is no member any more stays in a huddle once the removal has
\* answered, except someone the door had let through just before: removeMember
\* takes the record away first and ends the calls after it.
RemovedLeavesCalls ==
  \A p \in calls \ members :
    p \in slipped \/ \E o \in Ops : ops[o].pc = "evict" /\ ops[o].p = p

\* A claim carries exactly the limits asked for, or the relay's defaults where
\* the request gave none, and they were inside the policy when it was asked:
\* resolveInviteLimits "NEVER clamps".
InvitesAsAsked ==
  (\A o \in Ops : ops[o].pc # "put") =>
  \A c \in Codes : (invites[c].on /\ invites[c].gen = 1) =>
    LET a == asked[c] IN
    /\ InPolicy(a.at, a.lim)
    /\ a.lim.exp # Absent => invites[c].exp = a.lim.exp
    /\ a.lim.exp = Absent => invites[c].exp = a.at + Policy.defaultTTL
    /\ a.lim.uses # Absent => invites[c].max = a.lim.uses

\* A role an admin was told is assigned stays on the member until someone takes
\* it, or the membership, away: setMemberRoles re-reads the record "so a
\* concurrent change to its other roles is not clobbered".
\* It fails: a change that comes between that read and the write is overwritten.
RolesNotClobbered ==
  (\A o \in Ops : ops[o].pc = "idle") => \A g \in granted : g[2] \in roles[g[1]]

\* A code in use is never replaced: a claim's count of uses only goes up until
\* it is revoked.
\* It fails: two requests that looked the code up before either stored it both
\* store it.
CodeNotReplaced ==
  [][\A c \in Codes : (invites[c].on /\ invites'[c].on) => invites'[c].uses >= invites[c].uses]_vars
=============================================================================
