---------------------------- MODULE RelayServices ----------------------------
(***************************************************************************)
(* What a relay keeps for its members and its admin: the membership admin  *)
(* and its two doors, the admin listener and the tokens of the metrics     *)
(* endpoint.  Each is proved correct for any keys, codes, events, windows, *)
(* limits and bounds; then they are put together, with part naming the one *)
(* that runs.  The clock and the member list are whoever's that is.        *)
(***************************************************************************)
EXTENDS Integers, Sequences, TLAPS

-----------------------------------------------------------------------------
(* Membership: members, calls and invites                                  *)

CONSTANTS Pubkeys, Roles, Codes, Ops, MaxOps, MaxNow, Policy, Absent, Limits, AdminKinds
VARIABLES members, roles, invites, now, door, calls, ops, used, asked, slipped, granted

M == INSTANCE Membership WITH Kinds <- AdminKinds

\* What resolveInviteLimits reads: limits and times are integers, or left out.
MembershipAssumption ==
  /\ Limits \subseteq [exp : Int \cup {Absent}, uses : Int \cup {Absent}]
  /\ Policy.defaultTTL \in Int /\ Policy.defaultMaxUses \in Int

Claims == [on : BOOLEAN, exp : Int, max : Int, uses : Int, gen : Nat]

\* A request that found code c free and has not stored it.
Putting(o, c) == ops[o].pc = "put" /\ ops[o].c = c

\* The limits the latest request for c asked for, and that they were allowed.
LatestLimits(c) == M!Resolved(asked[c].at, asked[c].lim)
LatestInPolicy(c) == M!InPolicy(asked[c].at, asked[c].lim)

\* The evictions in progress make up for the members in calls that are none.
CallsInv == DOMAIN ops = Ops /\ M!RemovedLeavesCalls

\* As long as a code was never stored, whoever asked for it last is still to
\* store it; once it is stored for the first time it carries what was asked
\* last, or a request for it is still to come.
ClaimsInv ==
  /\ DOMAIN ops = Ops /\ DOMAIN asked = Codes /\ now \in Int
  /\ invites \in [Codes -> Claims]
  /\ \A o \in Ops : ops[o].pc \in {"put", "delete"} => ops[o].c \in Codes
  /\ \A o \in Ops : ops[o].pc = "put" => ops[o].lim \in [exp : Int, uses : Int]
  /\ \A c \in Codes : invites[c].on => invites[c].gen >= 1
  /\ \A c \in Codes : invites[c].gen = 0 /\ (\E o \in Ops : Putting(o, c)) =>
       LatestInPolicy(c) /\ \E o \in Ops : Putting(o, c) /\ ops[o].lim = LatestLimits(c)
  /\ \A c \in Codes : invites[c].on /\ invites[c].gen = 1 =>
       \/ LatestInPolicy(c) /\ LatestLimits(c) = [exp |-> invites[c].exp, uses |-> invites[c].max]
       \/ \E o \in Ops : Putting(o, c)

\* A step of a request replaces its own entry (every handler of membershipAdmin).
LEMMA StepsOwn ==
  ASSUME DOMAIN ops = Ops, NEW o \in Ops, NEW new, M!Step(o, new)
  PROVE  /\ DOMAIN ops' = Ops /\ ops'[o] = new
         /\ \A x \in Ops \ {o} : ops'[x] = ops[x]
BY DEF M!Step

\* At first nobody is in a call.
LEMMA CallsInit ==
  ASSUME M!Init
  PROVE  CallsInv
BY DEF M!Init, CallsInv, M!RemovedLeavesCalls

\* Nobody gets into a room, or out of the members, without an eviction to come
\* or the door's leave (removeMember, Authorize).
LEMMA CallsStep ==
  ASSUME CallsInv, [M!Next]_(M!vars)
  PROVE  CallsInv'
<1>. USE DEF CallsInv, M!RemovedLeavesCalls
<1>1. ASSUME NEW o \in Ops, ops[o].pc # "evict", NEW new, M!Step(o, new),
             calls' = calls, slipped' = slipped, members \subseteq members'
      PROVE  CallsInv'
  BY <1>1, StepsOwn
<1>2. ASSUME ops' = ops, calls' = calls, slipped' = slipped, members \subseteq members'
      PROVE  CallsInv'
  BY <1>2
<1>3. ASSUME NEW o \in Ops, NEW p \in Pubkeys, M!RemoveMember(o, p)
      PROVE  CallsInv'
  <2>. DEFINE new == [M!NoOp EXCEPT !.pc = "evict", !.k = "remove", !.p = p]
  <2>1. new.pc = "evict" /\ new.p = p
    BY DEF M!NoOp
  <2>2. M!Step(o, new) /\ ops[o].pc = "idle" /\ members' = members \ {p}
        /\ calls' = calls /\ slipped' = slipped
    BY <1>3 DEF M!RemoveMember, M!Start
  <2>. HIDE DEF new
  <2>3. DOMAIN ops' = Ops /\ ops'[o] = new /\ \A x \in Ops \ {o} : ops'[x] = ops[x]
    BY <2>2, StepsOwn
  <2>. QED
    BY <2>1, <2>2, <2>3
<1>4. ASSUME NEW o \in Ops, M!Evict(o)
      PROVE  CallsInv'
  <2>1. M!Step(o, M!NoOp) /\ members' = members /\ calls' = calls \ {ops[o].p}
        /\ slipped' = slipped \ {ops[o].p}
    BY <1>4 DEF M!Evict
  <2>2. DOMAIN ops' = Ops /\ \A x \in Ops \ {o} : ops'[x] = ops[x]
    BY <2>1, StepsOwn
  <2>. QED
    BY <2>1, <2>2
<1>5. ASSUME NEW o \in Ops, NEW p \in Pubkeys, NEW rs \in SUBSET Roles, M!AddMember(o, p, rs)
      PROVE  CallsInv'
  BY <1>2, <1>5 DEF M!AddMember
<1>6. ASSUME NEW o \in Ops, NEW p \in Pubkeys, NEW r \in Roles, NEW a \in BOOLEAN, M!ReadRoles(o, p, r, a)
      PROVE  CallsInv'
  BY <1>1, <1>6 DEF M!ReadRoles, M!Start
<1>7. ASSUME NEW o \in Ops, M!JoinRoles(o)
      PROVE  CallsInv'
  BY <1>1, <1>7 DEF M!JoinRoles
<1>8. ASSUME NEW o \in Ops, NEW c \in Codes, NEW l \in Limits, M!FindCode(o, c, l)
      PROVE  CallsInv'
  BY <1>1, <1>8 DEF M!FindCode, M!Start
<1>9. ASSUME NEW o \in Ops, NEW c \in Codes, M!FindRevoked(o, c)
      PROVE  CallsInv'
  BY <1>1, <1>9 DEF M!FindRevoked, M!Start
<1>10. ASSUME NEW o \in Ops, M!PutCode(o) \/ M!DeleteCode(o)
      PROVE  CallsInv'
  BY <1>1, <1>10 DEF M!PutCode, M!DeleteCode
<1>11. ASSUME NEW p \in Pubkeys, M!EnterRoom(p)
      PROVE  CallsInv'
  BY <1>11 DEF M!EnterRoom
<1>12. ASSUME NEW p \in Pubkeys, M!LeaveRoom(p)
      PROVE  CallsInv'
  BY <1>12 DEF M!LeaveRoom
<1>13. ASSUME NEW p \in Pubkeys, M!Authorize(p) \/ \E c \in Codes : M!Consume(p, c)
      PROVE  CallsInv'
  BY <1>2, <1>13 DEF M!Authorize, M!Consume
<1>14. CASE M!Tick \/ UNCHANGED M!vars
  BY <1>2, <1>14 DEF M!Tick, M!vars
<1>. QED
  BY <1>3, <1>4, <1>5, <1>6, <1>7, <1>8, <1>9, <1>10, <1>11, <1>12, <1>13, <1>14 DEF M!Next

\* The invites and the requests to store one are as they were.
LEMMA ClaimsFrame ==
  ASSUME ClaimsInv, invites' = invites, asked' = asked, now' \in Int, DOMAIN ops' = Ops,
         \A o \in Ops : \/ ops'[o] = ops[o]
                        \/ /\ ops[o].pc # "put" /\ ops'[o].pc # "put"
                           /\ ops'[o].pc = "delete" => ops'[o].c \in Codes
  PROVE  ClaimsInv'
<1>. USE DEF ClaimsInv
<1>1. \A o \in Ops, c \in Codes : Putting(o, c)' <=> Putting(o, c)
  BY DEF Putting
<1>2. \A c \in Codes : (LatestLimits(c)' = LatestLimits(c)) /\ (LatestInPolicy(c)' <=> LatestInPolicy(c))
  BY DEF LatestLimits, LatestInPolicy
<1>3. \A o \in Ops : ops'[o].pc = "put" => ops'[o] = ops[o]
  OBVIOUS
<1>4. \A c \in Codes : invites'[c].gen = 0 /\ (\E o \in Ops : Putting(o, c)') =>
       LatestInPolicy(c)' /\ \E o \in Ops : Putting(o, c)' /\ ops'[o].lim = LatestLimits(c)'
  BY <1>1, <1>2, <1>3 DEF Putting
<1>5. \A c \in Codes : invites'[c].on /\ invites'[c].gen = 1 =>
       \/ LatestInPolicy(c)' /\ LatestLimits(c)' = [exp |-> invites'[c].exp, uses |-> invites'[c].max]
       \/ \E o \in Ops : Putting(o, c)'
  BY <1>1, <1>2
<1>. QED
  BY <1>3, <1>4, <1>5

\* An accepted request resolves to whole limits (resolveInviteLimits).
LEMMA ResolvedTyped ==
  ASSUME MembershipAssumption, now \in Int, NEW lim \in Limits
  PROVE  M!Resolved(now, lim) \in [exp : Int, uses : Int]
<1>1. lim.exp \in Int \cup {Absent} /\ lim.uses \in Int \cup {Absent}
  BY DEF MembershipAssumption
<1>. QED
  BY <1>1 DEF MembershipAssumption, M!Resolved

\* A request that finds the code free asks for it last and is still to store it.
LEMMA FindCodeStep ==
  ASSUME MembershipAssumption, ClaimsInv, NEW o \in Ops, NEW c \in Codes, NEW lim \in Limits,
         M!FindCode(o, c, lim)
  PROVE  ClaimsInv'
<1>1. CASE ~(M!InPolicy(now, lim) /\ ~invites[c].on)
  <2>1. M!Step(o, M!NoOp) /\ UNCHANGED <<invites, asked, now>> /\ ops[o].pc = "idle"
    BY <1>1 DEF M!FindCode, M!Start
  <2>2. M!NoOp.pc = "idle"
    BY DEF M!NoOp
  <2>3. DOMAIN ops' = Ops /\ ops'[o] = M!NoOp /\ \A x \in Ops \ {o} : ops'[x] = ops[x]
    BY <2>1, StepsOwn DEF ClaimsInv
  <2>. QED
    BY <2>1, <2>2, <2>3, ClaimsFrame DEF ClaimsInv
<1>2. CASE M!InPolicy(now, lim) /\ ~invites[c].on
  <2>. DEFINE new == [M!NoOp EXCEPT !.pc = "put", !.k = "invite", !.c = c, !.lim = M!Resolved(now, lim)]
  <2>1. new.pc = "put" /\ new.c = c /\ new.lim = M!Resolved(now, lim)
    BY DEF M!NoOp
  <2>2. M!Step(o, new) /\ UNCHANGED <<invites, now>> /\ ops[o].pc = "idle"
        /\ asked' = [asked EXCEPT ![c] = [at |-> now, lim |-> lim]]
    BY <1>2 DEF M!FindCode, M!Start
  <2>. HIDE DEF new
  <2>3. DOMAIN ops' = Ops /\ ops'[o] = new /\ \A x \in Ops \ {o} : ops'[x] = ops[x]
    BY <2>2, StepsOwn DEF ClaimsInv
  <2>4. DOMAIN asked' = Codes /\ asked'[c] = [at |-> now, lim |-> lim]
        /\ \A d \in Codes \ {c} : asked'[d] = asked[d]
    BY <2>2 DEF ClaimsInv
  <2>5. LatestInPolicy(c)' /\ LatestLimits(c)' = M!Resolved(now, lim)
    BY <1>2, <2>4 DEF LatestInPolicy, LatestLimits, M!InPolicy, M!Resolved
  <2>6. \A d \in Codes \ {c} : (LatestLimits(d)' = LatestLimits(d)) /\ (LatestInPolicy(d)' <=> LatestInPolicy(d))
    BY <2>4 DEF LatestLimits, LatestInPolicy, M!InPolicy, M!Resolved
  <2>7. Putting(o, c)' /\ \A x \in Ops, d \in Codes \ {c} : Putting(x, d)' <=> Putting(x, d)
    BY <2>1, <2>2, <2>3 DEF Putting
  <2>8. M!Resolved(now, lim) \in [exp : Int, uses : Int]
    BY ResolvedTyped DEF ClaimsInv
  <2>9. /\ \A x \in Ops : ops'[x].pc \in {"put", "delete"} => ops'[x].c \in Codes
        /\ \A x \in Ops : ops'[x].pc = "put" => ops'[x].lim \in [exp : Int, uses : Int]
    BY <2>1, <2>3, <2>8 DEF ClaimsInv
  <2>10. ASSUME NEW d \in Codes, invites'[d].gen = 0, \E x \in Ops : Putting(x, d)'
         PROVE  LatestInPolicy(d)' /\ \E x \in Ops : Putting(x, d)' /\ ops'[x].lim = LatestLimits(d)'
    <3>1. CASE d = c
      BY <2>1, <2>3, <2>5, <2>7, <3>1
    <3>2. CASE d # c
      <4>1. PICK x \in Ops : Putting(x, d) /\ ops[x].lim = LatestLimits(d) /\ LatestInPolicy(d)
        BY <2>2, <2>7, <2>10, <3>2 DEF ClaimsInv
      <4>2. ops'[x] = ops[x]
        BY <2>2, <2>3, <4>1 DEF Putting
      <4>. QED
        BY <2>6, <2>7, <3>2, <4>1, <4>2
    <3>. QED
      BY <3>1, <3>2
  <2>11. ASSUME NEW d \in Codes, invites'[d].on, invites'[d].gen = 1
         PROVE  \/ LatestInPolicy(d)' /\ LatestLimits(d)' = [exp |-> invites'[d].exp, uses |-> invites'[d].max]
                \/ \E x \in Ops : Putting(x, d)'
    BY <1>2, <2>2, <2>6, <2>7, <2>11 DEF ClaimsInv
  <2>. QED
    BY <2>2, <2>3, <2>4, <2>9, <2>10, <2>11 DEF ClaimsInv
<1>. QED
  BY <1>1, <1>2

\* A code stored for the first time carries its request's limits; if that was
\* not the last request, the last one is still to come.
LEMMA PutCodeStep ==
  ASSUME ClaimsInv, NEW o \in Ops, M!PutCode(o)
  PROVE  ClaimsInv'
<1>. DEFINE c == ops[o].c
            new == [on |-> TRUE, exp |-> ops[o].lim.exp, max |-> ops[o].lim.uses, uses |-> 0,
                    gen |-> invites[c].gen + 1]
<1>1. Putting(o, c) /\ c \in Codes /\ ops[o].lim \in [exp : Int, uses : Int]
  BY DEF M!PutCode, ClaimsInv, Putting
<1>2. M!Step(o, M!NoOp) /\ UNCHANGED <<asked, now>>
  BY DEF M!PutCode
<1>3. M!NoOp.pc = "idle"
  BY DEF M!NoOp
<1>4. DOMAIN ops' = Ops /\ ops'[o] = M!NoOp /\ \A x \in Ops \ {o} : ops'[x] = ops[x]
  BY <1>2, StepsOwn DEF ClaimsInv
<1>5. invites' = [invites EXCEPT ![c] = new]
  BY DEF M!PutCode
<1>6. new \in Claims /\ new.gen = invites[c].gen + 1 /\ new.exp = ops[o].lim.exp /\ new.max = ops[o].lim.uses
      /\ invites[c].gen \in Nat
  BY <1>1 DEF Claims, ClaimsInv
<1>7. Putting(o, c) /\ c = ops[o].c
  BY <1>1
<1>. HIDE DEF new, c
<1>8. invites' \in [Codes -> Claims] /\ invites'[c] = new /\ \A d \in Codes \ {c} : invites'[d] = invites[d]
  BY <1>1, <1>5, <1>6 DEF ClaimsInv
<1>9. \A d \in Codes : (LatestLimits(d)' = LatestLimits(d)) /\ (LatestInPolicy(d)' <=> LatestInPolicy(d))
  BY <1>2 DEF LatestLimits, LatestInPolicy, M!InPolicy, M!Resolved
<1>10. \A d \in Codes \ {c}, x \in Ops : Putting(x, d)' <=> Putting(x, d)
  BY <1>3, <1>4, <1>7 DEF Putting
<1>11. /\ \A x \in Ops : ops'[x].pc \in {"put", "delete"} => ops'[x].c \in Codes
       /\ \A x \in Ops : ops'[x].pc = "put" => ops'[x].lim \in [exp : Int, uses : Int]
  BY <1>3, <1>4 DEF ClaimsInv
<1>12. \A d \in Codes : invites'[d].on => invites'[d].gen >= 1
  BY <1>6, <1>8 DEF ClaimsInv
<1>13. ASSUME NEW d \in Codes, invites'[d].gen = 0, \E x \in Ops : Putting(x, d)'
       PROVE  LatestInPolicy(d)' /\ \E x \in Ops : Putting(x, d)' /\ ops'[x].lim = LatestLimits(d)'
  <2>1. d # c /\ invites[d].gen = 0
    BY <1>6, <1>8, <1>13
  <2>2. PICK x \in Ops : Putting(x, d) /\ ops[x].lim = LatestLimits(d) /\ LatestInPolicy(d)
    BY <1>10, <1>13, <2>1 DEF ClaimsInv
  <2>3. ops'[x] = ops[x]
    BY <1>4, <1>7, <2>1, <2>2 DEF Putting
  <2>. QED
    BY <1>9, <1>10, <2>1, <2>2, <2>3
<1>14. ASSUME NEW d \in Codes, invites'[d].on, invites'[d].gen = 1
       PROVE  \/ LatestInPolicy(d)' /\ LatestLimits(d)' = [exp |-> invites'[d].exp, uses |-> invites'[d].max]
              \/ \E x \in Ops : Putting(x, d)'
  <2>1. CASE d = c
    <3>1. invites[c].gen = 0
      BY <1>6, <1>8, <1>14, <2>1
    <3>2. PICK x \in Ops : Putting(x, c) /\ ops[x].lim = LatestLimits(c) /\ LatestInPolicy(c)
      BY <1>1, <1>7, <3>1 DEF ClaimsInv
    <3>3. CASE x = o
      <4>1. LatestLimits(c) = [exp |-> ops[o].lim.exp, uses |-> ops[o].lim.uses]
        BY <1>1, <3>2, <3>3
      <4>. QED
        BY <1>6, <1>8, <1>9, <2>1, <3>2, <4>1
    <3>4. CASE x # o
      BY <1>4, <2>1, <3>2, <3>4 DEF Putting
    <3>. QED
      BY <3>3, <3>4
  <2>2. CASE d # c
    BY <1>8, <1>9, <1>10, <1>14, <2>2 DEF ClaimsInv
  <2>. QED
    BY <2>1, <2>2
<1>. QED
  BY <1>2, <1>4, <1>8, <1>11, <1>12, <1>13, <1>14 DEF ClaimsInv

\* A revoked code, or one more use of a code, changes no limit and no count of
\* how often it was stored.
LEMMA InviteTouched ==
  ASSUME ClaimsInv, NEW c \in Codes, NEW claim \in Claims, invites' = [invites EXCEPT ![c] = claim],
         claim.gen = invites[c].gen,
         claim.on => invites[c].on /\ claim.exp = invites[c].exp /\ claim.max = invites[c].max,
         UNCHANGED <<asked, now>>, DOMAIN ops' = Ops,
         \A o \in Ops : \/ ops'[o] = ops[o]
                        \/ ops[o].pc # "put" /\ ops'[o].pc \notin {"put", "delete"}
  PROVE  ClaimsInv'
<1>1. invites' \in [Codes -> Claims] /\ invites'[c] = claim /\ \A d \in Codes \ {c} : invites'[d] = invites[d]
  BY DEF ClaimsInv
<1>2. \A o \in Ops, d \in Codes : Putting(o, d)' <=> Putting(o, d)
  BY DEF Putting
<1>3. \A d \in Codes : (LatestLimits(d)' = LatestLimits(d)) /\ (LatestInPolicy(d)' <=> LatestInPolicy(d))
  BY DEF LatestLimits, LatestInPolicy, M!InPolicy, M!Resolved
<1>4. \A o \in Ops : ops'[o].pc = "put" => ops'[o] = ops[o]
  OBVIOUS
<1>5. /\ \A o \in Ops : ops'[o].pc \in {"put", "delete"} => ops'[o].c \in Codes
      /\ \A o \in Ops : ops'[o].pc = "put" => ops'[o].lim \in [exp : Int, uses : Int]
  BY <1>4 DEF ClaimsInv
<1>6. \A d \in Codes : invites'[d].on => invites'[d].gen >= 1
  BY <1>1 DEF ClaimsInv
<1>7. ASSUME NEW d \in Codes, invites'[d].gen = 0, \E o \in Ops : Putting(o, d)'
      PROVE  LatestInPolicy(d)' /\ \E o \in Ops : Putting(o, d)' /\ ops'[o].lim = LatestLimits(d)'
  <2>1. PICK o \in Ops : Putting(o, d) /\ ops[o].lim = LatestLimits(d) /\ LatestInPolicy(d)
    BY <1>1, <1>2, <1>7 DEF ClaimsInv
  <2>2. ops'[o] = ops[o]
    BY <2>1 DEF Putting
  <2>. QED
    BY <1>2, <1>3, <2>1, <2>2
<1>8. ASSUME NEW d \in Codes, invites'[d].on, invites'[d].gen = 1
      PROVE  \/ LatestInPolicy(d)' /\ LatestLimits(d)' = [exp |-> invites'[d].exp, uses |-> invites'[d].max]
             \/ \E o \in Ops : Putting(o, d)'
  BY <1>1, <1>2, <1>3, <1>8 DEF ClaimsInv
<1>. QED
  BY <1>1, <1>5, <1>6, <1>7, <1>8 DEF ClaimsInv

\* A revoked invite is gone, and counts as asked for no longer (inviteRevoke).
LEMMA DeleteCodeStep ==
  ASSUME ClaimsInv, NEW o \in Ops, M!DeleteCode(o)
  PROVE  ClaimsInv'
<1>1. ops[o].pc = "delete" /\ ops[o].c \in Codes
  BY DEF M!DeleteCode, ClaimsInv
<1>2. PICK c \in Codes : c = ops[o].c
  BY <1>1
<1>. DEFINE claim == [M!NoClaim EXCEPT !.gen = invites[c].gen]
<1>3. claim \in Claims /\ claim.gen = invites[c].gen /\ ~claim.on
  <2>1. M!NoClaim \in Claims /\ ~M!NoClaim.on
    BY DEF M!NoClaim, Claims
  <2>2. invites[c].gen \in Nat
    BY DEF ClaimsInv, Claims
  <2>3. claim \in Claims /\ claim.gen = invites[c].gen /\ claim.on = M!NoClaim.on
    BY <2>1, <2>2 DEF Claims
  <2>. QED
    BY <2>1, <2>3
<1>4. invites' = [invites EXCEPT ![c] = claim] /\ UNCHANGED <<asked, now>> /\ M!Step(o, M!NoOp)
  BY <1>2 DEF M!DeleteCode
<1>. HIDE DEF claim
<1>5. DOMAIN ops' = Ops /\ ops'[o] = M!NoOp /\ \A x \in Ops \ {o} : ops'[x] = ops[x]
  BY <1>4, StepsOwn DEF ClaimsInv
<1>6. M!NoOp.pc = "idle"
  BY DEF M!NoOp
<1>7. \A x \in Ops : ops'[x] = ops[x] \/ (ops[x].pc # "put" /\ ops'[x].pc \notin {"put", "delete"})
  BY <1>1, <1>5, <1>6
<1>. QED
  BY <1>3, <1>4, <1>5, <1>7, InviteTouched

\* Using an invite counts a use and leaves its limits alone (ConsumeInvite).
LEMMA ConsumeStep ==
  ASSUME ClaimsInv, NEW p \in Pubkeys, NEW c \in Codes, M!Consume(p, c)
  PROVE  ClaimsInv'
<1>. DEFINE claim == [invites[c] EXCEPT !.uses = @ + 1]
<1>1. invites[c] \in Claims
  BY DEF ClaimsInv
<1>2. /\ claim \in Claims /\ claim.gen = invites[c].gen /\ claim.on = invites[c].on
      /\ claim.exp = invites[c].exp /\ claim.max = invites[c].max
  BY <1>1 DEF Claims
<1>3. invites' = [invites EXCEPT ![c] = claim] /\ UNCHANGED <<asked, now, ops>>
  BY DEF M!Consume
<1>. HIDE DEF claim
<1>. QED
  BY <1>2, <1>3, InviteTouched DEF ClaimsInv

\* Only a request for a code, its storing, a revocation or a use touch an invite.
LEMMA ClaimsStep ==
  ASSUME MembershipAssumption, ClaimsInv, [M!Next]_(M!vars)
  PROVE  ClaimsInv'
<1>1. ASSUME NEW o \in Ops, NEW new, M!Step(o, new), ops[o].pc # "put", new.pc # "put",
             new.pc = "delete" => new.c \in Codes, UNCHANGED <<invites, asked, now>>
      PROVE  ClaimsInv'
  <2>1. DOMAIN ops' = Ops /\ ops'[o] = new /\ \A x \in Ops \ {o} : ops'[x] = ops[x]
    BY <1>1, StepsOwn DEF ClaimsInv
  <2>. QED
    BY <1>1, <2>1, ClaimsFrame DEF ClaimsInv
<1>2. ASSUME UNCHANGED <<invites, asked, ops>>, now' \in Int
      PROVE  ClaimsInv'
  BY <1>2, ClaimsFrame DEF ClaimsInv
<1>3. ASSUME NEW o \in Ops, NEW p \in Pubkeys, M!RemoveMember(o, p)
      PROVE  ClaimsInv'
  BY <1>1, <1>3 DEF M!RemoveMember, M!Start, M!NoOp
<1>4. ASSUME NEW o \in Ops, NEW p \in Pubkeys, NEW rs \in SUBSET Roles, M!AddMember(o, p, rs)
      PROVE  ClaimsInv'
  BY <1>2, <1>4 DEF M!AddMember, ClaimsInv
<1>5. ASSUME NEW o \in Ops, NEW p \in Pubkeys, NEW r \in Roles, NEW a \in BOOLEAN, M!ReadRoles(o, p, r, a)
      PROVE  ClaimsInv'
  BY <1>1, <1>5 DEF M!ReadRoles, M!Start, M!NoOp
<1>6. ASSUME NEW o \in Ops, M!Evict(o) \/ M!JoinRoles(o)
      PROVE  ClaimsInv'
  BY <1>1, <1>6 DEF M!Evict, M!JoinRoles, M!NoOp
<1>7. ASSUME NEW o \in Ops, NEW c \in Codes, M!FindRevoked(o, c)
      PROVE  ClaimsInv'
  BY <1>1, <1>7 DEF M!FindRevoked, M!Start, M!NoOp
<1>8. ASSUME NEW p \in Pubkeys, M!Authorize(p) \/ M!EnterRoom(p) \/ M!LeaveRoom(p)
      PROVE  ClaimsInv'
  BY <1>2, <1>8 DEF M!Authorize, M!EnterRoom, M!LeaveRoom, ClaimsInv
<1>9. CASE M!Tick \/ UNCHANGED M!vars
  BY <1>2, <1>9 DEF M!Tick, M!vars, ClaimsInv
<1>. QED
  BY <1>3, <1>4, <1>5, <1>6, <1>7, <1>8, <1>9, FindCodeStep, PutCodeStep, DeleteCodeStep, ConsumeStep DEF M!Next

\* At first no invite is stored and nobody asks for one.
LEMMA ClaimsInit ==
  ASSUME M!Init
  PROVE  ClaimsInv
<1>1. M!NoOp.pc = "idle" /\ M!NoClaim \in Claims /\ ~M!NoClaim.on /\ M!NoClaim.gen = 0
  BY DEF M!NoOp, M!NoClaim, Claims
<1>2. /\ invites = [c \in Codes |-> M!NoClaim] /\ now = 1
      /\ ops = [o \in Ops |-> M!NoOp] /\ asked = [c \in Codes |-> M!NoAsk]
  BY DEF M!Init
<1>. QED
  BY <1>1, <1>2 DEF ClaimsInv, Putting

\* With no request under way, an invite stored once carries what was asked.
LEMMA ClaimsAsAsked ==
  ASSUME ClaimsInv
  PROVE  M!InvitesAsAsked
<1>. SUFFICES ASSUME \A o \in Ops : ops[o].pc # "put", NEW c \in Codes, invites[c].on, invites[c].gen = 1
     PROVE  LET a == asked[c] IN
            /\ M!InPolicy(a.at, a.lim)
            /\ a.lim.exp # Absent => invites[c].exp = a.lim.exp
            /\ a.lim.exp = Absent => invites[c].exp = a.at + Policy.defaultTTL
            /\ a.lim.uses # Absent => invites[c].max = a.lim.uses
  BY DEF M!InvitesAsAsked
<1>1. LatestInPolicy(c) /\ LatestLimits(c) = [exp |-> invites[c].exp, uses |-> invites[c].max]
  BY DEF ClaimsInv, Putting
<1>. QED
  BY <1>1 DEF LatestInPolicy, LatestLimits, M!Resolved

\* Nobody whose membership was taken away stays in a huddle once the removal
\* answered, unless the door let them through just before, whichever requests
\* cross (removeMember, Authorize).
THEOREM RemovedLeave == M!Spec => []M!RemovedLeavesCalls
<1>1. M!Init => CallsInv
  BY CallsInit
<1>2. CallsInv /\ [M!Next]_(M!vars) => CallsInv'
  BY CallsStep
<1>3. CallsInv => M!RemovedLeavesCalls
  BY DEF CallsInv
<1>. QED
  BY <1>1, <1>2, <1>3, PTL DEF M!Spec

\* A claim carries exactly the limits asked for last, or the defaults, and they
\* were inside the policy: resolveInviteLimits never clamps, and two requests for
\* one code that cross never mix their limits.
THEOREM InvitesKept ==
  ASSUME MembershipAssumption
  PROVE  M!Spec => []M!InvitesAsAsked
<1>1. M!Init => ClaimsInv
  BY ClaimsInit
<1>2. ClaimsInv /\ [M!Next]_(M!vars) => ClaimsInv'
  BY ClaimsStep
<1>3. ClaimsInv => M!InvitesAsAsked
  BY ClaimsAsAsked
<1>. QED
  BY <1>1, <1>2, <1>3, PTL DEF M!Spec

-----------------------------------------------------------------------------
(* MembershipDoors: the REST and the NIP-86 door                           *)

CONSTANTS Keys, Admins, DoorCodes, WeakCodes, Expiries, TTL, MaxTTL, Uses, Reqs, MaxRequests, MaxDoorNow
VARIABLES conf, claims, req, count

D == INSTANCE MembershipDoors WITH Codes <- DoorCodes, MaxNow <- MaxDoorNow

\* The requests at the doors, and none.
DoorRequests ==
  [pc : {"idle", "auth", "dispatch"}, caller : Keys \cup {""}, door : {"", "rest", "nip86"},
   method : D!Methods \cup {""}, who : Keys \cup {""}, code : DoorCodes \cup {""}, exp : Expiries \cup {0}]

\* Whoever is let in and is no admin came through the NIP-86 door, of a relay
\* with membership and member claims.
LetIn(q) ==
  req[q].pc = "dispatch" /\ req[q].caller \notin Admins =>
    req[q].door = "nip86" /\ conf.on /\ conf.claims

DoorsInv ==
  /\ conf \in D!Confs /\ DOMAIN claims = DoorCodes /\ req \in [Reqs -> DoorRequests]
  /\ \A q \in Reqs : req[q].pc # "idle" => req[q].door \in {"rest", "nip86"}
  /\ \A q \in Reqs : LetIn(q)
  /\ D!DoorsAgree

\* What arrives is a request, through one of the doors.
LEMMA RequestsTyped ==
  ASSUME NEW r \in D!Requests
  PROVE  r \in DoorRequests /\ r.pc = "auth" /\ r.door \in {"rest", "nip86"}
BY DEF D!Requests, D!Calls, D!Methods, DoorRequests

\* A request that ends, or is refused, leaves the others where they were.
LEMMA EndsOwn ==
  ASSUME DoorsInv, NEW q \in Reqs, D!Ends(q)
  PROVE  /\ req' \in [Reqs -> DoorRequests] /\ req'[q] = D!Idle
         /\ \A x \in Reqs \ {q} : req'[x] = req[x]
<1>1. D!Idle \in DoorRequests
  BY DEF D!Idle, DoorRequests
<1>. QED
  BY <1>1 DEF DoorsInv, D!Ends

\* A request's end disturbs nothing but its own entry.
LEMMA DoorsEnd ==
  ASSUME DoorsInv, NEW q \in Reqs, D!Ends(q), conf' = conf, DOMAIN claims' = DoorCodes, D!DoorsAgree'
  PROVE  DoorsInv'
<1>1. D!Idle.pc = "idle"
  BY DEF D!Idle
<1>. QED
  BY <1>1, EndsOwn DEF DoorsInv, LetIn

\* One claim that is stored whole, for a dispatched request.
LEMMA ClaimStored ==
  ASSUME DoorsInv, NEW c, NEW e, NEW x \in BOOLEAN, claims' = [claims EXCEPT ![c] = D!Claim(e, x)],
         conf' = conf, conf.on, x => D!InPolicy(now, e)
  PROVE  DOMAIN claims' = DoorCodes /\ D!DoorsAgree'
<1>1. D!Claim(e, x).explicit = x /\ D!Claim(e, x).at = now /\ D!Claim(e, x).exp = e
  BY DEF D!Claim
<1>2. \A t, f : D!InPolicy(t, f)' <=> D!InPolicy(t, f)
  BY DEF D!InPolicy
<1>3. DOMAIN claims' = DoorCodes /\ \A d \in DoorCodes : claims'[d] = IF d = c THEN D!Claim(e, x) ELSE claims[d]
  BY DEF DoorsInv
<1>. HIDE DEF D!Claim
<1>. QED
  BY <1>1, <1>2, <1>3 DEF DoorsInv, D!DoorsAgree

\* With the claims as they were the doors agree as they did.
LEMMA ClaimsSame ==
  ASSUME DoorsInv, claims' = claims, conf' = conf
  PROVE  DOMAIN claims' = DoorCodes /\ D!DoorsAgree'
BY DEF DoorsInv, D!DoorsAgree, D!InPolicy

\* Every handler of either door leaves them agreeing.
LEMMA DoorsStep ==
  ASSUME DoorsInv, [D!Next]_(D!vars)
  PROVE  DoorsInv'
<1>1. ASSUME req' = req, conf' = conf, claims' = claims
      PROVE  DoorsInv'
  BY <1>1, ClaimsSame DEF DoorsInv, LetIn
<1>2. ASSUME NEW q \in Reqs, D!Refused(q)
      PROVE  DoorsInv'
  BY <1>2, DoorsEnd, ClaimsSame DEF D!Refused
<1>3. ASSUME NEW q \in Reqs, NEW r \in D!Requests, D!Arrive(q, r)
      PROVE  DoorsInv'
  <2>1. r \in DoorRequests /\ r.pc = "auth" /\ r.door \in {"rest", "nip86"}
    BY RequestsTyped
  <2>2. req' = [req EXCEPT ![q] = r] /\ UNCHANGED <<conf, claims>>
    BY <1>3 DEF D!Arrive
  <2>3. DOMAIN claims' = DoorCodes /\ D!DoorsAgree'
    BY <2>2, ClaimsSame
  <2>. QED
    BY <2>1, <2>2, <2>3 DEF DoorsInv, LetIn
<1>4. ASSUME NEW q \in Reqs, D!Authenticate(q)
      PROVE  DoorsInv'
  <2>1. CASE D!Refused(q)
    BY <1>2, <2>1
  <2>2. CASE /\ req' = [req EXCEPT ![q].pc = "dispatch"]
             /\ UNCHANGED <<conf, members, claims, now, count>>
             /\ IF req[q].door = "rest" THEN D!AdminAuth(req[q].caller) ELSE D!Nip86Auth(req[q].caller)
    <3>1. req[q] \in DoorRequests /\ req[q].door \in {"rest", "nip86"}
      BY <1>4 DEF DoorsInv, D!Authenticate
    <3>2. /\ req' \in [Reqs -> DoorRequests] /\ req'[q].pc = "dispatch"
          /\ req'[q].door = req[q].door /\ req'[q].caller = req[q].caller
          /\ \A x \in Reqs \ {q} : req'[x] = req[x]
      BY <2>2, <3>1 DEF DoorsInv, DoorRequests
    <3>3. LetIn(q)'
      BY <2>2, <3>1, <3>2 DEF LetIn, D!AdminAuth, D!Nip86Auth
    <3>4. DOMAIN claims' = DoorCodes /\ D!DoorsAgree'
      BY <2>2, ClaimsSame
    <3>. QED
      BY <2>2, <3>1, <3>2, <3>3, <3>4 DEF DoorsInv, LetIn
  <2>. QED
    BY <1>4, <2>1, <2>2 DEF D!Authenticate
<1>5. ASSUME NEW q \in Reqs, D!NotDispatched(q)
      PROVE  DoorsInv'
  BY <1>2, <1>5 DEF D!NotDispatched
<1>6. ASSUME NEW q \in Reqs, D!AllowPubkey(q) \/ D!UnallowPubkey(q) \/ D!ListClaims(q)
      PROVE  DoorsInv'
  BY <1>6, DoorsEnd, ClaimsSame DEF D!AllowPubkey, D!UnallowPubkey, D!ListClaims
<1>7. ASSUME NEW q \in Reqs, D!CreateClaim(q)
      PROVE  DoorsInv'
  <2>1. DOMAIN claims' = DoorCodes /\ D!DoorsAgree'
    BY <1>7, ClaimsSame, ClaimStored DEF D!CreateClaim, D!Dispatched, D!RequireMembership
  <2>. QED
    BY <1>7, <2>1, DoorsEnd DEF D!CreateClaim
<1>8. ASSUME NEW q \in Reqs, D!CreateClaimWithLimits(q)
      PROVE  DoorsInv'
  <2>1. DOMAIN claims' = DoorCodes /\ D!DoorsAgree'
    BY <1>8, ClaimsSame, ClaimStored DEF D!CreateClaimWithLimits, D!Dispatched, D!RequireMembership
  <2>. QED
    BY <1>8, <2>1, DoorsEnd DEF D!CreateClaimWithLimits
<1>9. ASSUME NEW q \in Reqs, D!InviteCreate(q)
      PROVE  DoorsInv'
  <2>1. DOMAIN claims' = DoorCodes /\ D!DoorsAgree'
    BY <1>9, ClaimsSame, ClaimStored DEF D!InviteCreate, D!Dispatched, D!RequireMembership
  <2>. QED
    BY <1>9, <2>1, DoorsEnd DEF D!InviteCreate
<1>10. ASSUME NEW q \in Reqs, D!DeleteClaim(q)
      PROVE  DoorsInv'
  <2>1. ~D!NoClaim.on
    BY DEF D!NoClaim
  <2>2. DOMAIN claims' = DoorCodes /\ D!DoorsAgree'
    BY <1>10, <2>1 DEF D!DeleteClaim, DoorsInv, D!DoorsAgree, D!InPolicy
  <2>. QED
    BY <1>10, <2>2, DoorsEnd DEF D!DeleteClaim
<1>11. ASSUME NEW k \in Keys, D!Joins(k) \/ D!Leaves(k)
      PROVE  DoorsInv'
  BY <1>1, <1>11 DEF D!Joins, D!Leaves
<1>12. CASE D!Tick \/ UNCHANGED D!vars
  BY <1>1, <1>12 DEF D!Tick, D!vars
<1>. QED
  BY <1>3, <1>4, <1>5, <1>6, <1>7, <1>8, <1>9, <1>10, <1>11, <1>12 DEF D!Next

\* At first no request is at a door and no claim is stored.
LEMMA DoorsInit ==
  ASSUME D!Init
  PROVE  DoorsInv
<1>1. D!Idle \in DoorRequests /\ D!Idle.pc = "idle" /\ ~D!NoClaim.on
  BY DEF D!Idle, DoorRequests, D!NoClaim
<1>2. /\ conf \in D!Confs /\ claims = [c \in DoorCodes |-> D!NoClaim]
      /\ req = [q \in Reqs |-> D!Idle]
  BY DEF D!Init
<1>. QED
  BY <1>1, <1>2 DEF DoorsInv, LetIn, D!DoorsAgree

\* Whoever is let in without being an admin reaches createclaim only (Visible).
LEMMA MemberMethods ==
  ASSUME DoorsInv, NEW q \in Reqs, req[q].caller \notin Admins, D!Dispatched(q)
  PROVE  req[q].method = "createclaim" /\ req[q].door = "nip86" /\ conf.on /\ conf.claims
<1>1. req[q].door = "nip86" /\ conf.on /\ conf.claims
  BY DEF DoorsInv, LetIn, D!Dispatched
<1>. QED
  BY <1>1 DEF D!Dispatched, D!Visible

\* The step of a request ends no other (the handlers share nothing but the state).
LEMMA OnlyOwnEnds ==
  ASSUME DoorsInv, NEW q \in Reqs, req[q].pc = "dispatch", req'[q].pc = "idle", [D!Next]_(D!vars)
  PROVE  \/ D!Ends(q) /\ members' = members /\ claims' = claims
         \/ D!Dispatched(q) /\ (D!AllowPubkey(q) \/ D!UnallowPubkey(q) \/ D!CreateClaim(q) \/ D!CreateClaimWithLimits(q)
                                    \/ D!InviteCreate(q) \/ D!DeleteClaim(q) \/ D!ListClaims(q))
<1>1. ASSUME NEW x \in Reqs, D!Ends(x) PROVE x = q
  BY <1>1, EndsOwn
<1>2. ASSUME NEW x \in Reqs, NEW r \in D!Requests, D!Arrive(x, r) PROVE FALSE
  BY <1>2, RequestsTyped DEF D!Arrive, DoorsInv
<1>3. ASSUME NEW x \in Reqs, req' = [req EXCEPT ![x].pc = "dispatch"] PROVE FALSE
  BY <1>3 DEF DoorsInv, DoorRequests
<1>4. ASSUME req' = req PROVE FALSE
  BY <1>4
<1>5. ASSUME NEW x \in Reqs, D!Authenticate(x) PROVE D!Ends(q) /\ members' = members /\ claims' = claims
  BY <1>1, <1>3, <1>5 DEF D!Authenticate, D!Refused
<1>6. ASSUME NEW x \in Reqs, D!NotDispatched(x) PROVE D!Ends(q) /\ members' = members /\ claims' = claims
  BY <1>1, <1>6 DEF D!NotDispatched, D!Refused
<1>7. ASSUME NEW x \in Reqs, \/ D!AllowPubkey(x) \/ D!UnallowPubkey(x) \/ D!CreateClaim(x) \/ D!CreateClaimWithLimits(x)
                             \/ D!InviteCreate(x) \/ D!DeleteClaim(x) \/ D!ListClaims(x)
      PROVE  x = q /\ D!Dispatched(x)
  BY <1>1, <1>7 DEF D!AllowPubkey, D!UnallowPubkey, D!CreateClaim, D!CreateClaimWithLimits, D!InviteCreate, D!DeleteClaim, D!ListClaims
<1>8. ASSUME NEW k \in Keys, D!Joins(k) \/ D!Leaves(k) PROVE FALSE
  BY <1>4, <1>8 DEF D!Joins, D!Leaves
<1>9. CASE D!Tick \/ UNCHANGED D!vars
  BY <1>4, <1>9 DEF D!Tick, D!vars
<1>. QED
  BY <1>2, <1>5, <1>6, <1>7, <1>8, <1>9 DEF D!Next

\* A dispatched request of a member who is no admin adds one claim at most.
LEMMA MembersMint ==
  ASSUME DoorsInv, [D!Next]_(D!vars)
  PROVE  D!MemberOnlyMints
<1>. SUFFICES ASSUME NEW q \in Reqs, req[q].pc = "dispatch", req'[q].pc = "idle", req[q].caller \notin Admins
     PROVE  /\ members' = members
            /\ \A c \in DoorCodes : claims'[c] # claims[c] =>
                 /\ conf.on /\ conf.claims /\ req[q].method = "createclaim"
                 /\ claims[c].on => c = "made"
                 /\ claims'[c].exp = now + TTL /\ ~claims'[c].explicit
  BY DEF D!MemberOnlyMints
<1>1. CASE members' = members /\ claims' = claims
  BY <1>1
<1>2. CASE D!Dispatched(q) /\ D!CreateClaim(q)
  <2>1. conf.on /\ conf.claims /\ req[q].method = "createclaim"
    BY <1>2, MemberMethods
  <2>2. members' = members /\ DOMAIN claims = DoorCodes
    BY <1>2 DEF D!CreateClaim, DoorsInv
  <2>3. D!Claim(now + TTL, FALSE).exp = now + TTL /\ ~D!Claim(now + TTL, FALSE).explicit
    BY DEF D!Claim
  <2>4. CASE claims' = claims
    BY <2>2, <2>4
  <2>5. CASE /\ claims' = [claims EXCEPT ![req[q].code] = D!Claim(now + TTL, FALSE)]
             /\ claims[req[q].code].on => req[q].code = "made"
    BY <2>1, <2>2, <2>3, <2>5
  <2>. QED
    BY <1>2, <2>4, <2>5 DEF D!CreateClaim
<1>3. CASE D!Dispatched(q) /\ ~D!CreateClaim(q)
  <2>1. req[q].method = "createclaim" /\ req[q].door = "nip86"
    BY <1>3, MemberMethods
  <2>. QED
    BY <1>1, <1>3, <2>1, OnlyOwnEnds
       DEF D!AllowPubkey, D!UnallowPubkey, D!CreateClaimWithLimits, D!InviteCreate, D!DeleteClaim, D!ListClaims
<1>. QED
  BY <1>1, <1>2, <1>3, OnlyOwnEnds

\* An invite with an expiry somebody asked for had it inside the policy when it
\* was stored, whichever door it came through, and a relay without membership
\* has none (resolveInviteLimits, requireMembership).
THEOREM DoorsAlike == D!Spec => []D!DoorsAgree
<1>1. D!Init => DoorsInv
  BY DoorsInit
<1>2. DoorsInv /\ [D!Next]_(D!vars) => DoorsInv'
  BY DoorsStep
<1>3. DoorsInv => D!DoorsAgree
  BY DEF DoorsInv
<1>. QED
  BY <1>1, <1>2, <1>3, PTL DEF D!Spec

\* All a member who is no admin can change is to add an invite under the relay's
\* own limits, although it was let in some time before its request is dispatched
\* (Visible, Authorize in newNip86Handler).
THEOREM MembersOnlyMint == D!Spec => D!MembersMintOnly
<1>1. D!Init => DoorsInv
  BY DoorsInit
<1>2. DoorsInv /\ [D!Next]_(D!vars) => DoorsInv'
  BY DoorsStep
<1>3. DoorsInv /\ [D!Next]_(D!vars) => [D!MemberOnlyMints]_(D!vars)
  BY MembersMint
<1>. QED
  BY <1>1, <1>2, <1>3, PTL DEF D!Spec, D!MembersMintOnly

-----------------------------------------------------------------------------
(* AdminPlane: the replay guard and the failure limiter                    *)

CONSTANTS Addrs, SignedEvents, Validity, ReplayWindow, SessionTTL, MaxSessions,
          FailLimit, FailWindow, MaxFailedAddr, MaxTime, MaxLogins
VARIABLES admins, seen, sessions, logins, fails, served, failed

A == INSTANCE AdminPlane WITH Events <- SignedEvents

\* What the code's values satisfy: an id names one event; an event is accepted
\* for Validity on either side of its time, and remembered for twice that
\* (nip98Window is two minutes, nip98.Verify's tolerance one).
AdminAssumption ==
    /\ Validity \in Nat /\ ReplayWindow \in Nat /\ 2 * Validity <= ReplayWindow
    /\ FailLimit \in Nat \ {0} /\ FailWindow \in Nat
    /\ \A e \in SignedEvents : e.created \in Int
    /\ \A e, f \in SignedEvents : e.id = f.id => e = f

\* An event that opened a request is remembered until nip98.Verify refuses it.
ReplayInv ==
    /\ now \in Int /\ served \in [A!Ids -> 0..1] /\ seen \in [DOMAIN seen -> Int]
    /\ \A e \in SignedEvents : served[e.id] = 1 =>
          \/ e.id \in DOMAIN seen /\ e.created + Validity <= seen[e.id]
          \/ e.created + Validity < now

\* The last n of the times are not before t.
Since(times, n, t) ==
    n <= Len(times) /\ \A k \in Len(times) - n + 1..Len(times) : t <= times[k]

\* The failures the limiter counts for an address are its latest.
LimiterInv ==
    /\ now \in Int /\ failed \in [Addrs -> Seq(Int)]
    /\ \A a \in Addrs : Len(failed[a]) <= FailLimit
    /\ fails \in [DOMAIN fails -> [n : 1..FailLimit, since : Int]] /\ DOMAIN fails \subseteq Addrs
    /\ \A a \in DOMAIN fails :
          fails[a].since <= now /\ Since(failed[a], fails[a].n, fails[a].since)

----------------------------------------------------------------------------
\* Only Consume opens a request for an event, and only ReplayGuard forgets one.
LEMMA ReplayStep ==
    ASSUME AdminAssumption, ReplayInv, [A!Next]_(A!vars)
    PROVE  ReplayInv'
<1>. USE DEF AdminAssumption, ReplayInv
<1>1. /\ A!Remembered \in [DOMAIN A!Remembered -> Int]
      /\ DOMAIN A!Remembered = {i \in DOMAIN seen : now <= seen[i]}
      /\ \A i \in DOMAIN A!Remembered : A!Remembered[i] = seen[i]
  BY DEF A!Remembered, A!Without
<1>2. CASE UNCHANGED <<now, seen, served>>
  BY <1>2
<1>3. CASE now' = now /\ seen' = A!Remembered /\ served' = served
  BY <1>1, <1>3
<1>4. ASSUME NEW e \in SignedEvents, A!Verifies(e), A!Fresh(e), A!Consume(e), now' = now
      PROVE  ReplayInv'
  <2>1. e.id \in A!Ids /\ e.created \in Int
    BY DEF A!Ids
  <2>2. now <= e.created + Validity /\ e.created + Validity <= now + ReplayWindow
    BY <1>4, <2>1 DEF A!Verifies
  <2>3. served[e.id] = 0
    BY <1>1, <1>4, <2>1, <2>2 DEF A!Fresh
  <2>4. served' \in [A!Ids -> 0..1]
    BY <1>4, <2>1, <2>3 DEF A!Consume
  <2>5. /\ seen' \in [DOMAIN seen' -> Int]
        /\ DOMAIN seen' = DOMAIN A!Remembered \cup {e.id}
        /\ seen'[e.id] = now + ReplayWindow
        /\ \A i \in DOMAIN A!Remembered \ {e.id} : seen'[i] = seen[i]
    BY <1>1, <1>4 DEF A!Consume, A!With
  <2>6. ASSUME NEW f \in SignedEvents, served'[f.id] = 1
        PROVE  \/ f.id \in DOMAIN seen' /\ f.created + Validity <= seen'[f.id]
               \/ f.created + Validity < now
    <3>1. CASE f.id = e.id
      BY <2>2, <2>5, <3>1
    <3>2. CASE f.id # e.id
      <4>1. served[f.id] = 1 /\ f.id \in A!Ids
        BY <1>4, <2>6, <3>2 DEF A!Consume, A!Ids
      <4>. QED
        BY <1>1, <2>5, <3>2, <4>1
    <3>. QED
      BY <3>1, <3>2
  <2>. QED
    BY <1>4, <2>4, <2>5, <2>6
<1>5. CASE A!Tick
  BY <1>5 DEF A!Tick
<1>6. ASSUME NEW a \in Addrs, NEW e \in SignedEvents, A!NipRequest(a, e) PROVE ReplayInv'
  BY <1>2, <1>3, <1>4, <1>6 DEF A!NipRequest
<1>7. ASSUME NEW a \in Addrs, NEW e \in SignedEvents, A!Login(a, e) PROVE ReplayInv'
  BY <1>4, <1>7 DEF A!Login
<1>8. ASSUME NEW a \in Addrs, NEW i \in 1..logins, A!SessionRequest(a, i) \/ A!Logout(a, i)
      PROVE  ReplayInv'
  BY <1>2, <1>8 DEF A!SessionRequest, A!Logout
<1>9. ASSUME NEW a \in Addrs, A!BadToken(a) PROVE ReplayInv'
  BY <1>2, <1>9 DEF A!BadToken
<1>10. CASE A!SetAdmins \/ UNCHANGED A!vars
  BY <1>2, <1>10 DEF A!SetAdmins, A!vars
<1>. QED
  BY <1>5, <1>6, <1>7, <1>8, <1>9, <1>10 DEF A!Next

\* At first no request was served and no failure counted.
LEMMA AdminInit ==
    ASSUME AdminAssumption, A!Init
    PROVE  ReplayInv /\ LimiterInv
<1>1. ReplayInv
  BY DEF A!Init, ReplayInv, A!Empty, A!Ids
<1>2. LimiterInv
  BY DEF A!Init, LimiterInv, A!Empty, AdminAssumption
<1>. QED
  BY <1>1, <1>2

\* An event the guard accounts for was served once at most.
LEMMA ReplayGuards == ASSUME ReplayInv PROVE A!ServedOnce
BY DEF ReplayInv, A!ServedOnce

\* Each signed admin request is served once (verifyNIP98, ReplayGuard.First).
THEOREM AdminReplayGuarded ==
    ASSUME AdminAssumption
    PROVE  A!Spec => []A!ServedOnce
<1>1. A!Init => ReplayInv
  BY AdminInit
<1>2. ReplayInv /\ [A!Next]_(A!vars) => ReplayInv'
  BY ReplayStep
<1>3. ReplayInv => A!ServedOnce
  BY ReplayGuards
<1>. QED
  BY <1>1, <1>2, <1>3, PTL DEF A!Spec

----------------------------------------------------------------------------
\* One more failure adds one to the latest, also when the oldest is dropped.
LEMMA LatestSince ==
    ASSUME AdminAssumption, now \in Int, NEW times \in Seq(Int), Len(times) <= FailLimit,
           NEW n \in 0..FailLimit - 1, NEW t \in Int, t <= now, Since(times, n, t)
    PROVE  /\ A!Latest(times) \in Seq(Int) /\ Len(A!Latest(times)) <= FailLimit
           /\ Since(A!Latest(times), n + 1, t)
<1>. USE DEF AdminAssumption, Since
<1>1. CASE Len(times) < FailLimit
  <2>1. A!Latest(times) = Append(times, now) /\ A!Latest(times) \in Seq(Int)
    BY <1>1 DEF A!Latest
  <2>2. Len(A!Latest(times)) = Len(times) + 1
    BY <2>1
  <2>3. ASSUME NEW k \in Len(times) - n + 1..Len(times) + 1 PROVE t <= A!Latest(times)[k]
    BY <2>1
  <2>. QED
    BY <1>1, <2>1, <2>2, <2>3
<1>2. CASE Len(times) = FailLimit
  <2>1. times # <<>> /\ Tail(times) \in Seq(Int) /\ Len(Tail(times)) = FailLimit - 1
    BY <1>2
  <2>2. \A k \in 1..FailLimit - 1 : Tail(times)[k] = times[k + 1]
    BY <1>2, <2>1
  <2>3. A!Latest(times) = Append(Tail(times), now) /\ A!Latest(times) \in Seq(Int)
    BY <1>2, <2>1 DEF A!Latest
  <2>4. Len(A!Latest(times)) = FailLimit
    BY <2>1, <2>3
  <2>5. ASSUME NEW k \in FailLimit - n..FailLimit PROVE t <= A!Latest(times)[k]
    <3>1. CASE k = FailLimit
      BY <2>1, <2>3, <3>1
    <3>2. CASE k < FailLimit
      <4>1. k \in 1..FailLimit - 1 /\ k + 1 \in Len(times) - n + 1..Len(times)
        BY <1>2, <3>2
      <4>2. A!Latest(times)[k] = times[k + 1]
        BY <2>1, <2>2, <2>3, <4>1
      <4>. QED
        BY <4>1, <4>2
    <3>. QED
      BY <3>1, <3>2
  <2>. QED
    BY <2>3, <2>4, <2>5
<1>. QED
  BY <1>1, <1>2

\* What the gate and fail leave of the table: a new count, one more, or less.
LEMMA FailStep ==
    ASSUME AdminAssumption, LimiterInv, NEW a \in Addrs, ~A!Blocked(a), A!Fail(a), now' = now
    PROVE  LimiterInv'
<1>. USE DEF AdminAssumption, LimiterInv
<1>. DEFINE fs == A!Forgotten(a)
            old == {b \in DOMAIN fs : now - fs[b].since > FailWindow}
<1>1. /\ DOMAIN fs \subseteq DOMAIN fails /\ fs \in [DOMAIN fs -> [n : 1..FailLimit, since : Int]]
      /\ \A b \in DOMAIN fs : fs[b] = fails[b]
      /\ a \in DOMAIN fs => fails[a].n < FailLimit
  BY DEF A!Forgotten, A!Without, A!Blocked, A!Stale
<1>2. \/ a \in DOMAIN fs /\ fails' = A!With(fs, a, [fs[a] EXCEPT !.n = @ + 1])
      \/ a \notin DOMAIN fs /\ fails' \in {fs, A!Without(fs, old)}
      \/ a \notin DOMAIN fs /\ \E g \in {fs, A!Without(fs, old)} :
             fails' = A!With(g, a, [n |-> 1, since |-> now])
  BY DEF A!Fail, A!Counted
<1>3. ASSUME NEW b \in DOMAIN fs, b # a PROVE failed'[b] = failed[b]
  BY <1>1, <1>3 DEF A!Fail
<1>4. CASE a \in DOMAIN fs /\ fails' = A!With(fs, a, [fs[a] EXCEPT !.n = @ + 1])
  <2>1. fails[a].n \in 0..FailLimit - 1 /\ fails[a].since \in Int /\ fails[a] = fs[a]
    BY <1>1, <1>4
  <2>2. /\ DOMAIN fails' = DOMAIN fs /\ fails'[a] = [fs[a] EXCEPT !.n = @ + 1]
        /\ \A b \in DOMAIN fs : b # a => fails'[b] = fails[b]
        /\ fails' = [b \in DOMAIN fails' |-> fails'[b]]
    BY <1>1, <1>4 DEF A!With
  <2>3. failed' = [failed EXCEPT ![a] = A!Latest(failed[a])]
    BY <1>4, <2>2 DEF A!Fail
  <2>4. /\ A!Latest(failed[a]) \in Seq(Int) /\ Len(A!Latest(failed[a])) <= FailLimit
        /\ Since(A!Latest(failed[a]), fails[a].n + 1, fails[a].since)
    BY <1>1, <1>4, <2>1, LatestSince
  <2>5. /\ fails'[a] \in [n : 1..FailLimit, since : Int]
        /\ fails'[a].n = fails[a].n + 1 /\ fails'[a].since = fails[a].since
    BY <1>1, <1>4, <2>1, <2>2
  <2>6. /\ failed' \in [Addrs -> Seq(Int)] /\ \A b \in Addrs : Len(failed'[b]) <= FailLimit
        /\ failed'[a] = A!Latest(failed[a])
    BY <2>3, <2>4
  <2>7. fails' \in [DOMAIN fails' -> [n : 1..FailLimit, since : Int]] /\ DOMAIN fails' \subseteq Addrs
    BY <1>1, <2>2, <2>5
  <2>8. ASSUME NEW b \in DOMAIN fails'
        PROVE  fails'[b].since <= now /\ Since(failed'[b], fails'[b].n, fails'[b].since)
    <3>1. CASE b = a
      BY <1>1, <1>4, <2>4, <2>5, <2>6, <3>1
    <3>2. CASE b # a
      BY <1>1, <1>3, <2>2, <3>2
    <3>. QED
      BY <3>1, <3>2
  <2>. QED
    BY <2>6, <2>7, <2>8 DEF Since
<1>5. CASE a \notin DOMAIN fs /\ fails' \in {fs, A!Without(fs, old)}
  <2>1. /\ DOMAIN fails' \subseteq DOMAIN fs /\ fails' = [b \in DOMAIN fails' |-> fails'[b]]
        /\ \A b \in DOMAIN fails' : fails'[b] = fails[b]
    BY <1>1, <1>5 DEF A!Without
  <2>2. failed' = failed
    BY <1>5, <2>1 DEF A!Fail
  <2>3. fails' \in [DOMAIN fails' -> [n : 1..FailLimit, since : Int]] /\ DOMAIN fails' \subseteq Addrs
    BY <1>1, <2>1
  <2>. QED
    BY <1>1, <2>1, <2>2, <2>3 DEF Since
<1>6. ASSUME a \notin DOMAIN fs, NEW g \in {fs, A!Without(fs, old)},
             fails' = A!With(g, a, [n |-> 1, since |-> now])
      PROVE  LimiterInv'
  <2>1. /\ DOMAIN g \subseteq DOMAIN fs /\ \A b \in DOMAIN g : g[b] = fails[b] /\ b # a
    BY <1>1, <1>6 DEF A!Without
  <2>2. /\ DOMAIN fails' = DOMAIN g \cup {a} /\ fails'[a] = [n |-> 1, since |-> now]
        /\ fails' = [b \in DOMAIN fails' |-> fails'[b]]
        /\ \A b \in DOMAIN g : fails'[b] = fails[b]
    BY <1>6, <2>1 DEF A!With
  <2>3. failed' = [failed EXCEPT ![a] = A!Latest(failed[a])]
    BY <2>2 DEF A!Fail
  <2>4. Since(failed[a], 0, now)
    BY DEF Since
  <2>5. /\ A!Latest(failed[a]) \in Seq(Int) /\ Len(A!Latest(failed[a])) <= FailLimit
        /\ Since(A!Latest(failed[a]), 1, now)
    <3>1. 0 \in 0..FailLimit - 1 /\ now <= now /\ failed[a] \in Seq(Int) /\ 0 + 1 = 1
      OBVIOUS
    <3>2. Since(A!Latest(failed[a]), 0 + 1, now)
      BY <2>4, <3>1, LatestSince
    <3>3. A!Latest(failed[a]) \in Seq(Int) /\ Len(A!Latest(failed[a])) <= FailLimit
      BY <2>4, <3>1, LatestSince
    <3>. QED
      BY <3>1, <3>2, <3>3
  <2>6. /\ failed' \in [Addrs -> Seq(Int)] /\ \A b \in Addrs : Len(failed'[b]) <= FailLimit
        /\ failed'[a] = A!Latest(failed[a])
    BY <2>3, <2>5
  <2>7. fails' \in [DOMAIN fails' -> [n : 1..FailLimit, since : Int]] /\ DOMAIN fails' \subseteq Addrs
    BY <1>1, <2>1, <2>2
  <2>8. ASSUME NEW b \in DOMAIN fails'
        PROVE  fails'[b].since <= now /\ Since(failed'[b], fails'[b].n, fails'[b].since)
    BY <1>1, <1>3, <2>1, <2>2, <2>5, <2>6
  <2>. QED
    BY <2>6, <2>7, <2>8 DEF Since
<1>. QED
  BY <1>2, <1>4, <1>5, <1>6

\* A request that passes the gate leaves the table, or drops a stale count.
LEMMA PassStep ==
    ASSUME LimiterInv, NEW a \in Addrs, A!Passes(a), now' = now
    PROVE  LimiterInv'
<1>1. /\ DOMAIN fails' \subseteq DOMAIN fails /\ \A b \in DOMAIN fails' : fails'[b] = fails[b]
      /\ fails' = [b \in DOMAIN fails' |-> fails'[b]]
  BY DEF LimiterInv, A!Passes, A!Forgotten, A!Without
<1>. QED
  BY <1>1 DEF LimiterInv, A!Passes, Since

\* The limiter counts an address's latest failures in every reachable state.
LEMMA LimiterStep ==
    ASSUME AdminAssumption, LimiterInv, [A!Next]_(A!vars)
    PROVE  LimiterInv'
<1>1. CASE UNCHANGED <<now, fails, failed>>
  BY <1>1 DEF LimiterInv, Since
<1>2. CASE A!Tick
  <2>1. now <= now' /\ now' \in Int /\ UNCHANGED <<fails, failed>>
    BY <1>2 DEF A!Tick, LimiterInv
  <2>. QED
    BY <2>1 DEF LimiterInv, Since
<1>3. ASSUME NEW a \in Addrs, NEW e \in SignedEvents, A!NipRequest(a, e) PROVE LimiterInv'
  BY <1>3, FailStep, PassStep DEF A!NipRequest
<1>4. ASSUME NEW a \in Addrs, NEW e \in SignedEvents, A!Login(a, e) PROVE LimiterInv'
  BY <1>4, PassStep DEF A!Login
<1>5. ASSUME NEW a \in Addrs, NEW i \in 1..logins, A!SessionRequest(a, i) \/ A!Logout(a, i)
      PROVE  LimiterInv'
  BY <1>5, FailStep, PassStep DEF A!SessionRequest, A!Logout
<1>6. ASSUME NEW a \in Addrs, A!BadToken(a) PROVE LimiterInv'
  BY <1>6, FailStep DEF A!BadToken
<1>7. CASE A!SetAdmins \/ UNCHANGED A!vars
  BY <1>1, <1>7 DEF A!SetAdmins, A!vars
<1>. QED
  BY <1>2, <1>3, <1>4, <1>5, <1>6, <1>7 DEF A!Next

\* A blocked address has FailLimit failures to its name within the last window.
LEMMA LimiterIsFair == ASSUME AdminAssumption, LimiterInv PROVE A!BlockedForCause
<1>. SUFFICES ASSUME NEW a \in Addrs, A!Blocked(a)
              PROVE  /\ Len(failed[a]) = FailLimit
                     /\ \A k \in 1..FailLimit : now - failed[a][k] <= FailWindow
  BY DEF A!BlockedForCause
<1>1. /\ a \in DOMAIN fails /\ fails[a].n = FailLimit /\ fails[a].since \in Int
      /\ now - fails[a].since <= FailWindow
  BY DEF LimiterInv, A!Blocked, A!Stale, AdminAssumption
<1>2. /\ Len(failed[a]) = FailLimit
      /\ \A k \in 1..FailLimit : failed[a][k] \in Int /\ fails[a].since <= failed[a][k]
  <2>1. failed[a] \in Seq(Int) /\ Len(failed[a]) <= FailLimit /\ FailLimit \in Nat
    BY DEF LimiterInv, AdminAssumption
  <2>2. Since(failed[a], FailLimit, fails[a].since)
    BY <1>1 DEF LimiterInv
  <2>3. Len(failed[a]) = FailLimit
    BY <2>1, <2>2 DEF Since
  <2>4. \A k \in 1..FailLimit : k \in Len(failed[a]) - FailLimit + 1..Len(failed[a])
    BY <2>1, <2>3
  <2>. QED
    BY <2>1, <2>2, <2>3, <2>4 DEF Since
<1>. QED
  BY <1>1, <1>2 DEF LimiterInv, AdminAssumption

\* An address is refused outright only for FailLimit failures within the last
\* window (failLimiter.blocked, failLimiter.fail, Server.gate).
THEOREM AdminLimiterFair ==
    ASSUME AdminAssumption
    PROVE  A!Spec => []A!BlockedForCause
<1>1. A!Init => LimiterInv
  BY AdminInit
<1>2. LimiterInv /\ [A!Next]_(A!vars) => LimiterInv'
  BY LimiterStep
<1>3. LimiterInv => A!BlockedForCause
  BY LimiterIsFair
<1>. QED
  BY <1>1, <1>2, <1>3, PTL DEF A!Spec

-----------------------------------------------------------------------------
(* MetricsTokens: the token file                                           *)

CONSTANTS Tokens, MaxWrites, Faults
VARIABLES file, backup, writes, hashes, mtime, size, due, rm, accepted

T == INSTANCE MetricsTokens

\* No request presents the absent token.
TokensAssumption == T!NoTok \notin Tokens

Sizes == {T!Cardinality(toks) + 0 : toks \in SUBSET Tokens}
         \cup {T!Cardinality(toks) + 1 : toks \in SUBSET Tokens}

TokenFiles == [toks : SUBSET Tokens, well : BOOLEAN, private : BOOLEAN, mtime : Nat, size : Sizes]

\* Whatever has the modification time of the loaded file lists the tokens that
\* are held, and no copy is newer than the last write.
TokensInv ==
  /\ file \in TokenFiles
  /\ backup \in TokenFiles
  /\ rm.kept \subseteq Tokens /\ hashes \subseteq Tokens
  /\ writes \in Nat /\ mtime \in Nat
  /\ file.mtime <= writes /\ backup.mtime <= writes /\ mtime <= writes
  /\ file.mtime = backup.mtime => file.toks = backup.toks /\ file.well = backup.well
  /\ \A f \in {file, backup} : f.mtime = mtime => hashes \subseteq f.toks /\ (hashes # {} => f.well)

\* A written file has the tokens written, and the time of the write.
LEMMA ContentsTyped ==
  ASSUME NEW toks \in SUBSET Tokens, NEW well \in BOOLEAN, NEW n \in Nat
  PROVE  /\ T!Contents(toks, well, n) \in TokenFiles
         /\ T!Contents(toks, well, n).mtime = n
         /\ T!Contents(toks, well, n).toks = toks
         /\ T!Contents(toks, well, n).well = well
<1>1. (T!Cardinality(toks) + IF well THEN 0 ELSE 1) \in Sizes
  BY DEF Sizes
<1>2. PICK s \in Sizes : s = T!Cardinality(toks) + IF well THEN 0 ELSE 1
  BY <1>1
<1>3. T!Contents(toks, well, n) = [toks |-> toks, well |-> well, private |-> TRUE, mtime |-> n, size |-> s]
  BY <1>2 DEF T!Contents
<1>. QED
  BY <1>2, <1>3 DEF TokenFiles

\* A write gets a time of its own, and a copy put back brings its time along
\* (Add, Remove, writeFileAtomic, a restored backup).
LEMMA TokensStep ==
  ASSUME TokensAssumption, TokensInv, [T!Next]_(T!vars)
  PROVE  TokensInv'
<1>1. ASSUME NEW toks \in SUBSET Tokens, NEW well \in BOOLEAN, T!Writes(toks, well),
             UNCHANGED <<backup, hashes, mtime, rm>>
      PROVE  TokensInv'
  <2>. DEFINE new == T!Contents(toks, well, writes + 1)
  <2>1. writes + 1 \in Nat
    BY DEF TokensInv
  <2>2. new \in TokenFiles /\ new.mtime = writes + 1
    BY <2>1, ContentsTyped
  <2>3. file' = [new EXCEPT !.private = file.private] /\ writes' = writes + 1
    BY <1>1 DEF T!Writes
  <2>. HIDE DEF new
  <2>4. file' \in TokenFiles /\ file'.mtime = writes + 1
    BY <2>2, <2>3 DEF TokensInv, TokenFiles
  <2>. QED
    BY <1>1, <2>3, <2>4 DEF TokensInv, TokenFiles
<1>2. ASSUME NEW t \in Tokens, T!Add(t) PROVE TokensInv'
  BY <1>1, <1>2 DEF T!Add, TokensInv, TokenFiles
<1>3. ASSUME NEW t \in Tokens, T!RemoveReads(t) PROVE TokensInv'
  BY <1>3 DEF T!RemoveReads, TokensInv, TokenFiles
<1>4. ASSUME NEW t \in Tokens, T!Scrape(t) PROVE TokensInv'
  <2>1. UNCHANGED <<file, backup, writes, rm>>
    BY <1>4 DEF T!Scrape
  <2>2. CASE ~due \/ (file.private /\ ~T!Changed)
    BY <1>4, <2>1, <2>2 DEF T!Scrape, T!Recheck, T!loaded, TokensInv
  <2>3. CASE hashes' = {} /\ mtime' \in {0, mtime}
    BY <2>1, <2>3 DEF TokensInv, TokenFiles
  <2>4. CASE hashes' = file.toks /\ mtime' = file.mtime /\ T!Loads
    BY <2>1, <2>4 DEF TokensInv, TokenFiles, T!Loads
  <2>. QED
    BY <1>4, <2>2, <2>3, <2>4 DEF T!Scrape, T!Recheck
<1>5. CASE T!RemoveRenames
  <2>1. writes + 1 \in Nat /\ rm.kept \in SUBSET Tokens
    BY DEF TokensInv
  <2>2. file' \in TokenFiles /\ file'.mtime = writes + 1
    BY <1>5, <2>1, ContentsTyped DEF T!RemoveRenames
  <2>3. /\ UNCHANGED <<backup, hashes, mtime>> /\ writes' = writes + 1
        /\ rm'.kept = {}
    BY <1>5 DEF T!RemoveRenames, T!Idle
  <2>. QED
    BY <2>2, <2>3 DEF TokensInv, TokenFiles
<1>6. CASE T!Edit
  BY <1>1, <1>6 DEF T!Edit, TokensInv, TokenFiles
<1>7. CASE T!Repair
  BY <1>1, <1>7 DEF T!Repair, TokensInv, TokenFiles
<1>8. CASE T!Chmod
  BY <1>8 DEF T!Chmod, TokensInv, TokenFiles
<1>9. CASE T!Restore
  BY <1>9 DEF T!Restore, TokensInv, TokenFiles
<1>10. CASE T!SecondPasses \/ UNCHANGED T!vars
  BY <1>10 DEF T!SecondPasses, T!vars, TokensInv, TokenFiles
<1>. QED
  BY <1>2, <1>3, <1>4, <1>5, <1>6, <1>7, <1>8, <1>9, <1>10 DEF T!Next

\* What is held was read from a file with that time (tokenSet.load).
LEMMA TokensListed ==
  ASSUME TokensAssumption, TokensInv
  PROVE  T!AcceptsListed
BY DEF TokensAssumption, TokensInv, TokenFiles, T!AcceptsListed, T!Scrape, T!Recheck, T!Changed, T!Loads, T!loaded

\* The set starts from the file as it is, or from none (newTokenSet).
LEMMA TokensInit ==
  ASSUME TokensAssumption
  PROVE  T!Init => TokensInv
<1>. SUFFICES ASSUME T!Init PROVE TokensInv
  OBVIOUS
<1>1. PICK toks \in SUBSET Tokens : file = T!Contents(toks, TRUE, 1)
  BY DEF T!Init
<1>2. file \in TokenFiles /\ file.mtime = 1 /\ file.toks = toks /\ file.well = TRUE
  <2>1. 1 \in Nat /\ TRUE \in BOOLEAN
    OBVIOUS
  <2>. QED
    BY <1>1, <2>1, ContentsTyped
<1>3. /\ backup = file /\ writes = 1 /\ hashes = file.toks /\ mtime = file.mtime
      /\ rm.kept = {}
  BY DEF T!Init, T!Idle
<1>4. hashes \subseteq Tokens /\ rm.kept \subseteq Tokens /\ file.mtime <= writes /\ writes \in Nat /\ mtime \in Nat
  BY <1>2, <1>3
<1>5. ASSUME NEW f \in {file, backup} PROVE hashes \subseteq f.toks /\ f.well
  BY <1>2, <1>3, <1>5
<1>. QED
  BY <1>2, <1>3, <1>4, <1>5 DEF TokensInv

\* A rechecking scrape is let in only with a token the file lists then, for any
\* tokens, edits, restores and removals (tokenSet.valid).
THEOREM TokensAcceptListed ==
  ASSUME TokensAssumption
  PROVE  T!Spec => T!AcceptedIsListed
<1>1. T!Init => TokensInv
  BY TokensInit
<1>2. TokensInv /\ [T!Next]_(T!vars) => TokensInv'
  BY TokensStep
<1>3. TokensInv /\ [T!Next]_(T!vars) => [T!AcceptsListed]_(T!vars)
  BY TokensListed
<1>. QED
  BY <1>1, <1>2, <1>3, PTL DEF T!Spec, T!AcceptedIsListed

-----------------------------------------------------------------------------
(* The services together: part names the one that runs, and the variables *)
(* of the others are 0.                                                    *)

VARIABLE part

membership == <<roles, invites, door, calls, ops, used, asked, slipped, granted>>
doors == <<conf, claims, req, count>>
admin == <<admins, seen, sessions, logins, fails, served, failed>>
tokens == <<file, backup, writes, hashes, mtime, size, due, rm, accepted>>

services == <<part, members, now, membership, doors, admin, tokens>>

NoMembership == /\ roles = 0 /\ invites = 0 /\ door = 0 /\ calls = 0 /\ ops = 0 /\ used = 0
                /\ asked = 0 /\ slipped = 0 /\ granted = 0
NoDoors == conf = 0 /\ claims = 0 /\ req = 0 /\ count = 0
NoAdmin == /\ admins = 0 /\ seen = 0 /\ sessions = 0 /\ logins = 0 /\ fails = 0 /\ served = 0
           /\ failed = 0
NoTokens == /\ file = 0 /\ backup = 0 /\ writes = 0 /\ hashes = 0 /\ mtime = 0 /\ size = 0 /\ due = 0
            /\ rm = 0 /\ accepted = 0

\* No service of this module runs.
ServicesOff == /\ members = 0 /\ now = 0
               /\ NoMembership /\ NoDoors /\ NoAdmin /\ NoTokens

ServicesInit ==
    \/ part = "membership" /\ M!Init /\ NoDoors /\ NoAdmin /\ NoTokens
    \/ part = "doors" /\ D!Init /\ NoMembership /\ NoAdmin /\ NoTokens
    \/ part = "admin" /\ A!Init /\ members = 0 /\ NoMembership /\ NoDoors /\ NoTokens
    \/ part = "tokens" /\ T!Init /\ members = 0 /\ now = 0
                       /\ NoMembership /\ NoDoors /\ NoAdmin

ServicesNext ==
    \/ part = "membership" /\ M!Next /\ UNCHANGED <<part, doors, admin, tokens>>
    \/ part = "doors" /\ D!Next /\ UNCHANGED <<part, membership, admin, tokens>>
    \/ part = "admin" /\ A!Next
                      /\ UNCHANGED <<part, members, membership, doors, tokens>>
    \/ part = "tokens" /\ T!Next
                       /\ UNCHANGED <<part, members, now, membership, doors, admin>>

ServicesSpec == ServicesInit /\ [][ServicesNext]_services

-----------------------------------------------------------------------------
(* Nobody whose membership was taken away stays in a huddle once the       *)
(* removal answered, unless the door let them through just before; a claim *)
(* carries the limits asked for or the relay's defaults, and one asked for *)
(* was inside the policy when it was asked for, whichever door it came     *)
(* through; and all a member who is no admin can change is to add an       *)
(* invite under the relay's own limits (removeMember, resolveInviteLimits, *)
(* Visible, Authorize).                                                    *)
MembersConsistent ==
    /\ [](part = "membership" => M!RemovedLeavesCalls /\ M!InvitesAsAsked)
    /\ [](part = "doors" => D!DoorsAgree)
    /\ [][part = "doors" => D!MemberOnlyMints]_services

(* A signed admin request takes effect at most once, also when its         *)
(* author's clock runs ahead; an address is refused outright only after    *)
(* FailLimit failures within the last window; and a scrape that rechecks   *)
(* the token file is let in only with a token the file lists at that       *)
(* moment (ReplayGuard.First, failLimiter, tokenSet.valid).                *)
AdminGuarded ==
    /\ [](part = "admin" => A!ServedOnce /\ A!BlockedForCause)
    /\ [][part = "tokens" => T!AcceptsListed]_services

-----------------------------------------------------------------------------
\* What the proofs ask of the constants.
ServicesAssumption == MembershipAssumption /\ AdminAssumption /\ TokensAssumption

\* The one that runs is as its own invariant says.
ServicesInv ==
  /\ part = "membership" => CallsInv /\ ClaimsInv
  /\ part = "doors" => DoorsInv
  /\ part = "admin" => ReplayInv /\ LimiterInv
  /\ part = "tokens" => TokensInv

\* Each begins in a state of its invariant.
LEMMA ServicesBegin == ASSUME ServicesAssumption, ServicesInit PROVE ServicesInv
<1>. USE DEF ServicesAssumption, ServicesInv
<1>1. CASE part = "membership" /\ M!Init
  BY <1>1, CallsInit, ClaimsInit
<1>2. CASE part = "doors" /\ D!Init
  BY <1>2, DoorsInit
<1>3. CASE part = "admin" /\ A!Init
  BY <1>3, AdminInit
<1>4. CASE part = "tokens" /\ T!Init
  BY <1>4, TokensInit
<1>. QED
  BY <1>1, <1>2, <1>3, <1>4 DEF ServicesInit

\* A step of the composition is one of the service that runs.
LEMMA ServicesOwn ==
  ASSUME [ServicesNext]_services
  PROVE  /\ part' = part
         /\ part = "membership" => [M!Next]_(M!vars)
         /\ part = "doors" => [D!Next]_(D!vars)
         /\ part = "admin" => [A!Next]_(A!vars)
         /\ part = "tokens" => [T!Next]_(T!vars)
<1>1. CASE ServicesNext
  BY <1>1 DEF ServicesNext
<1>2. CASE UNCHANGED services
  BY <1>2 DEF services, membership, doors, admin, tokens, M!vars, D!vars, A!vars, T!vars
<1>. QED
  BY <1>1, <1>2

\* A step keeps the invariant of the service that runs.
LEMMA ServicesStep == ASSUME ServicesAssumption, ServicesInv, [ServicesNext]_services PROVE ServicesInv'
<1>. USE DEF ServicesAssumption, ServicesInv
<1>1. ASSUME part = "membership" PROVE (CallsInv /\ ClaimsInv)'
  BY <1>1, ServicesOwn, CallsStep, ClaimsStep
<1>2. ASSUME part = "doors" PROVE DoorsInv'
  BY <1>2, ServicesOwn, DoorsStep
<1>3. ASSUME part = "admin" PROVE (ReplayInv /\ LimiterInv)'
  BY <1>3, ServicesOwn, ReplayStep, LimiterStep
<1>4. ASSUME part = "tokens" PROVE TokensInv'
  BY <1>4, ServicesOwn, TokensStep
<1>. QED
  BY <1>1, <1>2, <1>3, <1>4, ServicesOwn

\* A member who was removed is out of the calls, an invite has the limits it was
\* asked for, the doors agree and a member mints only what the relay allows, for
\* any members, codes, limits and requests (removeMember, resolveInviteLimits,
\* Visible, Authorize).
THEOREM MembersStayConsistent == ASSUME ServicesAssumption PROVE ServicesSpec => MembersConsistent
<1>1. ServicesInit => ServicesInv
  BY ServicesBegin
<1>2. ServicesInv /\ [ServicesNext]_services => ServicesInv'
  BY ServicesStep
<1>3. ServicesInv => /\ part = "membership" => M!RemovedLeavesCalls /\ M!InvitesAsAsked
                     /\ part = "doors" => D!DoorsAgree
  BY ClaimsAsAsked DEF ServicesInv, CallsInv, DoorsInv
<1>4. ServicesInv /\ [ServicesNext]_services => [part = "doors" => D!MemberOnlyMints]_services
  BY ServicesOwn, MembersMint DEF ServicesInv
<1>. QED
  BY <1>1, <1>2, <1>3, <1>4, PTL DEF ServicesSpec, MembersConsistent

\* The admin listener serves a signed request once, blocks an address for cause and
\* lets a scrape in with a listed token, for any windows, limits, addresses, events
\* and tokens (ReplayGuard.First, failLimiter, tokenSet.valid).
THEOREM AdminStaysGuarded == ASSUME ServicesAssumption PROVE ServicesSpec => AdminGuarded
<1>1. ServicesInit => ServicesInv
  BY ServicesBegin
<1>2. ServicesInv /\ [ServicesNext]_services => ServicesInv'
  BY ServicesStep
<1>3. ServicesInv => (part = "admin" => A!ServedOnce /\ A!BlockedForCause)
  BY ReplayGuards, LimiterIsFair DEF ServicesInv, ServicesAssumption
<1>4. ServicesInv /\ [ServicesNext]_services => [part = "tokens" => T!AcceptsListed]_services
  BY TokensListed DEF ServicesInv, ServicesAssumption
<1>. QED
  BY <1>1, <1>2, <1>3, <1>4, PTL DEF ServicesSpec, AdminGuarded

=============================================================================
