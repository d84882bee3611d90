-------------------------- MODULE MembershipDoors ---------------------------
(* The two doors to relay membership: the signed REST routes of
   cli/relay/service_membership.go, for admins, and the NIP-86 methods of
   cli/relay/service_nip86.go, for admins and, with memberClaims, for members
   asking for an invite.  A request is let in, and later dispatched; in
   between members come and go.  What the shared membershipAdmin does in two
   steps is Membership's; here its calls are whole. *)
EXTENDS Naturals, FiniteSets

CONSTANTS Keys, Admins,
          Codes,       \* invite codes; "made" stands for one the relay makes
          WeakCodes,   \* codes validateClaimStrength refuses
          Expiries,    \* explicit expires_at values
          TTL, MaxTTL, \* membershipInviteTTL, membershipInviteMaxTTL
          Uses,        \* membershipInviteMaxUses
          Reqs, MaxRequests, MaxNow

VARIABLES conf,      \* [nip86, on, claims, noExpiry], fixed at startup
          members, claims, now,
          req,       \* [Reqs -> the request in progress]
          count

vars == <<conf, members, claims, now, req, count>>
----------------------------------------------------------------------------
NoClaim == [on |-> FALSE, exp |-> 0, uses |-> 0, explicit |-> FALSE, at |-> 0]
Idle == [pc |-> "idle", caller |-> "", door |-> "", method |-> "", who |-> "", code |-> "", exp |-> 0]

Methods == {"allowpubkey", "unallowpubkey", "createclaim", "createclaimwithlimits", "deleteclaim", "listclaims"}

\* What the configuration may say; the invites' limits are MaxTTL and Uses.
Confs == [nip86 : BOOLEAN, on : BOOLEAN, claims : BOOLEAN, noExpiry : BOOLEAN]

\* Nobody is a member yet.
Init ==
  /\ conf \in Confs
  /\ members = {} /\ claims = [c \in Codes |-> NoClaim] /\ now = 1
  /\ req = [q \in Reqs |-> Idle] /\ count = 0

\* expires_at 0 is never, where allowed; else in the future and under the ceiling.
InPolicy(t, e) == IF e = 0 THEN conf.noExpiry ELSE e > t /\ e <= t + MaxTTL

Claim(e, explicit) == [on |-> TRUE, exp |-> e, uses |-> Uses, explicit |-> explicit, at |-> now]

Arrive(q, r) ==
  /\ req[q].pc = "idle" /\ count < MaxRequests
  /\ req' = [req EXCEPT ![q] = r] /\ count' = count + 1
  /\ UNCHANGED <<conf, members, claims, now>>

Ends(q) == req' = [req EXCEPT ![q] = Idle]
Refused(q) == Ends(q) /\ UNCHANGED <<conf, members, claims, now, count>>
----------------------------------------------------------------------------
(* Who is let in *)

\* adminAuth: a signature of an admin's.
AdminAuth(caller) == caller \in Admins

\* The NIP-86 handler, there only when enabled: an admin, or with membership and
\* member claims on, a member.
Nip86Auth(caller) == conf.nip86 /\ (caller \in Admins \/ (conf.on /\ conf.claims /\ caller \in members))

Authenticate(q) ==
  /\ req[q].pc = "auth"
  /\ IF IF req[q].door = "rest" THEN AdminAuth(req[q].caller) ELSE Nip86Auth(req[q].caller)
     THEN /\ req' = [req EXCEPT ![q].pc = "dispatch"]
          /\ UNCHANGED <<conf, members, claims, now, count>>
     ELSE Refused(q)

\* Mutant: what is hidden is hidden from the list of methods only.
VisibleAll(caller, m) == TRUE

\* A member sees and may call createclaim; a hidden method is an unknown one.
Visible(caller, m) == ~conf.claims \/ caller \in Admins \/ m = "createclaim"

\* Mutant: the REST routes run whatever the configuration.
RequireMembershipNever == TRUE

\* 501 when membership is off; the NIP-86 methods are not even registered.
RequireMembership == conf.on

Dispatched(q) ==
  /\ req[q].pc = "dispatch" /\ RequireMembership
  /\ req[q].door = "rest" \/ Visible(req[q].caller, req[q].method)

NotDispatched(q) ==
  /\ req[q].pc = "dispatch"
  /\ ~RequireMembership \/ (req[q].door = "nip86" /\ ~Visible(req[q].caller, req[q].method))
  /\ Refused(q)
----------------------------------------------------------------------------
(* The methods *)

AllowPubkey(q) ==
  /\ Dispatched(q) /\ req[q].method = "allowpubkey"
  /\ members' = members \cup {req[q].who} /\ Ends(q)
  /\ UNCHANGED <<conf, claims, now, count>>

UnallowPubkey(q) ==
  /\ Dispatched(q) /\ req[q].method = "unallowpubkey"
  /\ members' = members \ {req[q].who} /\ Ends(q)
  /\ UNCHANGED <<conf, claims, now, count>>

\* NIP-86: a code of the caller's, strong and new, or one the relay makes; the relay's limits.
CreateClaim(q) ==
  /\ Dispatched(q) /\ req[q].method = "createclaim" /\ req[q].door = "nip86"
  /\ claims' = IF req[q].code \in WeakCodes \/ (req[q].code # "made" /\ claims[req[q].code].on) THEN claims
               ELSE [claims EXCEPT ![req[q].code] = Claim(now + TTL, FALSE)]
  /\ Ends(q) /\ UNCHANGED <<conf, members, now, count>>

\* NIP-86: a named code and an expiry, refused when outside the policy.
CreateClaimWithLimits(q) ==
  /\ Dispatched(q) /\ req[q].method = "createclaimwithlimits" /\ req[q].door = "nip86"
  /\ LET c == req[q].code
     IN  claims' = IF c = "made" \/ c \in WeakCodes \/ ~InPolicy(now, req[q].exp) \/ claims[c].on THEN claims
                   ELSE [claims EXCEPT ![c] = Claim(req[q].exp, TRUE)]
  /\ Ends(q) /\ UNCHANGED <<conf, members, now, count>>

\* Mutant: the route stores the expiry it was sent.
InviteCreateUnchecked(q) ==
  /\ Dispatched(q) /\ req[q].door = "rest" /\ req[q].method = "createclaimwithlimits"
  /\ claims' = [claims EXCEPT !["made"] = Claim(req[q].exp, TRUE)]
  /\ Ends(q) /\ UNCHANGED <<conf, members, now, count>>

\* REST: a made code, with the validated expiry, or with a lifetime of the caller's.
InviteCreate(q) ==
  /\ Dispatched(q) /\ req[q].door = "rest" /\ req[q].method \in {"createclaim", "createclaimwithlimits"}
  /\ claims' = IF req[q].method = "createclaim" THEN [claims EXCEPT !["made"] = Claim(now + TTL, FALSE)]
               ELSE IF InPolicy(now, req[q].exp) THEN [claims EXCEPT !["made"] = Claim(req[q].exp, TRUE)]
               ELSE claims
  /\ Ends(q) /\ UNCHANGED <<conf, members, now, count>>

DeleteClaim(q) ==
  /\ Dispatched(q) /\ req[q].method = "deleteclaim"
  /\ claims' = [claims EXCEPT ![req[q].code] = NoClaim]
  /\ Ends(q) /\ UNCHANGED <<conf, members, now, count>>

ListClaims(q) ==
  /\ Dispatched(q) /\ req[q].method = "listclaims"
  /\ Ends(q) /\ UNCHANGED <<conf, members, claims, now, count>>

\* A join with a live code, and a leave, over the WebSocket.
Joins(k) ==
  /\ conf.on /\ k \notin members
  /\ \E c \in Codes : claims[c].on /\ (claims[c].exp = 0 \/ now <= claims[c].exp)
  /\ members' = members \cup {k} /\ UNCHANGED <<conf, claims, now, req, count>>

Leaves(k) ==
  /\ k \in members /\ members' = members \ {k} /\ UNCHANGED <<conf, claims, now, req, count>>

Tick == now < MaxNow /\ now' = now + 1 /\ UNCHANGED <<conf, members, claims, req, count>>

\* Through either door: [method, who, code, exp] from the given sets.
Calls(methods, who, codes, exps) ==
  [pc : {"auth"}, caller : Keys, door : {"rest", "nip86"}, method : methods, who : who, code : codes, exp : exps]

\* Requests that differ only in what their method ignores are one.
Requests ==
       Calls({"allowpubkey", "unallowpubkey"}, Keys \ Admins, {""}, {0})
  \cup Calls({"createclaim", "deleteclaim"}, {""}, Codes, {0})
  \cup Calls({"createclaimwithlimits"}, {""}, Codes, Expiries)
  \cup Calls({"listclaims"}, {""}, {""}, {0})

Next ==
  \/ \E q \in Reqs : \/ \E r \in Requests : Arrive(q, r)
                     \/ Authenticate(q) \/ NotDispatched(q) \/ AllowPubkey(q) \/ UnallowPubkey(q)
                     \/ CreateClaim(q) \/ CreateClaimWithLimits(q) \/ InviteCreate(q) \/ DeleteClaim(q) \/ ListClaims(q)
  \/ \E k \in Keys \ Admins : Joins(k) \/ Leaves(k)
  \/ Tick

Spec == Init /\ [][Next]_vars
----------------------------------------------------------------------------
MemberOnlyMints ==
    \A q \in Reqs : (req[q].pc = "dispatch" /\ req'[q].pc = "idle" /\ req[q].caller \notin Admins) =>
    /\ members' = members
    /\ \A c \in Codes : claims'[c] # claims[c] =>
         /\ conf.on /\ conf.claims /\ req[q].method = "createclaim"
         /\ claims[c].on => c = "made"
         /\ claims'[c].exp = now + TTL /\ ~claims'[c].explicit

\* Whatever a member may send through either door, all it can change is to add a new
\* invite under the relay's own limits: nobody's membership, no other invite, no limit of
\* its choosing (Visible, Authorize in newNip86Handler).
MembersMintOnly == [][MemberOnlyMints]_vars

\* An invite with an expiry somebody asked for had it inside the relay's policy when it
\* was stored, whichever door it came through, and a relay without membership has none
\* ("validated by the SAME shared resolveInviteLimits validator").
DoorsAgree ==
  \A c \in Codes : claims[c].on => conf.on /\ (claims[c].explicit => InPolicy(claims[c].at, claims[c].exp))
=============================================================================
