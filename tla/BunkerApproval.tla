--------------------------- MODULE BunkerApproval ---------------------------
(***************************************************************************)
(* How a remote request is authorized (cli/bunker/handler.go, the pairing  *)
(* half of daemon.go, and client.go's decisions): pairing secrets and      *)
(* staged grants, the remembered permissions, the approval queue and the   *)
(* humans deciding on it.  Every request runs in a goroutine of its own    *)
(* and each of its accesses to the handler, the store and the queue is a   *)
(* locked section of its own, so these are the steps.                      *)
(*                                                                         *)
(* The queue is used through what it promises, BunkerDecisions; the store  *)
(* is reduced to one verdict per app and method (BunkerPolicy has the      *)
(* rest).  Requests have distinct ids.                                     *)
(***************************************************************************)
EXTENDS Naturals, FiniteSets, TLC, TLAPS

CONSTANTS
    Apps,       \* client pubkeys
    Calls,      \* requests
    Operators,  \* concurrent `connect` commands
    Humans,     \* clients deciding pending requests
    Secrets,    \* pairing secrets, one per bunker:// pairing
    MaxAdmin,   \* bound on nostrconnect commands and direct changes of the store
    None

Verdicts == {"allow", "deny"}
Resolution == [verdict : Verdicts, remembered : BOOLEAN]

ASSUME ApprovalAssumption ==
    MaxAdmin \in Nat /\ None \notin Calls \cup Apps \cup Secrets /\ None \notin Resolution

VARIABLES
    armed,    \* the secret the next connect must present (bunker.Server)
    spec,     \* Handler.pendingGrantSpec, named by the secret it was staged for
    op,       \* the connect commands in progress
    shown,    \* secrets whose bunker:// URI was handed out
    call,     \* the requests in progress
    paired,   \* apps with a session
    rule,     \* the verdict remembered per app and method, "ask" if none
    human,    \* Approve/Reject calls in progress
    admin,    \* nostrconnect commands and direct changes of the store
    \* the queue
    joined, about, decision, returned,
    \* observation
    recorded, \* requests that have a history entry
    consented \* apps an operator explicitly gave a lasting permission

queueVars == <<joined, about, decision, returned>>
storeVars == <<paired, rule>>
pairingVars == <<armed, spec, op, shown>>
vars == <<pairingVars, storeVars, call, human, queueVars, admin, recorded, consented>>

Granted == {"connect", "sign_event"}      \* methods looked up in the store
Managing == {"switch_relays", "logout"}   \* methods of the client's own session
Methods == Granted \cup Managing

Queue == INSTANCE BunkerDecisions WITH IDs <- Calls

NewCall == [pc |-> "new", app |-> None, method |-> "none", secret |-> None,
            perms |-> FALSE, took |-> None]
IdleOp == [pc |-> "idle", secret |-> None, staging |-> FALSE, app |-> None]
IdleHuman == [pc |-> "idle", call |-> None, verdict |-> "deny", always |-> FALSE]

Waiting(c) == joined[c] = c /\ decision[c] = None

Goto(c, pc) == call' = [call EXCEPT ![c].pc = pc]

\* Store.Remember, which also opens a session where there is none.
Remember(a, m, v) ==
    /\ rule' = [rule EXCEPT ![a][m] = v]
    /\ paired' = paired \cup {a}

\* The requested perms, which may be none, and the grants of a spec.
RememberPerms(a) == UNCHANGED storeVars \/ Remember(a, "sign_event", "allow")
RememberSpec(a) == \E v \in Verdicts : Remember(a, "sign_event", v)

\* Mutant: the session goes, its grants stay.
ForgetSessionOnly(a) ==
    /\ paired' = paired \ {a}
    /\ UNCHANGED rule

\* Store.Revoke
Forget(a) ==
    /\ rule' = [rule EXCEPT ![a] = [m \in Granted |-> "ask"]]
    /\ paired' = paired \ {a}

Init ==
    /\ armed = None /\ spec = None
    /\ op = [o \in Operators |-> IdleOp]
    /\ shown = {}
    /\ call = [c \in Calls |-> NewCall]
    /\ paired = {}
    /\ rule = [a \in Apps |-> [m \in Granted |-> "ask"]]
    /\ human = [h \in Humans |-> IdleHuman]
    /\ Queue!Init
    /\ admin = 0
    /\ recorded = {} /\ consented = {}

-----------------------------------------------------------------------------
(* Pairing commands *)

\* SetPendingSecret, first half: drop what an earlier attempt staged.
StartPairing(o, s, staging) ==
    /\ op[o].pc = "idle"
    /\ s \notin shown /\ \A p \in Operators : op[p].secret # s
    /\ spec' = None
    /\ op' = [op EXCEPT ![o] = [pc |-> "arm", secret |-> s, staging |-> staging, app |-> None]]
    /\ UNCHANGED <<armed, shown, storeVars, call, human, admin, queueVars, recorded, consented>>

\* SetPendingSecret, second half: ArmSecret replaces any armed secret.  With
\* no grants to stage, the URI is returned.
ArmSecret(o) ==
    /\ op[o].pc = "arm"
    /\ armed' = op[o].secret
    /\ IF op[o].staging
       THEN op' = [op EXCEPT ![o].pc = "stage"] /\ UNCHANGED shown
       ELSE op' = [op EXCEPT ![o] = IdleOp] /\ shown' = shown \cup {op[o].secret}
    /\ UNCHANGED <<spec, storeVars, call, human, admin, queueVars, recorded, consented>>

\* SetPendingGrants, and the URI is returned.
StageGrants(o) ==
    /\ op[o].pc = "stage"
    /\ spec' = op[o].secret
    /\ shown' = shown \cup {op[o].secret}
    /\ op' = [op EXCEPT ![o] = IdleOp]
    /\ UNCHANGED <<armed, storeVars, call, human, admin, queueVars, recorded, consented>>

\* PairingSecretTTL runs out.
SecretExpires ==
    /\ armed # None
    /\ armed' = None
    /\ UNCHANGED <<spec, op, shown, storeVars, call, human, admin, queueVars, recorded, consented>>

\* InitiateNostrconnectWithGrants, once the response carrying the URI's
\* secret is out: Pair, then the perms of the URI, then the spec's grants.
Nostrconnect(o, a) ==
    /\ op[o].pc = "idle"
    /\ admin < MaxAdmin /\ admin' = admin + 1
    /\ paired' = paired \cup {a}
    /\ op' = [op EXCEPT ![o] = [pc |-> "perms", secret |-> None, staging |-> FALSE, app |-> a]]
    /\ consented' = consented \cup {a}
    /\ UNCHANGED <<armed, spec, shown, rule, call, human, queueVars, recorded>>

NostrconnectPerms(o) ==
    /\ op[o].pc = "perms"
    /\ RememberPerms(op[o].app)
    /\ op' = [op EXCEPT ![o].pc = "grant"]
    /\ UNCHANGED <<armed, spec, shown, call, human, admin, queueVars, recorded, consented>>

NostrconnectGrant(o) ==
    /\ op[o].pc = "grant"
    /\ UNCHANGED storeVars \/ RememberSpec(op[o].app)
    /\ op' = [op EXCEPT ![o] = IdleOp]
    /\ UNCHANGED <<armed, spec, shown, call, human, admin, queueVars, recorded, consented>>

-----------------------------------------------------------------------------
(* Requests: Handle, Authorize, pair, decided *)

\* The server takes a connect that presents the armed secret, which is spent.
ConnectArrives(c, a) ==
    /\ call[c].pc = "new"
    /\ armed \in shown
    /\ call' = [call EXCEPT ![c].pc = "authorize", ![c].app = a,
                            ![c].method = "connect", ![c].secret = armed]
    /\ armed' = None
    /\ UNCHANGED <<spec, op, shown, storeVars, human, admin, queueVars, recorded, consented>>

Arrives(c, a, m) ==
    /\ call[c].pc = "new"
    /\ call' = [call EXCEPT ![c].pc = "authorize", ![c].app = a, ![c].method = m]
    /\ UNCHANGED <<pairingVars, storeVars, human, admin, queueVars, recorded, consented>>

\* hasPendingGrantSpec: a staged spec is the approval of a connect.
CheckStaged(c) ==
    /\ call[c].pc = "authorize" /\ call[c].method = "connect"
    /\ IF spec # None
       THEN /\ call' = [call EXCEPT ![c].pc = "pair", ![c].perms = TRUE]
            /\ recorded' = recorded \cup {c}
            /\ consented' = consented \cup {call[c].app}
       ELSE Goto(c, "decide") /\ UNCHANGED <<recorded, consented>>
    /\ UNCHANGED <<pairingVars, storeVars, human, admin, queueVars>>

\* switch_relays and logout: for a paired app, without asking.
Manage(c) ==
    /\ call[c].pc = "authorize" /\ call[c].method \in Managing
    /\ Goto(c, IF call[c].app \in paired THEN "allowed" ELSE "denied")
    /\ UNCHANGED <<pairingVars, storeVars, human, admin, queueVars, recorded, consented>>

AfterAllow(c) == IF call[c].method = "connect" THEN "pair" ELSE "allowed"

\* Mutant: a standing grant answers without OnAutoApproved.
DecideUnrecorded(c) ==
    /\ \/ call[c].pc = "decide"
       \/ call[c].pc = "authorize" /\ call[c].method = "sign_event"
    /\ LET verdict == rule[call[c].app][call[c].method]
       IN  Goto(c, CASE verdict = "deny" -> "denied"
                     [] verdict = "allow" -> AfterAllow(c)
                     [] verdict = "ask" -> "ask")
    /\ UNCHANGED <<pairingVars, storeVars, human, admin, queueVars, recorded, consented>>

\* Store.Decide; OnAutoApproved for a standing grant.
Decide(c) ==
    /\ \/ call[c].pc = "decide"
       \/ call[c].pc = "authorize" /\ call[c].method = "sign_event"
    /\ LET verdict == rule[call[c].app][call[c].method]
       IN  /\ Goto(c, CASE verdict = "deny" -> "denied"
                        [] verdict = "allow" -> AfterAllow(c)
                        [] verdict = "ask" -> "ask")
           /\ recorded' = IF verdict = "allow" THEN recorded \cup {c} ELSE recorded
    /\ UNCHANGED <<pairingVars, storeVars, human, admin, queueVars, consented>>

\* Queue.Add: blocks, or is turned away when the queue is full.
Ask(c) ==
    /\ call[c].pc = "ask"
    /\ \/ Queue!Join(c, c, c) /\ Goto(c, "wait")
       \/ Queue!TurnAway(c, c) /\ Goto(c, "denied")
    /\ UNCHANGED <<pairingVars, storeVars, human, admin, recorded, consented>>

\* Mutant: an approval always persists the requested perms.
AskReturnsPersist(c) ==
    /\ call[c].pc = "wait"
    /\ Queue!Return(c)
    /\ call' = [call EXCEPT ![c].pc = IF decision[c].verdict = "allow" THEN AfterAllow(c) ELSE "denied",
                            ![c].perms = TRUE]
    /\ UNCHANGED <<pairingVars, storeVars, human, admin, recorded, consented>>

\* Mutant: any decision lets the request through.
AskReturnsUnchecked(c) ==
    /\ call[c].pc = "wait"
    /\ Queue!Return(c)
    /\ call' = [call EXCEPT ![c].pc = AfterAllow(c), ![c].perms = decision[c].remembered]
    /\ UNCHANGED <<pairingVars, storeVars, human, admin, recorded, consented>>

\* Queue.Add returns the decision.
AskReturns(c) ==
    /\ call[c].pc = "wait"
    /\ Queue!Return(c)
    /\ call' = [call EXCEPT ![c].pc = IF decision[c].verdict = "allow" THEN AfterAllow(c) ELSE "denied",
                            ![c].perms = decision[c].remembered]
    /\ UNCHANGED <<pairingVars, storeVars, human, admin, recorded, consented>>

\* pair: Store.Pair ...
PairSession(c) ==
    /\ call[c].pc = "pair"
    /\ paired' = paired \cup {call[c].app}
    /\ Goto(c, IF call[c].perms THEN "perms" ELSE "take")
    /\ UNCHANGED <<pairingVars, rule, human, admin, queueVars, recorded, consented>>

\* ... the perms the connect asked for ...
PairPerms(c) ==
    /\ call[c].pc = "perms"
    /\ RememberPerms(call[c].app)
    /\ Goto(c, "take")
    /\ UNCHANGED <<pairingVars, human, admin, queueVars, recorded, consented>>

\* Mutant: the staged spec is read and left in place.
PairTakeLeaves(c) ==
    /\ call[c].pc = "take"
    /\ call' = [call EXCEPT ![c].pc = IF spec = None THEN "allowed" ELSE "apply",
                            ![c].took = spec]
    /\ consented' = IF spec = None THEN consented ELSE consented \cup {call[c].app}
    /\ UNCHANGED <<pairingVars, storeVars, human, admin, queueVars, recorded>>

\* ... takePendingGrantSpec ...
PairTake(c) ==
    /\ call[c].pc = "take"
    /\ spec' = None
    /\ call' = [call EXCEPT ![c].pc = IF spec = None THEN "allowed" ELSE "apply",
                            ![c].took = spec]
    /\ consented' = IF spec = None THEN consented ELSE consented \cup {call[c].app}
    /\ UNCHANGED <<armed, op, shown, storeVars, human, admin, queueVars, recorded>>

\* ... and its grants.
PairApply(c) ==
    /\ call[c].pc = "apply"
    /\ RememberSpec(call[c].app)
    /\ Goto(c, "allowed")
    /\ UNCHANGED <<pairingVars, human, admin, queueVars, recorded, consented>>

\* decided: logout revokes the session once the response is settled.
Finish(c) ==
    /\ call[c].pc \in {"allowed", "denied"}
    /\ Goto(c, IF call[c].pc = "allowed" THEN "done" ELSE "refused")
    /\ IF call[c].pc = "allowed" /\ call[c].method = "logout"
       THEN Forget(call[c].app)
       ELSE UNCHANGED storeVars
    /\ UNCHANGED <<pairingVars, human, admin, queueVars, recorded, consented>>

-----------------------------------------------------------------------------
(* Humans and the sweep *)

\* Approve or Reject: the request is looked up first only if a grant is to be
\* remembered.
HumanPicks(h, c, verdict, always) ==
    /\ human[h].pc = "idle"
    /\ Waiting(c)
    /\ human' = [human EXCEPT ![h] = [pc |-> IF always THEN "remember" ELSE "resolve",
                                      call |-> c, verdict |-> verdict, always |-> always]]
    /\ UNCHANGED <<pairingVars, storeVars, call, admin, queueVars, recorded, consented>>

\* Store.Remember; if its save fails, the request stays undecided.
HumanRemembers(h) ==
    LET c == human[h].call
    IN  /\ human[h].pc = "remember"
        /\ Remember(call[c].app, call[c].method, human[h].verdict)
        /\ consented' = consented \cup {call[c].app}
        /\ \/ human' = [human EXCEPT ![h].pc = "resolve"]
           \/ human' = [human EXCEPT ![h] = IdleHuman]
        /\ UNCHANGED <<pairingVars, call, admin, queueVars, recorded>>

\* Queue.Resolve: ErrNotPending if somebody else was faster.
HumanResolves(h) ==
    LET c == human[h].call
    IN  /\ human[h].pc = "resolve"
        /\ IF Waiting(c)
           THEN /\ Queue!Decide(c, [verdict |-> human[h].verdict, remembered |-> human[h].always])
                /\ recorded' = recorded \cup {c}
           ELSE UNCHANGED <<queueVars, recorded>>
        /\ human' = [human EXCEPT ![h] = IdleHuman]
        /\ UNCHANGED <<pairingVars, storeVars, call, admin, consented>>

\* The queue's sweep denies a request nobody decided.
Expires(c) ==
    /\ Queue!Decide(c, [verdict |-> "deny", remembered |-> FALSE])
    /\ recorded' = recorded \cup {c}
    /\ UNCHANGED <<pairingVars, storeVars, call, human, admin, consented>>

\* The store changed directly: Revoke, RevokeGrant and SetGrant of the
\* BunkerClient interface.
Administer(a) ==
    /\ admin < MaxAdmin /\ admin' = admin + 1
    /\ \/ a \in paired /\ Forget(a) /\ UNCHANGED consented
       \/ \E m \in Granted :
             /\ rule[a][m] # "ask"
             /\ rule' = [rule EXCEPT ![a][m] = "ask"]
             /\ UNCHANGED <<paired, consented>>
       \/ /\ \E m \in Granted, v \in Verdicts : Remember(a, m, v)
          /\ consented' = consented \cup {a}
    /\ UNCHANGED <<pairingVars, call, human, queueVars, recorded>>

-----------------------------------------------------------------------------
Handling(c) ==
    \/ CheckStaged(c) \/ Manage(c) \/ Decide(c) \/ Ask(c) \/ AskReturns(c)
    \/ PairSession(c) \/ PairPerms(c) \/ PairTake(c) \/ PairApply(c) \/ Finish(c)

Next ==
    \/ \E o \in Operators :
          \/ \E s \in Secrets, staging \in BOOLEAN : StartPairing(o, s, staging)
          \/ ArmSecret(o) \/ StageGrants(o) \/ NostrconnectPerms(o) \/ NostrconnectGrant(o)
          \/ \E a \in Apps : Nostrconnect(o, a)
    \/ SecretExpires
    \/ \E c \in Calls :
          \/ \E a \in Apps : ConnectArrives(c, a) \/ \E m \in Methods \ {"connect"} : Arrives(c, a, m)
          \/ Handling(c) \/ Expires(c)
    \/ \E h \in Humans :
          \/ \E c \in Calls, v \in Verdicts, always \in BOOLEAN : HumanPicks(h, c, v, always)
          \/ HumanRemembers(h) \/ HumanResolves(h)
    \/ \E a \in Apps : Administer(a)

Spec == Init /\ [][Next]_vars

\* Apps, requests and secrets are interchangeable.
Symmetry == Permutations(Apps) \cup Permutations(Calls) \cup Permutations(Secrets)

-----------------------------------------------------------------------------
OpState == [pc : {"idle", "arm", "stage", "perms", "grant"}, secret : Secrets \cup {None},
            staging : BOOLEAN, app : Apps \cup {None}]
CallState == [pc : {"new", "authorize", "decide", "ask", "wait", "pair", "perms", "take",
                    "apply", "allowed", "denied", "done", "refused"},
              app : Apps \cup {None}, method : Methods \cup {"none"},
              secret : Secrets \cup {None}, perms : BOOLEAN, took : Secrets \cup {None}]
HumanState == [pc : {"idle", "remember", "resolve"}, call : Calls \cup {None},
               verdict : Verdicts, always : BOOLEAN]

PairingTypeOK ==
    /\ armed \in Secrets \cup {None} /\ spec \in Secrets \cup {None}
    /\ shown \subseteq Secrets
    /\ op \in [Operators -> OpState]
StoreTypeOK ==
    /\ paired \subseteq Apps
    /\ rule \in [Apps -> [Granted -> Verdicts \cup {"ask"}]]
    /\ \A a \in Apps : a \notin paired => \A m \in Granted : rule[a][m] = "ask"
QueueTypeOK ==
    /\ joined \in [Calls -> Calls \cup {None}] /\ about \in [Calls -> Calls \cup {None}]
    /\ decision \in [Calls -> Resolution \cup {None}]
    /\ returned \in [Calls -> Resolution \cup {None}]

\* Type correctness; a revoked app has no grants left.
TypeOK ==
    /\ PairingTypeOK /\ StoreTypeOK /\ QueueTypeOK
    /\ call \in [Calls -> CallState] /\ human \in [Humans -> HumanState]
    /\ admin \in 0..MaxAdmin /\ recorded \subseteq Calls /\ consented \subseteq Apps

\* The grants staged for one secret are given to one app only, however many
\* connects are being answered when they are staged.
SpecAppliedOnce ==
    \A c, d \in Calls : call[c].took # None /\ call[c].took = call[d].took => c = d

\* "Approve Once" is once: an app that no operator ever gave a lasting
\* permission, by "always", by a grant of its own, by a staged spec or by a
\* nostrconnect command, has nothing remembered, however often it was
\* approved.
OnceRemembersNothing ==
    \A a \in Apps \ consented : \A m \in Granted : rule[a][m] = "ask"

\* A request that was let through had a reason: a human approved this very
\* request, or an operator at some time gave its app a lasting permission.
AllowedHasReason ==
    \A c \in Calls :
        call[c].pc \in {"pair", "perms", "take", "apply", "allowed", "done"} /\ call[c].method \in Granted
        => \/ call[c].app \in consented
           \/ decision[c] # None /\ decision[c].verdict = "allow"

\* A request has its history entry before it is carried out, so that OnSigned
\* finds the entry to attach the signed event to.
RecordedBeforeSigned ==
    \A c \in Calls :
        call[c].pc \in {"allowed", "done"} /\ call[c].method \in Granted => c \in recorded

\* handler.go on SetPendingGrants: "records spec to apply to whichever pubkey
\* presents the secret SetPendingSecret armed".
StagedForPresenter ==
    \A c \in Calls : call[c].took # None => call[c].took = call[c].secret

-----------------------------------------------------------------------------
(***************************************************************************)
(* Proofs about BunkerApproval, for any sets of apps, requests, operators, *)
(* humans and secrets.                                                     *)
(*                                                                         *)
(* What the handler promises is spread over goroutines that meet only in   *)
(* the store and the queue: that a remembered grant has a reason rests on  *)
(* what a human promised two steps earlier, and that staged grants are     *)
(* applied once on no two operators ever holding one secret.  ApprovalInv  *)
(* says what each goroutine may rely on at each of its steps.              *)
(***************************************************************************)

LetThrough == {"pair", "perms", "take", "apply", "allowed", "done"}

\* Where a request is, what it asked for, and what the queue knows of it.
CallsTracked ==
    \A c \in Calls :
        /\ call[c].pc # "new" => call[c].app \in Apps /\ call[c].method \in Methods
        /\ call[c].pc \in {"decide", "ask", "wait"} => call[c].method \in Granted
        /\ call[c].pc \in {"pair", "perms", "take", "apply"} => call[c].method = "connect"
        /\ joined[c] \in {None, c}
        /\ call[c].pc \in {"new", "authorize", "decide", "ask"} => joined[c] = None
        /\ decision[c] # None => joined[c] = c /\ c \in recorded
        /\ joined[c] = c => call[c].method \in Granted

\* A human who is deciding decides a request that joined the queue, and one
\* who will resolve it for "always" has given its app a lasting permission.
HumansTracked ==
    \A h \in Humans : human[h].pc # "idle" =>
        /\ human[h].call \in Calls
        /\ joined[human[h].call] = human[h].call
        /\ human[h].pc = "resolve" /\ human[h].always => call[human[h].call].app \in consented

\* Whoever is about to write a grant has the consent for it.
ConsentFirst ==
    /\ \A c \in Calls :
          /\ decision[c] # None /\ decision[c].remembered => call[c].app \in consented
          /\ call[c].pc = "pair" /\ call[c].perms => call[c].app \in consented
          /\ call[c].pc \in {"perms", "apply"} => call[c].app \in consented
    /\ \A o \in Operators : op[o].pc \in {"perms", "grant"} => op[o].app \in consented

\* A request let through was recorded and has its reason.
LetThroughForCause ==
    \A c \in Calls : call[c].pc \in LetThrough /\ call[c].method \in Granted =>
        /\ c \in recorded
        /\ \/ call[c].app \in consented
           \/ decision[c] # None /\ decision[c].verdict = "allow"

\* A secret is with one operator until its URI is handed out, is staged only
\* then, and is taken from there once.
SecretsSingle ==
    /\ \A o \in Operators :
          /\ op[o].pc \in {"arm", "stage"} => op[o].secret \in Secrets
          /\ op[o].secret # None =>
                op[o].secret \notin shown /\ \A p \in Operators : op[p].secret = op[o].secret => p = o
    /\ spec # None => spec \in shown /\ \A c \in Calls : call[c].took # spec
    /\ \A c \in Calls : call[c].took # None => call[c].took \in shown
    /\ \A o \in Operators : op[o].pc \in {"perms", "grant"} => op[o].app \in Apps

ApprovalInv ==
    /\ TypeOK /\ CallsTracked /\ HumansTracked /\ ConsentFirst
    /\ OnceRemembersNothing /\ LetThroughForCause /\ SecretsSingle /\ SpecAppliedOnce

-----------------------------------------------------------------------------
\* The initial state satisfies the invariant.
LEMMA ApprovalInit == Init => ApprovalInv
BY ApprovalAssumption
   DEF Init, ApprovalInv, TypeOK, CallsTracked, HumansTracked, ConsentFirst, OnceRemembersNothing,
       LetThroughForCause, LetThrough, SecretsSingle, SpecAppliedOnce, NewCall, IdleOp, IdleHuman,
       Queue!Init, Granted, Methods, Managing, Verdicts,
       PairingTypeOK, StoreTypeOK, QueueTypeOK, OpState, CallState, HumanState

-----------------------------------------------------------------------------
(* Every step preserves the invariant *)

\* A pairing command draws a secret nobody holds and drops what was staged
\* (SetPendingSecret).
LEMMA StartPairingStep ==
    ASSUME ApprovalInv, NEW o \in Operators, NEW s \in Secrets, NEW staging \in BOOLEAN, StartPairing(o, s, staging)
    PROVE  ApprovalInv'
<1>. USE ApprovalAssumption DEF ApprovalInv, StartPairing, storeVars, queueVars
<1>1. PairingTypeOK'
  BY DEF TypeOK, PairingTypeOK, OpState
<1>2. ConsentFirst'
  BY DEF TypeOK, CallState, HumanState, OpState, PairingTypeOK, QueueTypeOK,
     HumansTracked, CallsTracked, ConsentFirst, Resolution
<1>3. SecretsSingle'
  BY DEF TypeOK, PairingTypeOK, OpState, CallState, SecretsSingle
<1>4. StoreTypeOK' /\ QueueTypeOK' /\ call' \in [Calls -> CallState] /\
     human' \in [Humans -> HumanState] /\
     admin' \in 0..MaxAdmin /\ recorded' \subseteq Calls /\ consented' \subseteq Apps
     /\ CallsTracked' /\ HumansTracked' /\ OnceRemembersNothing' /\ LetThroughForCause'
     /\ SpecAppliedOnce'
  BY DEF TypeOK, StoreTypeOK, QueueTypeOK, CallsTracked, HumansTracked,
     OnceRemembersNothing, LetThroughForCause, SpecAppliedOnce, LetThrough
<1>. QED
  BY <1>1, <1>2, <1>3, <1>4 DEF TypeOK

\* The secret is armed, and handed out if nothing is to be staged (ArmSecret).
LEMMA ArmSecretStep ==
    ASSUME ApprovalInv, NEW o \in Operators, ArmSecret(o)
    PROVE  ApprovalInv'
<1>. USE ApprovalAssumption DEF ApprovalInv, ArmSecret, storeVars, queueVars
<1>1. IdleOp \in OpState
  BY DEF IdleOp, OpState
<1>2. PairingTypeOK'
  BY <1>1 DEF TypeOK, PairingTypeOK, OpState, SecretsSingle
<1>3. ConsentFirst'
  BY DEF TypeOK, PairingTypeOK, OpState, IdleOp, ConsentFirst
<1>4. SecretsSingle'
  BY DEF TypeOK, PairingTypeOK, OpState, CallState, IdleOp, SecretsSingle
<1>5. StoreTypeOK' /\ QueueTypeOK' /\ call' \in [Calls -> CallState] /\
     human' \in [Humans -> HumanState] /\
     admin' \in 0..MaxAdmin /\ recorded' \subseteq Calls /\ consented' \subseteq Apps
     /\ CallsTracked' /\ HumansTracked' /\ OnceRemembersNothing' /\ LetThroughForCause'
     /\ SpecAppliedOnce'
  BY DEF TypeOK, StoreTypeOK, QueueTypeOK, CallsTracked, HumansTracked,
     OnceRemembersNothing, LetThroughForCause, SpecAppliedOnce, LetThrough
<1>. QED
  BY <1>2, <1>3, <1>4, <1>5 DEF TypeOK

\* The grants are staged under a secret no connect has presented yet
\* (SetPendingGrants).
LEMMA StageGrantsStep ==
    ASSUME ApprovalInv, NEW o \in Operators, StageGrants(o)
    PROVE  ApprovalInv'
<1>. USE ApprovalAssumption DEF ApprovalInv, StageGrants, storeVars, queueVars
<1>1. IdleOp \in OpState
  BY DEF IdleOp, OpState
<1>2. PairingTypeOK'
  BY <1>1 DEF TypeOK, PairingTypeOK, OpState, SecretsSingle
<1>3. ConsentFirst'
  BY DEF TypeOK, PairingTypeOK, OpState, IdleOp, ConsentFirst
<1>4. SecretsSingle'
  BY DEF TypeOK, PairingTypeOK, OpState, CallState, IdleOp, SecretsSingle
<1>5. StoreTypeOK' /\ QueueTypeOK' /\ call' \in [Calls -> CallState] /\
     human' \in [Humans -> HumanState] /\
     admin' \in 0..MaxAdmin /\ recorded' \subseteq Calls /\ consented' \subseteq Apps
     /\ CallsTracked' /\ HumansTracked' /\ OnceRemembersNothing' /\ LetThroughForCause'
     /\ SpecAppliedOnce'
  BY DEF TypeOK, StoreTypeOK, QueueTypeOK, CallsTracked, HumansTracked,
     OnceRemembersNothing, LetThroughForCause, SpecAppliedOnce, LetThrough
<1>. QED
  BY <1>2, <1>3, <1>4, <1>5 DEF TypeOK

\* The armed secret expires.
LEMMA SecretExpiresStep ==
    ASSUME ApprovalInv, SecretExpires
    PROVE  ApprovalInv'
<1>. USE ApprovalAssumption DEF ApprovalInv, SecretExpires, storeVars, queueVars
<1>1. PairingTypeOK'
  BY DEF TypeOK, PairingTypeOK, OpState
<1>2. StoreTypeOK' /\ QueueTypeOK' /\ call' \in [Calls -> CallState] /\
     human' \in [Humans -> HumanState] /\
     admin' \in 0..MaxAdmin /\ recorded' \subseteq Calls /\ consented' \subseteq Apps
     /\ CallsTracked' /\ HumansTracked' /\ ConsentFirst' /\ OnceRemembersNothing' /\
     LetThroughForCause' /\ SecretsSingle' /\ SpecAppliedOnce'
  BY DEF TypeOK, StoreTypeOK, QueueTypeOK, CallsTracked, HumansTracked, ConsentFirst,
     OnceRemembersNothing, LetThroughForCause, SecretsSingle, SpecAppliedOnce, LetThrough
<1>. QED
  BY <1>1, <1>2 DEF TypeOK

\* A nostrconnect command opens the session of the app it names.
LEMMA NostrconnectStep ==
    ASSUME ApprovalInv, NEW o \in Operators, NEW a \in Apps, Nostrconnect(o, a)
    PROVE  ApprovalInv'
<1>. USE ApprovalAssumption DEF ApprovalInv, Nostrconnect, queueVars
<1>1. PairingTypeOK'
  BY DEF TypeOK, PairingTypeOK, OpState
<1>2. StoreTypeOK'
  BY DEF TypeOK, StoreTypeOK, CallsTracked, HumansTracked, SecretsSingle, HumanState,
     Granted, Verdicts
<1>3. admin' \in 0..MaxAdmin /\ recorded' \subseteq Calls /\ consented' \subseteq Apps
  BY DEF TypeOK, CallsTracked, HumansTracked, PairingTypeOK, OpState
<1>4. HumansTracked'
  BY DEF TypeOK, CallState, HumanState, QueueTypeOK, HumansTracked, CallsTracked
<1>5. ConsentFirst'
  BY DEF TypeOK, CallState, HumanState, OpState, PairingTypeOK, QueueTypeOK,
     HumansTracked, CallsTracked, ConsentFirst, Resolution
<1>6. OnceRemembersNothing'
  BY DEF TypeOK, StoreTypeOK, ConsentFirst, OnceRemembersNothing, CallsTracked,
     HumansTracked, SecretsSingle, Granted
<1>7. LetThroughForCause'
  BY DEF TypeOK, CallState, QueueTypeOK, CallsTracked, LetThroughForCause, LetThrough,
     Granted, Managing, Methods
<1>8. SecretsSingle'
  BY DEF TypeOK, PairingTypeOK, OpState, CallState, SecretsSingle
<1>9. QueueTypeOK' /\ call' \in [Calls -> CallState] /\
     human' \in [Humans -> HumanState] /\ CallsTracked' /\ SpecAppliedOnce'
  BY DEF TypeOK, QueueTypeOK, CallsTracked, SpecAppliedOnce
<1>. QED
  BY <1>1, <1>2, <1>3, <1>4, <1>5, <1>6, <1>7, <1>8, <1>9 DEF TypeOK

\* It writes the perms of the URI ...
LEMMA NostrconnectPermsStep ==
    ASSUME ApprovalInv, NEW o \in Operators, NostrconnectPerms(o)
    PROVE  ApprovalInv'
<1>. USE ApprovalAssumption DEF ApprovalInv, NostrconnectPerms, RememberPerms, Remember,
     storeVars, queueVars
<1>1. op[o].app \in Apps \cap consented
  BY DEF ConsentFirst, SecretsSingle
<1>2. PairingTypeOK'
  BY DEF TypeOK, PairingTypeOK, OpState
<1>3. StoreTypeOK'
  BY DEF TypeOK, PairingTypeOK, OpState, StoreTypeOK, SecretsSingle, Granted, Verdicts
<1>4. ConsentFirst'
  BY DEF TypeOK, CallState, HumanState, OpState, PairingTypeOK, QueueTypeOK,
     HumansTracked, CallsTracked, ConsentFirst, Resolution
<1>5. OnceRemembersNothing'
  BY <1>1 DEF TypeOK, StoreTypeOK, OnceRemembersNothing, Granted
<1>6. SecretsSingle'
  BY DEF TypeOK, PairingTypeOK, OpState, CallState, SecretsSingle
<1>7. QueueTypeOK' /\ call' \in [Calls -> CallState] /\
     human' \in [Humans -> HumanState] /\
     admin' \in 0..MaxAdmin /\ recorded' \subseteq Calls /\ consented' \subseteq Apps
     /\ CallsTracked' /\ HumansTracked' /\ LetThroughForCause' /\ SpecAppliedOnce'
  BY DEF TypeOK, QueueTypeOK, CallsTracked, HumansTracked, LetThroughForCause,
     SpecAppliedOnce, LetThrough
<1>. QED
  BY <1>2, <1>3, <1>4, <1>5, <1>6, <1>7 DEF TypeOK

\* ... and the grants of its spec.
LEMMA NostrconnectGrantStep ==
    ASSUME ApprovalInv, NEW o \in Operators, NostrconnectGrant(o)
    PROVE  ApprovalInv'
<1>. USE ApprovalAssumption DEF ApprovalInv, NostrconnectGrant, RememberSpec, Remember,
     storeVars, queueVars
<1>1. IdleOp \in OpState
  BY DEF IdleOp, OpState
<1>2. PairingTypeOK'
  BY <1>1 DEF TypeOK, PairingTypeOK
<1>3. StoreTypeOK'
  BY DEF TypeOK, PairingTypeOK, OpState, StoreTypeOK, SecretsSingle, Granted, Verdicts
<1>4. ConsentFirst'
  BY DEF TypeOK, PairingTypeOK, OpState, IdleOp, ConsentFirst
<1>5. OnceRemembersNothing'
  BY ZenonT(40) DEF TypeOK, PairingTypeOK, OpState, StoreTypeOK, ConsentFirst, OnceRemembersNothing,
     SecretsSingle, Granted
<1>6. SecretsSingle'
  BY DEF TypeOK, PairingTypeOK, OpState, CallState, IdleOp, SecretsSingle
<1>7. QueueTypeOK' /\ call' \in [Calls -> CallState] /\
     human' \in [Humans -> HumanState] /\
     admin' \in 0..MaxAdmin /\ recorded' \subseteq Calls /\ consented' \subseteq Apps
     /\ CallsTracked' /\ HumansTracked' /\ LetThroughForCause' /\ SpecAppliedOnce'
  BY DEF TypeOK, QueueTypeOK, CallsTracked, HumansTracked, LetThroughForCause,
     SpecAppliedOnce, LetThrough
<1>. QED
  BY <1>2, <1>3, <1>4, <1>5, <1>6, <1>7 DEF TypeOK

\* A connect presents the armed secret.
LEMMA ConnectArrivesStep ==
    ASSUME ApprovalInv, NEW c \in Calls, NEW a \in Apps, ConnectArrives(c, a)
    PROVE  ApprovalInv'
<1>. USE ApprovalAssumption DEF ApprovalInv, ConnectArrives, storeVars, queueVars
<1>1. [call[c] EXCEPT !.pc = "authorize", !.app = a, !.method = "connect", !.secret = armed]
        \in CallState
  BY ZenonT(40) DEF TypeOK, PairingTypeOK, CallState, Methods, Granted
<1>2. PairingTypeOK'
  BY DEF TypeOK, PairingTypeOK, OpState
<1>3. call' \in [Calls -> CallState]
  BY <1>1 DEF TypeOK
<1>4. CallsTracked'
  BY DEF TypeOK, CallState, QueueTypeOK, CallsTracked, Granted, Managing, Methods
<1>5. HumansTracked'
  BY DEF TypeOK, CallState, HumanState, QueueTypeOK, HumansTracked, CallsTracked
<1>6. ConsentFirst'
  BY DEF TypeOK, CallState, HumanState, OpState, PairingTypeOK, QueueTypeOK,
     HumansTracked, CallsTracked, ConsentFirst, Resolution
<1>7. LetThroughForCause'
  BY DEF TypeOK, CallState, QueueTypeOK, CallsTracked, LetThroughForCause, LetThrough,
     Granted, Managing, Methods
<1>8. SecretsSingle'
  BY DEF TypeOK, PairingTypeOK, OpState, CallState, SecretsSingle
<1>9. SpecAppliedOnce'
  BY DEF TypeOK, PairingTypeOK, CallState, SecretsSingle, SpecAppliedOnce
<1>10. StoreTypeOK' /\ QueueTypeOK' /\ human' \in [Humans -> HumanState] /\
     admin' \in 0..MaxAdmin /\ recorded' \subseteq Calls /\ consented' \subseteq Apps
     /\ OnceRemembersNothing'
  BY DEF TypeOK, StoreTypeOK, QueueTypeOK, OnceRemembersNothing
<1>. QED
  BY <1>2, <1>3, <1>4, <1>5, <1>6, <1>7, <1>8, <1>9, <1>10 DEF TypeOK

\* Any other request arrives.
LEMMA ArrivesStep ==
    ASSUME ApprovalInv, NEW c \in Calls, NEW a \in Apps, NEW m \in Methods \ {"connect"}, Arrives(c, a, m)
    PROVE  ApprovalInv'
<1>. USE ApprovalAssumption DEF ApprovalInv, Arrives, pairingVars, storeVars, queueVars
<1>1. [call[c] EXCEPT !.pc = "authorize", !.app = a, !.method = m] \in CallState
  BY DEF TypeOK, CallState
<1>2. call' \in [Calls -> CallState]
  BY <1>1 DEF TypeOK
<1>3. CallsTracked'
  BY DEF TypeOK, CallState, QueueTypeOK, CallsTracked, Granted, Managing, Methods
<1>4. HumansTracked'
  BY DEF TypeOK, CallState, HumanState, QueueTypeOK, HumansTracked, CallsTracked
<1>5. ConsentFirst'
  BY DEF TypeOK, CallState, HumanState, OpState, PairingTypeOK, QueueTypeOK,
     HumansTracked, CallsTracked, ConsentFirst, Resolution
<1>6. LetThroughForCause'
  BY DEF TypeOK, CallState, QueueTypeOK, CallsTracked, LetThroughForCause, LetThrough,
     Granted, Managing, Methods
<1>7. SecretsSingle'
  BY DEF TypeOK, PairingTypeOK, OpState, CallState, SecretsSingle
<1>8. SpecAppliedOnce'
  BY DEF TypeOK, PairingTypeOK, CallState, SecretsSingle, SpecAppliedOnce
<1>9. PairingTypeOK' /\ StoreTypeOK' /\ QueueTypeOK' /\
     human' \in [Humans -> HumanState] /\
     admin' \in 0..MaxAdmin /\ recorded' \subseteq Calls /\ consented' \subseteq Apps
     /\ OnceRemembersNothing'
  BY DEF TypeOK, PairingTypeOK, StoreTypeOK, QueueTypeOK, OnceRemembersNothing
<1>. QED
  BY <1>2, <1>3, <1>4, <1>5, <1>6, <1>7, <1>8, <1>9 DEF TypeOK

\* A staged spec approves the connect (hasPendingGrantSpec).
LEMMA CheckStagedStep ==
    ASSUME ApprovalInv, NEW c \in Calls, CheckStaged(c)
    PROVE  ApprovalInv'
<1>. USE ApprovalAssumption DEF ApprovalInv, CheckStaged, Goto, pairingVars, storeVars,
     queueVars
<1>1. call[c].app \in Apps
  BY DEF CallsTracked
<1>2. call' \in [Calls -> CallState]
  BY DEF TypeOK, CallState
<1>3. admin' \in 0..MaxAdmin /\ recorded' \subseteq Calls /\ consented' \subseteq Apps
  BY DEF TypeOK, CallsTracked, HumansTracked, PairingTypeOK, OpState
<1>4. CallsTracked'
  BY SMTT(20), ZenonT(40) DEF TypeOK, CallState, QueueTypeOK, CallsTracked, Granted, Managing, Methods
<1>5. HumansTracked'
  BY DEF TypeOK, CallState, HumanState, QueueTypeOK, HumansTracked, CallsTracked
<1>6. ConsentFirst'
  BY <1>1 DEF TypeOK, CallState, ConsentFirst, CallsTracked
<1>7. OnceRemembersNothing'
  BY DEF TypeOK, StoreTypeOK, ConsentFirst, OnceRemembersNothing, CallsTracked,
     HumansTracked, SecretsSingle, Granted
<1>8. LetThroughForCause'
  BY SMTT(20), ZenonT(40) DEF TypeOK, CallState, QueueTypeOK, CallsTracked, LetThroughForCause, LetThrough,
     Granted, Managing, Methods
<1>9. SecretsSingle'
  BY DEF TypeOK, PairingTypeOK, OpState, CallState, SecretsSingle
<1>10. SpecAppliedOnce'
  BY DEF TypeOK, PairingTypeOK, CallState, SecretsSingle, SpecAppliedOnce
<1>11. PairingTypeOK' /\ StoreTypeOK' /\ QueueTypeOK' /\
     human' \in [Humans -> HumanState]
  BY DEF TypeOK, PairingTypeOK, StoreTypeOK, QueueTypeOK
<1>. QED
  BY <1>2, <1>3, <1>4, <1>5, <1>6, <1>7, <1>8, <1>9, <1>10, <1>11 DEF TypeOK

\* switch_relays and logout are decided by the session alone.
LEMMA ManageStep ==
    ASSUME ApprovalInv, NEW c \in Calls, Manage(c)
    PROVE  ApprovalInv'
<1>. USE ApprovalAssumption DEF ApprovalInv, Manage, Goto, pairingVars, storeVars,
     queueVars
<1>1. call' \in [Calls -> CallState]
  BY DEF TypeOK, CallState
<1>2. CallsTracked'
  BY DEF TypeOK, CallState, QueueTypeOK, CallsTracked, Granted, Managing, Methods
<1>3. HumansTracked'
  BY DEF TypeOK, CallState, HumanState, QueueTypeOK, HumansTracked, CallsTracked
<1>4. ConsentFirst'
  BY DEF TypeOK, CallState, HumanState, OpState, PairingTypeOK, QueueTypeOK,
     HumansTracked, CallsTracked, ConsentFirst, Resolution
<1>5. LetThroughForCause'
  BY DEF TypeOK, CallState, QueueTypeOK, CallsTracked, LetThroughForCause, LetThrough,
     Granted, Managing, Methods
<1>6. SecretsSingle'
  BY DEF TypeOK, PairingTypeOK, OpState, CallState, SecretsSingle
<1>7. SpecAppliedOnce'
  BY DEF TypeOK, PairingTypeOK, CallState, SecretsSingle, SpecAppliedOnce
<1>8. PairingTypeOK' /\ StoreTypeOK' /\ QueueTypeOK' /\
     human' \in [Humans -> HumanState] /\
     admin' \in 0..MaxAdmin /\ recorded' \subseteq Calls /\ consented' \subseteq Apps
     /\ OnceRemembersNothing'
  BY DEF TypeOK, PairingTypeOK, StoreTypeOK, QueueTypeOK, OnceRemembersNothing
<1>. QED
  BY <1>1, <1>2, <1>3, <1>4, <1>5, <1>6, <1>7, <1>8 DEF TypeOK

\* A request that moves on keeps its type.
LEMMA GotoTyped ==
    ASSUME NEW c \in Calls, call \in [Calls -> CallState],
           NEW to \in {"denied", "pair", "allowed", "ask"}, call' = [call EXCEPT ![c].pc = to]
    PROVE  call' \in [Calls -> CallState]
BY DEF CallState

\* A call goes on from its verdict with the request it came with.
LEMMA GotoTracked ==
    ASSUME call \in [Calls -> CallState], CallsTracked, NEW c \in Calls,
           call[c].pc \in {"decide", "authorize"}, call[c].app \in Apps, call[c].method \in Granted,
           NEW to \in {"denied", "pair", "allowed", "ask"}, call' = [call EXCEPT ![c].pc = to],
           to = "pair" => call[c].method = "connect",
           recorded \subseteq recorded', UNCHANGED <<joined, decision>>
    PROVE  CallsTracked'
<1>1. call'[c].pc = to /\ call'[c].app = call[c].app /\ call'[c].method = call[c].method
  BY DEF CallState
<1>2. \A d \in Calls : d # c => call'[d] = call[d]
  OBVIOUS
<1>. QED
  BY <1>1, <1>2 DEF CallsTracked

\* Store.Decide: an allow comes from a remembered grant, hence from consent.
LEMMA DecideStep ==
    ASSUME ApprovalInv, NEW c \in Calls, Decide(c)
    PROVE  ApprovalInv'
<1>. USE ApprovalAssumption DEF ApprovalInv, Decide, Goto, AfterAllow, pairingVars,
     storeVars, queueVars
<1>1. call[c].app \in Apps /\ call[c].method \in Granted
  BY DEF CallsTracked, Granted
<1>2. rule[call[c].app][call[c].method] \in {"allow", "deny", "ask"}
  BY <1>1 DEF TypeOK, StoreTypeOK, Verdicts
<1>3. call' \in [Calls -> CallState]
  <2>1. PICK to \in {"denied", "pair", "allowed", "ask"} : call' = [call EXCEPT ![c].pc = to]
    BY <1>2
  <2>2. call \in [Calls -> CallState]
    BY DEF TypeOK
  <2>. QED
    BY <2>1, <2>2, GotoTyped
<1>4. admin' \in 0..MaxAdmin /\ recorded' \subseteq Calls /\ consented' \subseteq Apps
  BY DEF TypeOK, CallsTracked, HumansTracked, PairingTypeOK, OpState
<1>5. CallsTracked'
  <2>1. PICK to \in {"denied", "pair", "allowed", "ask"} :
            /\ call' = [call EXCEPT ![c].pc = to]
            /\ to = "pair" => call[c].method = "connect"
    BY <1>2
  <2>2. recorded \subseteq recorded' /\ UNCHANGED <<joined, decision>>
    OBVIOUS
  <2>3. call[c].pc \in {"decide", "authorize"} /\ call \in [Calls -> CallState] /\ CallsTracked
    BY DEF TypeOK
  <2>. QED
    BY <1>1, <2>1, <2>2, <2>3, GotoTracked
<1>6. HumansTracked'
  BY DEF TypeOK, CallState, HumanState, QueueTypeOK, HumansTracked, CallsTracked
<1>7. ConsentFirst'
  BY <1>1, <1>2 DEF TypeOK, CallState, ConsentFirst, OnceRemembersNothing
<1>8. LetThroughForCause'
  BY <1>1, <1>2 DEF TypeOK, CallState, LetThroughForCause, LetThrough,
     OnceRemembersNothing, Granted
<1>9. SecretsSingle'
  BY <1>2 DEF TypeOK, CallState, SecretsSingle
<1>10. SpecAppliedOnce'
  BY DEF TypeOK, PairingTypeOK, CallState, SecretsSingle, SpecAppliedOnce
<1>11. PairingTypeOK' /\ StoreTypeOK' /\ QueueTypeOK' /\
     human' \in [Humans -> HumanState] /\ OnceRemembersNothing'
  BY DEF TypeOK, PairingTypeOK, StoreTypeOK, QueueTypeOK, OnceRemembersNothing
<1>. QED
  BY <1>3, <1>4, <1>5, <1>6, <1>7, <1>8, <1>9, <1>10, <1>11 DEF TypeOK

\* Queue.Add blocks the request, or turns it away.
LEMMA AskStep ==
    ASSUME ApprovalInv, NEW c \in Calls, Ask(c)
    PROVE  ApprovalInv'
<1>. USE ApprovalAssumption DEF ApprovalInv, Ask, Goto, Queue!Join, Queue!TurnAway,
     pairingVars, storeVars
<1>1. QueueTypeOK'
  BY DEF TypeOK, QueueTypeOK, Resolution, Verdicts, HumanState
<1>2. call' \in [Calls -> CallState]
  BY DEF TypeOK, CallState
<1>3. CallsTracked'
  BY DEF TypeOK, CallState, QueueTypeOK, CallsTracked, Granted, Managing, Methods
<1>4. HumansTracked'
  BY DEF TypeOK, CallState, HumanState, QueueTypeOK, HumansTracked, CallsTracked
<1>5. ConsentFirst'
  BY DEF TypeOK, CallState, ConsentFirst
<1>6. LetThroughForCause'
  BY DEF TypeOK, CallState, QueueTypeOK, CallsTracked, LetThroughForCause, LetThrough,
     Granted, Managing, Methods
<1>7. SecretsSingle'
  BY DEF TypeOK, PairingTypeOK, OpState, CallState, SecretsSingle
<1>8. SpecAppliedOnce'
  BY DEF TypeOK, PairingTypeOK, CallState, SecretsSingle, SpecAppliedOnce
<1>9. PairingTypeOK' /\ StoreTypeOK' /\ human' \in [Humans -> HumanState] /\
     admin' \in 0..MaxAdmin /\ recorded' \subseteq Calls /\ consented' \subseteq Apps
     /\ OnceRemembersNothing'
  BY DEF TypeOK, PairingTypeOK, StoreTypeOK, OnceRemembersNothing
<1>. QED
  BY <1>1, <1>2, <1>3, <1>4, <1>5, <1>6, <1>7, <1>8, <1>9 DEF TypeOK

\* What an answer of the queue makes of a request is a state of a request.
LEMMA Answered ==
    ASSUME NEW r \in CallState, NEW p \in {"pair", "allowed", "denied"}, NEW b \in BOOLEAN
    PROVE  [r EXCEPT !.pc = p, !.perms = b] \in CallState
BY DEF CallState

\* Queue.Add returns what was decided about this very request.
LEMMA AskReturnsStep ==
    ASSUME ApprovalInv, NEW c \in Calls, AskReturns(c)
    PROVE  ApprovalInv'
<1>. USE ApprovalAssumption DEF ApprovalInv, AskReturns, AfterAllow, Queue!Return,
     pairingVars, storeVars
<1>1. joined[c] = c /\ decision[c] \in Resolution /\ decision[c] # None
  BY DEF TypeOK, QueueTypeOK, CallsTracked
<1>2. decision[c].remembered \in BOOLEAN
  BY <1>1 DEF Resolution
<1>3. \A p \in {"pair", "allowed", "denied"} :
         [call[c] EXCEPT !.pc = p, !.perms = decision[c].remembered] \in CallState
  BY <1>2, Answered DEF TypeOK
<1>4. QueueTypeOK'
  BY <1>1 DEF TypeOK, QueueTypeOK
<1>5. call' \in [Calls -> CallState]
  BY <1>3 DEF TypeOK
<1>6. CallsTracked'
  BY <1>1 DEF TypeOK, CallState, CallsTracked
<1>7. HumansTracked'
  BY <1>1 DEF TypeOK, CallState, HumansTracked
<1>8. ConsentFirst'
  BY <1>1 DEF TypeOK, CallState, ConsentFirst, CallsTracked
<1>9. LetThroughForCause'
  BY <1>1 DEF TypeOK, CallState, CallsTracked, LetThroughForCause, LetThrough
<1>10. SecretsSingle'
  BY DEF TypeOK, PairingTypeOK, OpState, CallState, SecretsSingle
<1>11. SpecAppliedOnce'
  BY DEF TypeOK, PairingTypeOK, CallState, SecretsSingle, SpecAppliedOnce
<1>12. PairingTypeOK' /\ StoreTypeOK' /\ human' \in [Humans -> HumanState] /\
     admin' \in 0..MaxAdmin /\ recorded' \subseteq Calls /\ consented' \subseteq Apps
     /\ OnceRemembersNothing'
  BY DEF TypeOK, PairingTypeOK, StoreTypeOK, OnceRemembersNothing
<1>. QED
  BY <1>4, <1>5, <1>6, <1>7, <1>8, <1>9, <1>10, <1>11, <1>12 DEF TypeOK

\* The session is opened (Store.Pair).
LEMMA PairSessionStep ==
    ASSUME ApprovalInv, NEW c \in Calls, PairSession(c)
    PROVE  ApprovalInv'
<1>. USE ApprovalAssumption DEF ApprovalInv, PairSession, Goto, pairingVars, queueVars
<1>1. StoreTypeOK'
  BY DEF TypeOK, StoreTypeOK, CallsTracked, HumansTracked, SecretsSingle, HumanState,
     Granted, Verdicts
<1>2. call' \in [Calls -> CallState]
  BY DEF TypeOK, CallState
<1>3. CallsTracked'
  BY DEF TypeOK, CallState, QueueTypeOK, CallsTracked, Granted, Managing, Methods
<1>4. HumansTracked'
  BY DEF TypeOK, CallState, HumanState, QueueTypeOK, HumansTracked, CallsTracked
<1>5. ConsentFirst'
  BY DEF TypeOK, CallState, HumanState, OpState, PairingTypeOK, QueueTypeOK,
     HumansTracked, CallsTracked, ConsentFirst, Resolution
<1>6. LetThroughForCause'
  BY DEF TypeOK, CallState, QueueTypeOK, CallsTracked, LetThroughForCause, LetThrough,
     Granted, Managing, Methods
<1>7. SecretsSingle'
  BY DEF TypeOK, PairingTypeOK, OpState, CallState, SecretsSingle
<1>8. SpecAppliedOnce'
  BY DEF TypeOK, PairingTypeOK, CallState, SecretsSingle, SpecAppliedOnce
<1>9. PairingTypeOK' /\ QueueTypeOK' /\ human' \in [Humans -> HumanState] /\
     admin' \in 0..MaxAdmin /\ recorded' \subseteq Calls /\ consented' \subseteq Apps
     /\ OnceRemembersNothing'
  BY DEF TypeOK, PairingTypeOK, QueueTypeOK, OnceRemembersNothing
<1>. QED
  BY <1>1, <1>2, <1>3, <1>4, <1>5, <1>6, <1>7, <1>8, <1>9 DEF TypeOK

\* The perms asked for are remembered.
LEMMA PairPermsStep ==
    ASSUME ApprovalInv, NEW c \in Calls, PairPerms(c)
    PROVE  ApprovalInv'
<1>. USE ApprovalAssumption DEF ApprovalInv, PairPerms, Goto, RememberPerms, Remember,
     pairingVars, storeVars, queueVars
<1>1. StoreTypeOK'
  BY DEF TypeOK, StoreTypeOK, CallsTracked, HumansTracked, SecretsSingle, HumanState,
     Granted, Verdicts
<1>2. call' \in [Calls -> CallState]
  BY DEF TypeOK, CallState
<1>3. CallsTracked'
  BY DEF TypeOK, CallState, QueueTypeOK, CallsTracked, Granted, Managing, Methods
<1>4. HumansTracked'
  BY DEF TypeOK, CallState, HumanState, QueueTypeOK, HumansTracked, CallsTracked
<1>5. ConsentFirst'
  BY DEF TypeOK, CallState, HumanState, OpState, PairingTypeOK, QueueTypeOK,
     HumansTracked, CallsTracked, ConsentFirst, Resolution
<1>6. OnceRemembersNothing'
  BY DEF TypeOK, StoreTypeOK, ConsentFirst, OnceRemembersNothing, CallsTracked,
     HumansTracked, SecretsSingle, Granted
<1>7. LetThroughForCause'
  BY DEF TypeOK, CallState, QueueTypeOK, CallsTracked, LetThroughForCause, LetThrough,
     Granted, Managing, Methods
<1>8. SecretsSingle'
  BY DEF TypeOK, PairingTypeOK, OpState, CallState, SecretsSingle
<1>9. SpecAppliedOnce'
  BY DEF TypeOK, PairingTypeOK, CallState, SecretsSingle, SpecAppliedOnce
<1>10. PairingTypeOK' /\ QueueTypeOK' /\ human' \in [Humans -> HumanState] /\
     admin' \in 0..MaxAdmin /\ recorded' \subseteq Calls /\ consented' \subseteq Apps
  BY DEF TypeOK, PairingTypeOK, QueueTypeOK
<1>. QED
  BY <1>1, <1>2, <1>3, <1>4, <1>5, <1>6, <1>7, <1>8, <1>9, <1>10 DEF TypeOK

\* The staged spec is taken (takePendingGrantSpec).
LEMMA PairTakeStep ==
    ASSUME ApprovalInv, NEW c \in Calls, PairTake(c)
    PROVE  ApprovalInv'
<1>. USE ApprovalAssumption DEF ApprovalInv, PairTake, storeVars, queueVars
<1>1. [call[c] EXCEPT !.pc = IF spec = None THEN "allowed" ELSE "apply", !.took = spec]
        \in CallState
  BY ZenonT(40) DEF TypeOK, PairingTypeOK, CallState
<1>2. PairingTypeOK'
  BY DEF TypeOK, PairingTypeOK, OpState
<1>3. call' \in [Calls -> CallState]
  BY <1>1 DEF TypeOK
<1>4. admin' \in 0..MaxAdmin /\ recorded' \subseteq Calls /\ consented' \subseteq Apps
  BY DEF TypeOK, CallsTracked, HumansTracked, PairingTypeOK, OpState
<1>5. CallsTracked'
  BY DEF TypeOK, CallState, QueueTypeOK, CallsTracked, Granted, Managing, Methods
<1>6. HumansTracked'
  BY DEF TypeOK, CallState, HumanState, QueueTypeOK, HumansTracked, CallsTracked
<1>7. ConsentFirst'
  BY DEF TypeOK, CallState, HumanState, OpState, PairingTypeOK, QueueTypeOK,
     HumansTracked, CallsTracked, ConsentFirst, Resolution
<1>8. OnceRemembersNothing'
  BY DEF TypeOK, StoreTypeOK, ConsentFirst, OnceRemembersNothing, CallsTracked,
     HumansTracked, SecretsSingle, Granted
<1>9. LetThroughForCause'
  BY DEF TypeOK, CallState, QueueTypeOK, CallsTracked, LetThroughForCause, LetThrough,
     Granted, Managing, Methods
<1>10. SecretsSingle'
  BY DEF TypeOK, PairingTypeOK, OpState, CallState, SecretsSingle
<1>11. SpecAppliedOnce'
  BY DEF TypeOK, PairingTypeOK, CallState, SecretsSingle, SpecAppliedOnce
<1>12. StoreTypeOK' /\ QueueTypeOK' /\ human' \in [Humans -> HumanState]
  BY DEF TypeOK, StoreTypeOK, QueueTypeOK
<1>. QED
  BY <1>2, <1>3, <1>4, <1>5, <1>6, <1>7, <1>8, <1>9, <1>10, <1>11, <1>12 DEF TypeOK

\* Its grants are remembered.
LEMMA PairApplyStep ==
    ASSUME ApprovalInv, NEW c \in Calls, PairApply(c)
    PROVE  ApprovalInv'
<1>. USE ApprovalAssumption DEF ApprovalInv, PairApply, Goto, RememberSpec, Remember,
     pairingVars, queueVars
<1>1. StoreTypeOK'
  BY DEF TypeOK, StoreTypeOK, CallsTracked, HumansTracked, SecretsSingle, HumanState,
     Granted, Verdicts
<1>2. call' \in [Calls -> CallState]
  BY DEF TypeOK, CallState
<1>3. CallsTracked'
  BY DEF TypeOK, CallState, QueueTypeOK, CallsTracked, Granted, Managing, Methods
<1>4. HumansTracked'
  BY DEF TypeOK, CallState, HumanState, QueueTypeOK, HumansTracked, CallsTracked
<1>5. ConsentFirst'
  BY DEF TypeOK, CallState, HumanState, OpState, PairingTypeOK, QueueTypeOK,
     HumansTracked, CallsTracked, ConsentFirst, Resolution
<1>6. OnceRemembersNothing'
  BY DEF TypeOK, StoreTypeOK, ConsentFirst, OnceRemembersNothing, CallsTracked,
     HumansTracked, SecretsSingle, Granted
<1>7. LetThroughForCause'
  BY DEF TypeOK, CallState, QueueTypeOK, CallsTracked, LetThroughForCause, LetThrough,
     Granted, Managing, Methods
<1>8. SecretsSingle'
  BY DEF TypeOK, PairingTypeOK, OpState, CallState, SecretsSingle
<1>9. SpecAppliedOnce'
  BY DEF TypeOK, PairingTypeOK, CallState, SecretsSingle, SpecAppliedOnce
<1>10. PairingTypeOK' /\ QueueTypeOK' /\ human' \in [Humans -> HumanState] /\
     admin' \in 0..MaxAdmin /\ recorded' \subseteq Calls /\ consented' \subseteq Apps
  BY DEF TypeOK, PairingTypeOK, QueueTypeOK
<1>. QED
  BY <1>1, <1>2, <1>3, <1>4, <1>5, <1>6, <1>7, <1>8, <1>9, <1>10 DEF TypeOK

\* The response is settled; a logout revokes the session.
LEMMA FinishStep ==
    ASSUME ApprovalInv, NEW c \in Calls, Finish(c)
    PROVE  ApprovalInv'
<1>. USE ApprovalAssumption DEF ApprovalInv, Finish, Goto, Forget, pairingVars, storeVars,
     queueVars
<1>1. StoreTypeOK'
  BY DEF TypeOK, StoreTypeOK, CallsTracked, HumansTracked, SecretsSingle, HumanState,
     Granted, Verdicts
<1>2. call' \in [Calls -> CallState]
  BY DEF TypeOK, CallState
<1>3. CallsTracked'
  BY DEF TypeOK, CallState, QueueTypeOK, CallsTracked, Granted, Managing, Methods
<1>4. HumansTracked'
  BY DEF TypeOK, CallState, HumanState, QueueTypeOK, HumansTracked, CallsTracked
<1>5. ConsentFirst'
  BY DEF TypeOK, CallState, HumanState, OpState, PairingTypeOK, QueueTypeOK,
     HumansTracked, CallsTracked, ConsentFirst, Resolution
<1>6. OnceRemembersNothing'
  BY DEF TypeOK, StoreTypeOK, ConsentFirst, OnceRemembersNothing, CallsTracked,
     HumansTracked, SecretsSingle, Granted
<1>7. LetThroughForCause'
  BY DEF TypeOK, CallState, QueueTypeOK, CallsTracked, LetThroughForCause, LetThrough,
     Granted, Managing, Methods
<1>8. SecretsSingle'
  BY DEF TypeOK, PairingTypeOK, OpState, CallState, SecretsSingle
<1>9. SpecAppliedOnce'
  BY DEF TypeOK, PairingTypeOK, CallState, SecretsSingle, SpecAppliedOnce
<1>10. PairingTypeOK' /\ QueueTypeOK' /\ human' \in [Humans -> HumanState] /\
     admin' \in 0..MaxAdmin /\ recorded' \subseteq Calls /\ consented' \subseteq Apps
  BY DEF TypeOK, PairingTypeOK, QueueTypeOK
<1>. QED
  BY <1>1, <1>2, <1>3, <1>4, <1>5, <1>6, <1>7, <1>8, <1>9, <1>10 DEF TypeOK

\* A human picks a pending request.
LEMMA HumanPicksStep ==
    ASSUME ApprovalInv, NEW h \in Humans, NEW c \in Calls, NEW v \in Verdicts, NEW always \in BOOLEAN, HumanPicks(h, c, v, always)
    PROVE  ApprovalInv'
<1>. USE ApprovalAssumption DEF ApprovalInv, HumanPicks, Waiting, pairingVars, storeVars,
     queueVars
<1>1. human' \in [Humans -> HumanState]
  BY DEF TypeOK, HumanState
<1>2. HumansTracked'
  BY DEF TypeOK, CallState, HumanState, QueueTypeOK, HumansTracked, CallsTracked
<1>3. PairingTypeOK' /\ StoreTypeOK' /\ QueueTypeOK' /\ call' \in [Calls -> CallState]
     /\
     admin' \in 0..MaxAdmin /\ recorded' \subseteq Calls /\ consented' \subseteq Apps
     /\ CallsTracked' /\ ConsentFirst' /\ OnceRemembersNothing' /\ LetThroughForCause'
     /\ SecretsSingle' /\ SpecAppliedOnce'
  BY DEF TypeOK, PairingTypeOK, StoreTypeOK, QueueTypeOK, CallsTracked, ConsentFirst,
     OnceRemembersNothing, LetThroughForCause, SecretsSingle, SpecAppliedOnce, LetThrough
<1>. QED
  BY <1>1, <1>2, <1>3 DEF TypeOK

\* The human's "always" is remembered before the request is resolved.
LEMMA HumanRemembersStep ==
    ASSUME ApprovalInv, NEW h \in Humans, HumanRemembers(h)
    PROVE  ApprovalInv'
<1>. USE ApprovalAssumption DEF ApprovalInv, HumanRemembers, Remember, pairingVars,
     queueVars
<1>1. IdleHuman \in HumanState
  BY DEF IdleHuman, HumanState, Verdicts
<1>2. StoreTypeOK'
  <2>1. human[h].call \in Calls /\ human[h].verdict \in Verdicts
    BY DEF TypeOK, HumansTracked, HumanState
  <2>2. call[human[h].call].app \in Apps /\ call[human[h].call].method \in Granted
    BY <2>1 DEF CallsTracked, HumansTracked, Granted
  <2>. QED
    BY <2>1, <2>2 DEF TypeOK, StoreTypeOK
<1>3. human' \in [Humans -> HumanState]
  BY <1>1 DEF TypeOK, HumanState
<1>4. admin' \in 0..MaxAdmin /\ recorded' \subseteq Calls /\ consented' \subseteq Apps
  BY DEF TypeOK, CallsTracked, HumansTracked, PairingTypeOK, OpState
<1>5. HumansTracked'
  BY DEF TypeOK, HumanState, HumansTracked, IdleHuman
<1>6. ConsentFirst'
  BY DEF TypeOK, CallState, HumanState, OpState, PairingTypeOK, QueueTypeOK,
     HumansTracked, CallsTracked, ConsentFirst, Resolution
<1>7. OnceRemembersNothing'
  BY DEF TypeOK, StoreTypeOK, ConsentFirst, OnceRemembersNothing, CallsTracked,
     HumansTracked, SecretsSingle, Granted
<1>8. LetThroughForCause'
  BY DEF TypeOK, CallState, QueueTypeOK, CallsTracked, LetThroughForCause, LetThrough,
     Granted, Managing, Methods
<1>9. PairingTypeOK' /\ QueueTypeOK' /\ call' \in [Calls -> CallState] /\ CallsTracked'
     /\ SecretsSingle' /\ SpecAppliedOnce'
  BY DEF TypeOK, PairingTypeOK, QueueTypeOK, CallsTracked, SecretsSingle, SpecAppliedOnce
<1>. QED
  BY <1>2, <1>3, <1>4, <1>5, <1>6, <1>7, <1>8, <1>9 DEF TypeOK

\* Queue.Resolve by a human.
LEMMA HumanResolvesStep ==
    ASSUME ApprovalInv, NEW h \in Humans, HumanResolves(h)
    PROVE  ApprovalInv'
<1>. USE ApprovalAssumption DEF ApprovalInv, HumanResolves, Waiting, Queue!Decide,
     pairingVars, storeVars, queueVars
<1>1. IdleHuman \in HumanState
  BY DEF IdleHuman, HumanState, Verdicts
<1>2. QueueTypeOK'
  BY DEF TypeOK, QueueTypeOK, Resolution, Verdicts, HumanState
<1>3. human' \in [Humans -> HumanState]
  BY <1>1 DEF TypeOK
<1>4. admin' \in 0..MaxAdmin /\ recorded' \subseteq Calls /\ consented' \subseteq Apps
  BY DEF TypeOK, CallsTracked, HumansTracked, PairingTypeOK, OpState
<1>5. CallsTracked'
  BY DEF TypeOK, CallState, QueueTypeOK, CallsTracked, Granted, Managing, Methods
<1>6. HumansTracked'
  BY DEF TypeOK, HumanState, HumansTracked, IdleHuman, QueueTypeOK, CallsTracked
<1>7. ConsentFirst'
  BY DEF TypeOK, CallState, HumanState, OpState, PairingTypeOK, QueueTypeOK,
     HumansTracked, CallsTracked, ConsentFirst, Resolution
<1>8. LetThroughForCause'
  BY SMTT(30) DEF TypeOK, CallState, QueueTypeOK, CallsTracked, LetThroughForCause, LetThrough,
     Granted, Managing, Methods
<1>9. PairingTypeOK' /\ StoreTypeOK' /\ call' \in [Calls -> CallState] /\
     OnceRemembersNothing' /\ SecretsSingle' /\ SpecAppliedOnce'
  BY DEF TypeOK, PairingTypeOK, StoreTypeOK, OnceRemembersNothing, SecretsSingle,
     SpecAppliedOnce
<1>. QED
  BY <1>2, <1>3, <1>4, <1>5, <1>6, <1>7, <1>8, <1>9 DEF TypeOK

\* The sweep's denial.
LEMMA ExpiresStep ==
    ASSUME ApprovalInv, NEW c \in Calls, Expires(c)
    PROVE  ApprovalInv'
<1>. USE ApprovalAssumption DEF ApprovalInv, Expires, Queue!Decide, pairingVars,
     storeVars, queueVars
<1>1. QueueTypeOK'
  BY DEF TypeOK, QueueTypeOK, Resolution, Verdicts, HumanState
<1>2. admin' \in 0..MaxAdmin /\ recorded' \subseteq Calls /\ consented' \subseteq Apps
  BY DEF TypeOK, CallsTracked, HumansTracked, PairingTypeOK, OpState
<1>3. CallsTracked'
  BY DEF TypeOK, CallState, QueueTypeOK, CallsTracked, Granted, Managing, Methods
<1>4. ConsentFirst'
  BY DEF TypeOK, CallState, HumanState, OpState, PairingTypeOK, QueueTypeOK,
     HumansTracked, CallsTracked, ConsentFirst, Resolution
<1>5. LetThroughForCause'
  BY DEF TypeOK, CallState, QueueTypeOK, CallsTracked, LetThroughForCause, LetThrough,
     Granted, Managing, Methods
<1>6. PairingTypeOK' /\ StoreTypeOK' /\ call' \in [Calls -> CallState] /\
     human' \in [Humans -> HumanState] /\ HumansTracked' /\ OnceRemembersNothing' /\
     SecretsSingle' /\ SpecAppliedOnce'
  BY DEF TypeOK, PairingTypeOK, StoreTypeOK, HumansTracked, OnceRemembersNothing,
     SecretsSingle, SpecAppliedOnce
<1>. QED
  BY <1>1, <1>2, <1>3, <1>4, <1>5, <1>6 DEF TypeOK

\* The store is changed directly.
LEMMA AdministerStep ==
    ASSUME ApprovalInv, NEW a \in Apps, Administer(a)
    PROVE  ApprovalInv'
<1>. USE ApprovalAssumption DEF ApprovalInv, Administer, Forget, Remember, pairingVars,
     queueVars
<1>1. StoreTypeOK'
  BY DEF TypeOK, StoreTypeOK, CallsTracked, HumansTracked, SecretsSingle, HumanState,
     Granted, Verdicts
<1>2. admin' \in 0..MaxAdmin /\ recorded' \subseteq Calls /\ consented' \subseteq Apps
  BY DEF TypeOK, CallsTracked, HumansTracked, PairingTypeOK, OpState
<1>3. HumansTracked'
  BY DEF TypeOK, CallState, HumanState, QueueTypeOK, HumansTracked, CallsTracked
<1>4. ConsentFirst'
  BY DEF TypeOK, CallState, HumanState, OpState, PairingTypeOK, QueueTypeOK,
     HumansTracked, CallsTracked, ConsentFirst, Resolution
<1>5. OnceRemembersNothing'
  BY DEF TypeOK, StoreTypeOK, ConsentFirst, OnceRemembersNothing, CallsTracked,
     HumansTracked, SecretsSingle, Granted
<1>6. LetThroughForCause'
  BY DEF TypeOK, CallState, QueueTypeOK, CallsTracked, LetThroughForCause, LetThrough,
     Granted, Managing, Methods
<1>7. PairingTypeOK' /\ QueueTypeOK' /\ call' \in [Calls -> CallState] /\
     human' \in [Humans -> HumanState] /\ CallsTracked' /\ SecretsSingle' /\
     SpecAppliedOnce'
  BY DEF TypeOK, PairingTypeOK, QueueTypeOK, CallsTracked, SecretsSingle, SpecAppliedOnce
<1>. QED
  BY <1>1, <1>2, <1>3, <1>4, <1>5, <1>6, <1>7 DEF TypeOK

-----------------------------------------------------------------------------
(* What every behaviour satisfies *)

\* ApprovalInv is inductive: whichever goroutine moves, what the others rely
\* on at their next step still holds.
LEMMA ApprovalInductive == ApprovalInv /\ [Next]_vars => ApprovalInv'
<1>. SUFFICES ASSUME ApprovalInv, [Next]_vars PROVE ApprovalInv'
  OBVIOUS
<1>1. ASSUME NEW o \in Operators,
             \/ \E s \in Secrets, staging \in BOOLEAN : StartPairing(o, s, staging)
             \/ ArmSecret(o) \/ StageGrants(o) \/ NostrconnectPerms(o) \/ NostrconnectGrant(o)
             \/ \E a \in Apps : Nostrconnect(o, a)
      PROVE  ApprovalInv'
  BY <1>1, StartPairingStep, ArmSecretStep, StageGrantsStep, NostrconnectPermsStep,
     NostrconnectGrantStep, NostrconnectStep
<1>2. CASE SecretExpires
  BY <1>2, SecretExpiresStep
<1>3. ASSUME NEW c \in Calls,
             \E a \in Apps : ConnectArrives(c, a) \/ \E m \in Methods \ {"connect"} : Arrives(c, a, m)
      PROVE  ApprovalInv'
  BY <1>3, ConnectArrivesStep, ArrivesStep
<1>4. ASSUME NEW c \in Calls, Handling(c) \/ Expires(c) PROVE ApprovalInv'
  BY <1>4, CheckStagedStep, ManageStep, DecideStep, AskStep, AskReturnsStep, PairSessionStep,
     PairPermsStep, PairTakeStep, PairApplyStep, FinishStep, ExpiresStep DEF Handling
<1>5. ASSUME NEW h \in Humans,
             \/ \E c \in Calls, v \in Verdicts, always \in BOOLEAN : HumanPicks(h, c, v, always)
             \/ HumanRemembers(h) \/ HumanResolves(h)
      PROVE  ApprovalInv'
  BY <1>5, HumanPicksStep, HumanRemembersStep, HumanResolvesStep
<1>6. ASSUME NEW a \in Apps, Administer(a) PROVE ApprovalInv'
  BY <1>6, AdministerStep
<1>7. CASE UNCHANGED vars
  <2>. USE <1>7 DEF ApprovalInv, vars, pairingVars, storeVars, queueVars
  <2>1. TypeOK'
    BY DEF TypeOK, PairingTypeOK, StoreTypeOK, QueueTypeOK
  <2>2. CallsTracked' /\ HumansTracked' /\ ConsentFirst' /\ LetThroughForCause'
    BY DEF CallsTracked, HumansTracked, ConsentFirst, LetThroughForCause
  <2>3. OnceRemembersNothing' /\ SecretsSingle' /\ SpecAppliedOnce'
    BY DEF OnceRemembersNothing, SecretsSingle, SpecAppliedOnce
  <2>. QED
    BY <2>1, <2>2, <2>3
<1>. QED
  BY <1>1, <1>2, <1>3, <1>4, <1>5, <1>6, <1>7 DEF Next

\* Every state the handler, the store and the queue can reach satisfies
\* ApprovalInv.
THEOREM ApprovalHolds == Spec => []ApprovalInv
BY ApprovalInit, ApprovalInductive, PTL DEF Spec

\* No request, command or decision leaves the state space, and a revoked app
\* keeps no grant (Store.Revoke).
THEOREM ApprovalTyped == Spec => []TypeOK
<1>1. ApprovalInv => TypeOK
  BY DEF ApprovalInv
<1>. QED
  BY <1>1, ApprovalHolds, PTL

\* However many connects are answered while operators stage grants, the spec
\* of one secret is taken by one of them (takePendingGrantSpec).
THEOREM StagedOnce == Spec => []SpecAppliedOnce
<1>1. ApprovalInv => SpecAppliedOnce
  BY DEF ApprovalInv
<1>. QED
  BY <1>1, ApprovalHolds, PTL

\* "Approve Once" leaves no grant behind: what the store remembers of an app
\* (Store.Remember) an operator once agreed to remember.
THEOREM OnceIsOnce == Spec => []OnceRemembersNothing
<1>1. ApprovalInv => OnceRemembersNothing
  BY DEF ApprovalInv
<1>. QED
  BY <1>1, ApprovalHolds, PTL

\* Authorize lets no request through without a decision on that request or a
\* permission an operator gave its app.
THEOREM NoUnreasonedAllow == Spec => []AllowedHasReason
<1>1. ApprovalInv => AllowedHasReason
  BY ApprovalAssumption
     DEF ApprovalInv, LetThroughForCause, LetThrough, AllowedHasReason, CallsTracked
<1>. QED
  BY <1>1, ApprovalHolds, PTL

\* A request is in the history (OnDecided, OnAutoApproved) by the time
\* Authorize lets it through.
THEOREM RecordedFirst == Spec => []RecordedBeforeSigned
<1>1. ApprovalInv => RecordedBeforeSigned
  BY DEF ApprovalInv, LetThroughForCause, LetThrough, RecordedBeforeSigned
<1>. QED
  BY <1>1, ApprovalHolds, PTL

-----------------------------------------------------------------------------
(* The handler is a user of the queue *)

\* Every step of the handler, the humans and the sweep is, for the queue, one
\* of the steps BunkerDecisions allows, or none: nobody reaches past
\* Queue.Add and Queue.Resolve.
LEMMA QueueStep == ApprovalInv /\ [Next]_vars => [Queue!Next]_(Queue!vars)
<1>. SUFFICES ASSUME ApprovalInv, [Next]_vars PROVE [Queue!Next]_(Queue!vars)
  OBVIOUS
<1>. USE DEF Queue!vars
<1>1. ASSUME NEW o \in Operators,
             \/ \E s \in Secrets, staging \in BOOLEAN : StartPairing(o, s, staging)
             \/ ArmSecret(o) \/ StageGrants(o) \/ NostrconnectPerms(o) \/ NostrconnectGrant(o)
             \/ \E a \in Apps : Nostrconnect(o, a)
      PROVE  UNCHANGED queueVars
  BY <1>1 DEF StartPairing, ArmSecret, StageGrants, NostrconnectPerms, NostrconnectGrant, Nostrconnect
<1>2. SecretExpires => UNCHANGED queueVars
  BY DEF SecretExpires
<1>3. ASSUME NEW c \in Calls,
             \E a \in Apps : ConnectArrives(c, a) \/ \E m \in Methods \ {"connect"} : Arrives(c, a, m)
      PROVE  UNCHANGED queueVars
  BY <1>3 DEF ConnectArrives, Arrives
<1>4. ASSUME NEW c \in Calls, Handling(c) PROVE [Queue!Next]_(Queue!vars)
  <2>1. CASE Ask(c)
    BY <2>1 DEF Ask, Queue!Next
  <2>2. CASE AskReturns(c)
    BY <2>2 DEF AskReturns, Queue!Next
  <2>3. CASE CheckStaged(c) \/ Manage(c) \/ Decide(c) \/ PairSession(c) \/ PairPerms(c) \/ PairTake(c)
             \/ PairApply(c) \/ Finish(c)
    BY <2>3 DEF CheckStaged, Manage, Decide, PairSession, PairPerms, PairTake, PairApply, Finish, queueVars
  <2>. QED
    BY <1>4, <2>1, <2>2, <2>3 DEF Handling
<1>5. ASSUME NEW c \in Calls, Expires(c) PROVE Queue!Next
  <2>1. [verdict |-> "deny", remembered |-> FALSE] \in Resolution
    BY DEF Resolution, Verdicts
  <2>. QED
    BY <1>5, <2>1 DEF Expires, Queue!Next
<1>6. ASSUME NEW h \in Humans,
             \/ \E c \in Calls, v \in Verdicts, always \in BOOLEAN : HumanPicks(h, c, v, always)
             \/ HumanRemembers(h)
      PROVE  UNCHANGED queueVars
  BY <1>6 DEF HumanPicks, HumanRemembers
<1>7. ASSUME NEW h \in Humans, HumanResolves(h) PROVE [Queue!Next]_(Queue!vars)
  <2>1. human[h].call \in Calls
    BY <1>7 DEF ApprovalInv, HumansTracked, HumanResolves
  <2>2. [verdict |-> human[h].verdict, remembered |-> human[h].always] \in Resolution
    BY DEF ApprovalInv, TypeOK, HumanState, Resolution
  <2>. QED
    BY <1>7, <2>1, <2>2 DEF HumanResolves, Queue!Next, queueVars
<1>8. ASSUME NEW a \in Apps, Administer(a) PROVE UNCHANGED queueVars
  BY <1>8 DEF Administer
<1>9. UNCHANGED vars => UNCHANGED queueVars
  BY DEF vars
<1>. QED
  BY <1>1, <1>2, <1>3, <1>4, <1>5, <1>6, <1>7, <1>8, <1>9 DEF Next, queueVars

\* The whole approval path implements the queue's abstract specification.
THEOREM ApprovalUsesQueue == Spec => Queue!Spec
<1>1. Init => Queue!Init
  BY DEF Init
<1>. QED
  BY <1>1, QueueStep, ApprovalHolds, PTL DEF Spec, Queue!Spec
=============================================================================
