------------------------------- MODULE Signer -------------------------------
(***************************************************************************)
(* The local signer (signer/server.go, usedset.go, refused.go, watch.go,   *)
(* cli/signer/serve.go): requests run concurrently, sign_event under the   *)
(* sign lock of the nipLS server; the policy is an atomic pointer that     *)
(* SIGHUP and the file watcher replace; consumed attestations go to a file *)
(* that survives a crash.                                                  *)
(*                                                                         *)
(* The first part is the policy itself: which documents load               *)
(* (signer/policy.go, nipoa.go) and what a loaded one decides              *)
(* (signer/evaluate.go, attest.go).  A rule is a record with its           *)
(* selector's fields; an unset field is {} or 0.  Public keys, kinds and   *)
(* tag values are members of small sets, and the values of one tag name    *)
(* stand for all tags.  nip04 and nip44 share "encrypt" and "decrypt".     *)
(*                                                                         *)
(* disk maps the policy path and every authors file to what it holds.      *)
(* A loaded policy is a record whose gen is the identity of the pointer.   *)
(***************************************************************************)
EXTENDS Integers, Sequences, FiniteSets, FiniteSetsExt

CONSTANTS
    SignerPub,          \* the signer's own key
    Skew,               \* max_clock_skew
    MaxAttestationAge,  \* the cap on a spec's max_age
    Backdate,           \* nip59MaxBackdate
    Contents,     \* [path -> what may be written there]; "policy" is the policy's path
    First,        \* [path -> what it holds at first]
    Reqs,         \* concurrent requests
    AttOf,        \* [attestation -> its author and the values it names]
    WrapFrom,     \* [gift wrap -> who sealed it, or "noseal", or "foreign"]
    Subordinates, \* keys an attestation is asked for
    Samples,      \* requests over which the loaded policy is examined
    Retention,    \* usedRetention, at least MaxAttestationAge
    MaxRefused,   \* refusedWraps' limit
    Per,          \* the span a rule's rate is over
    Faults,       \* "second": a second serve is started beside the first; "torn": a
                  \* write of the used file fails part-way
    ReleasedCap,  \* the history counts no further than this
    MaxTime, MaxWrites, MaxStarts

-----------------------------------------------------------------------------
(* The policy *)

SealKind == 13

ruleMethods == {"sign_event", "encrypt", "decrypt", "message_keys", "attest"}

EventFields(r) == r.kinds # {} \/ r.tags # {} \/ r.tagsOne # {}

EmptySelector(r) ==
    /\ r.methods = {} /\ r.counterparts = {} /\ ~EventFields(r)
    /\ r.unwrapFrom = {} /\ r.subordinates = {}

\* The methods a selector stands for once validateSelector filled them in.
MethodsOf(r) ==
    CASE r.methods # {} -> r.methods
      [] r.subordinates # {} -> {"attest"}
      [] r.unwrapFrom # {} -> {"decrypt"}
      [] EventFields(r) -> {"sign_event"}
      [] r.counterparts # {} -> {"encrypt", "decrypt"}
      [] OTHER -> {}

ValidSelector(r) ==
    IF r.subordinates # {}
    THEN /\ r.counterparts = {} /\ ~EventFields(r) /\ r.unwrapFrom = {}
         /\ MethodsOf(r) = {"attest"}
    ELSE /\ r.unwrapFrom # {} => /\ r.counterparts = {} /\ ~EventFields(r)
                                 /\ MethodsOf(r) = {"decrypt"}
         /\ EventFields(r) => MethodsOf(r) = {"sign_event"} /\ r.counterparts = {}
         /\ r.counterparts # {} => "sign_event" \notin r.methods
         /\ r.tags = {} \/ r.tagsOne = {}

\* AttestSelector.validate
ValidAttest(r) == IF r.effect = "allow" THEN r.maxUntil > 0 ELSE r.maxUntil = 0 /\ r.attestKinds = {}

ValidAttestation(a) ==
    /\ a.maxAge \in 1..MaxAttestationAge
    /\ a.authors # {} /\ SignerPub \notin a.authors
    /\ a.binds \in {"id", "tag"}

\* Mutant: counterparts are not asked of a rule that names message_keys.
ValidRuleNoKeys(r, catchAll) ==
    /\ r.effect = "allow" /\ EmptySelector(r) => catchAll
    /\ ValidSelector(r)
    /\ IF r.subordinates # {}
       THEN ValidAttest(r) /\ ~r.denyMatching /\ r.require = <<>>
       ELSE r.effect = "allow" => "attest" \notin r.methods
    /\ r.effect = "deny" => /\ r.unwrapFrom = {} /\ ~r.denyMatching
                            /\ r.rate = 0 /\ r.require = <<>>
    /\ r.require # <<>> => MethodsOf(r) = {"sign_event"}
    /\ \A i \in DOMAIN r.require : ValidAttestation(r.require[i])

ValidRule(r, catchAll) ==
    /\ r.effect = "allow" /\ EmptySelector(r) => catchAll
    /\ ValidSelector(r)
    /\ IF r.subordinates # {}
       THEN ValidAttest(r) /\ ~r.denyMatching /\ r.require = <<>>
       ELSE r.effect = "allow" => "attest" \notin r.methods
    /\ r.effect = "allow" /\ "message_keys" \in r.methods => r.counterparts # {}
    /\ r.effect = "deny" => /\ r.unwrapFrom = {} /\ ~r.denyMatching
                            /\ r.rate = 0 /\ r.require = <<>>
    /\ r.require # <<>> => MethodsOf(r) = {"sign_event"}
    /\ \A i \in DOMAIN r.require : ValidAttestation(r.require[i])

\* ParsePolicy: at least one rule, each valid, no name twice.
ValidPolicy(rules, catchAll) ==
    /\ rules # <<>>
    /\ \A i \in DOMAIN rules : ValidRule(rules[i], catchAll)
    /\ \A i, j \in DOMAIN rules : rules[i].name = rules[j].name => i = j

UsesAttestations(rules) == \E i \in DOMAIN rules : rules[i].require # <<>>

-----------------------------------------------------------------------------
(* Evaluate.  A request is a record; tags is the sequence of the values of   *)
(* its event's tag, banned whether a deny_matching pattern finds something.  *)

OneTagMatches(req, values) == Len(req.tags) = 1 /\ req.tags[1] \in values

AnyTagMatches(req, values) == \E i \in DOMAIN req.tags : req.tags[i] \in values

Matches(r, req) ==
    /\ MethodsOf(r) # {} => req.method \in MethodsOf(r)
    /\ IF r.subordinates # {}
       THEN req.method = "attest" /\ req.subordinate \in r.subordinates
       ELSE /\ r.counterparts # {} => req.counterpart \in r.counterparts
            /\ req.method = "sign_event" =>
                 /\ r.kinds # {} => req.kind \in r.kinds
                 /\ r.tags # {} => AnyTagMatches(req, r.tags)
                 /\ r.tagsOne # {} => OneTagMatches(req, r.tagsOne)

\* Only a rule written for attestations allows one.
Applies(r, req) ==
    /\ Matches(r, req)
    /\ ~(req.method = "attest" /\ r.effect = "allow" /\ r.subordinates = {})

\* checkBind: what the target names, the attestation must name too.
BindHolds(bind, att, req) ==
    LET want == IF bind = "id" THEN {req.id} ELSE {req.tags[i] : i \in DOMAIN req.tags}
    IN  want # {} /\ want \subseteq att.names

CheckAttestation(att, spec, req, used, now, start) ==
    /\ att.author # SignerPub /\ att.author \in spec.authors
    /\ att.created <= now + Skew
    /\ now - att.created <= spec.maxAge
    /\ att.created >= start - Skew
    /\ att.id \notin used
    /\ BindHolds(spec.binds, att, req)
    /\ spec.binds = "id" => att.created + Skew >= req.created

\* assignAttestations: distinct attestations for the specs, the first such
\* choice in the order in which the backtracking tries them.
Earlier(f, g) == \E s \in DOMAIN f : f[s] < g[s] /\ \A t \in 1..(s - 1) : f[t] = g[t]

Assignments(specs, atts, fits) ==
    {f \in [DOMAIN specs -> DOMAIN atts] :
        /\ \A s, t \in DOMAIN specs : f[s] = f[t] => s = t
        /\ \A s \in DOMAIN specs : <<f[s], s>> \in fits}

FirstOf(choices) == CHOOSE f \in choices : \A g \in choices : f = g \/ Earlier(f, g)

Denied == [allow |-> FALSE, rule |-> "", consumed |-> {}, rate |-> 0, unwrapFrom |-> {}]

\* How old an event may be under its rule.
MaxAge(r, req) ==
    LET bound == {r.require[i].maxAge : i \in {j \in DOMAIN r.require : r.require[j].binds = "id"}}
        ages == {Skew} \union bound \union (IF req.kind = SealKind THEN {Backdate + Skew} ELSE {})
    IN  CHOOSE a \in ages : \A b \in ages : b <= a

\* AttestSelector.check; until is 0 where the conditions have no such bound.
AttestAllowed(r, req, now) ==
    /\ req.until > now /\ req.until <= now + r.maxUntil
    /\ r.attestKinds # {} => req.kinds # {} /\ req.kinds \subseteq r.attestKinds

Decide(r, req, used, now, start) ==
    LET fits == {p \in (DOMAIN req.atts) \X (DOMAIN r.require) :
                   CheckAttestation(req.atts[p[1]], r.require[p[2]], req, used, now, start)}
        choices == Assignments(r.require, req.atts, fits)
        picked == FirstOf(choices)
        signing == req.method = "sign_event"
    IN  IF \/ r.effect = "deny"
           \/ r.denyMatching /\ req.banned
           \/ req.method = "attest" /\ ~AttestAllowed(r, req, now)
           \/ signing /\ choices = {}
           \/ signing /\ (req.created > now + Skew \/ now - req.created > MaxAge(r, req))
        THEN [Denied EXCEPT !.rule = r.name]
        ELSE [allow |-> TRUE, rule |-> r.name, rate |-> r.rate, unwrapFrom |-> r.unwrapFrom,
              consumed |-> IF signing THEN {req.atts[picked[s]].id : s \in DOMAIN picked} ELSE {}]

\* The first rule that applies decides; none applying denies.
Evaluate(req, rules, used, now, start) ==
    LET applying == {i \in DOMAIN rules : Applies(rules[i], req)}
        first == CHOOSE i \in applying : \A j \in applying : i <= j
    IN  IF \/ req.method = "attest" /\ req.subordinate = SignerPub
           \/ req.method = "sign_event" /\ req.created > now + Skew
           \/ applying = {}
        THEN Denied
        ELSE Decide(rules[first], req, used, now, start)

-----------------------------------------------------------------------------
(* The server *)

Atts == DOMAIN AttOf
Wraps == DOMAIN WrapFrom
Paths == DOMAIN Contents
None == [gen |-> 0]

VARIABLES
    now,      \* the clock
    disk,     \* [path -> content]
    writes,   \* files rewritten so far
    starts,   \* loads and starts so far: the last gen handed out
    server,   \* [up, started, policy]: the serving process
    used,     \* Server.used, in memory
    lines,    \* used.log by path: the entries a restart reads
    tail,     \* the append handle: "clean", "torn" (a part of a line at the end), or
              \* "unlinked" (no longer the file at the path)
    bucket,   \* Limiter: [rule -> [n, tokens in 1/Per, last]] of the rules seen
    refused,  \* refusedWraps: [policy, order]
    req,      \* [request -> its progress]
    lock,     \* the request that holds the sign lock, or {}
    watch,    \* Watch: [cur, failed], cur = <<>> between ticks
    created,  \* [attestation -> when its author signed it, -1 before]
    spent,    \* history: [attestation -> events signed on its strength]
    released, \* history: [time -> wraps released then]
    faulty    \* history: whether one of the Faults happened

world == <<now, disk, writes, created>>
store == <<used, lines, tail>>
history == <<spent, released, faulty>>

vars == <<world, starts, server, store, bucket, refused, req, lock, watch, history>>

Idle == [pc |-> "idle"]
NotWatching == [cur |-> <<>>, failed |-> <<>>]
NoRefused == [policy |-> None, order |-> <<>>]

-----------------------------------------------------------------------------
(* Policies and files *)

PolicyFiles(doc) ==
    {"policy"} \union UNION {{doc[i].require[j].file : j \in DOMAIN doc[i].require} \ {""} :
                             i \in DOMAIN doc}

\* validateAttestation: the authors named and those of the authors file.
Resolved(doc, d) ==
    [i \in DOMAIN doc |-> [doc[i] EXCEPT !.require =
        [j \in DOMAIN @ |-> [@[j] EXCEPT !.authors =
            @ \union (IF doc[i].require[j].file = "" THEN {} ELSE d[doc[i].require[j].file].keys)]]]]

\* LoadPolicy and checkPolicy (the signer has a state directory); ~ok is a file
\* that cannot be read or parsed.
Loads(d) ==
    /\ d["policy"].ok
    /\ \A f \in PolicyFiles(d["policy"].rules) : d[f].ok
    /\ ValidPolicy(Resolved(d["policy"].rules, d), FALSE)

LoadPolicy(d, gen) ==
    [gen |-> gen, rules |-> Resolved(d["policy"].rules, d),
     sums |-> [f \in PolicyFiles(d["policy"].rules) |-> d[f]]]

-----------------------------------------------------------------------------
Init ==
    /\ now = 0
    /\ disk = First
    /\ writes = 0 /\ starts = 0
    /\ server = [up |-> FALSE, started |-> 0, policy |-> None]
    /\ used = {} /\ lines = {} /\ tail = "clean" /\ bucket = <<>>
    /\ refused = NoRefused
    /\ req = [r \in Reqs |-> Idle]
    /\ lock = {}
    /\ watch = NotWatching
    /\ created = [a \in Atts |-> -1]
    /\ spent = [a \in Atts |-> 0]
    /\ released = [t \in 0..MaxTime |-> 0]
    /\ faulty = FALSE

Tick ==
    /\ now < MaxTime
    /\ now' = now + 1
    /\ UNCHANGED <<disk, writes, created, starts, server, store, bucket, refused, req, lock, watch, history>>

\* An author signs an attestation.
Attested(a) ==
    /\ created[a] = -1
    /\ created' = [created EXCEPT ![a] = now]
    /\ UNCHANGED <<now, disk, writes, starts, server, store, bucket, refused, req, lock, watch, history>>

\* An operator rewrites the policy or an authors file.
Write(f, c) ==
    /\ writes < MaxWrites /\ disk[f] # c
    /\ writes' = writes + 1
    /\ disk' = [disk EXCEPT ![f] = c]
    /\ UNCHANGED <<now, created, starts, server, store, bucket, refused, req, lock, watch, history>>

-----------------------------------------------------------------------------
(* Start, crash and a second start *)

\* Mutant: entries are dropped while an attestation may still be accepted.
KeptTooShort(a) == created[a] > now - Skew

Kept(a) == created[a] >= now - Retention

\* OpenUsedSet: entries past retention are dropped and the file is replaced.
OpenUsedSet == lines' = {a \in lines : Kept(a)}

\* runServe and New: load the policy, open the used set, then listen.
Serve ==
    /\ ~server.up /\ starts < MaxStarts
    /\ Loads(disk)
    /\ OpenUsedSet
    /\ used' = lines' /\ tail' = "clean"
    /\ starts' = starts + 1
    /\ server' = [up |-> TRUE, started |-> now, policy |-> LoadPolicy(disk, starts + 1)]
    /\ UNCHANGED <<world, bucket, refused, req, lock, watch, history>>

\* A second serve on the same state directory: it replaces the used file, then
\* finds the socket taken and exits.  The first keeps appending to the old one.
ServeAgain ==
    /\ "second" \in Faults /\ server.up /\ starts < MaxStarts
    /\ Loads(disk)
    /\ OpenUsedSet
    /\ tail' = "unlinked" /\ faulty' = TRUE
    /\ starts' = starts + 1
    /\ UNCHANGED <<world, server, used, bucket, refused, req, lock, watch, spent, released>>

\* The process ends, whatever its requests were doing; only files survive.
Crash ==
    /\ server.up
    /\ server' = [up |-> FALSE, started |-> 0, policy |-> None]
    /\ used' = {} /\ bucket' = <<>> /\ refused' = NoRefused
    /\ req' = [r \in Reqs |-> Idle]
    /\ lock' = {}
    /\ watch' = NotWatching
    /\ UNCHANGED <<world, starts, lines, tail, history>>

-----------------------------------------------------------------------------
(* Limiter: tokens are counted in units of 1/Per. *)

Least(a, b) == IF a < b THEN a ELSE b

\* refill: a bucket starts full, and anew when its rule's rate changed.
Refilled(d, at) ==
    LET known == d.rule \in DOMAIN bucket /\ bucket[d.rule].n = d.rate
        b == IF known THEN bucket[d.rule] ELSE [n |-> d.rate, tokens |-> d.rate * Per, last |-> at]
        grown == IF at > b.last THEN Least(d.rate * Per, b.tokens + d.rate * (at - b.last)) ELSE b.tokens
    IN  [b EXCEPT !.tokens = grown, !.last = at]

SetBucket(d, b) == bucket' = [x \in DOMAIN bucket \union {d.rule} |-> IF x = d.rule THEN b ELSE bucket[x]]

HasToken(d, at) == d.rate = 0 \/ Refilled(d, at).tokens >= Per

\* Allow takes a token if there is one.
Allow(d, at) ==
    IF d.rate = 0 THEN UNCHANGED bucket
    ELSE SetBucket(d, [Refilled(d, at) EXCEPT !.tokens = IF @ >= Per THEN @ - Per ELSE @])

\* Ready only looks.
Ready(d, at) == IF d.rate = 0 THEN UNCHANGED bucket ELSE SetBucket(d, Refilled(d, at))

-----------------------------------------------------------------------------
(* Requests.  The clock a request read, at, may be behind the one another   *)
(* request has used since.                                                   *)

Clocks == {now, now - 1} \intersect Nat

\* authorize for sign_event, under the sign lock: evaluate with the attestations
\* the caller sent, then the rate.
SignRequest(r, at, atts) ==
    LET q == [method |-> "sign_event", id |-> "e", kind |-> 1, tags |-> <<"t">>, banned |-> FALSE,
              created |-> at,
              atts |-> [i \in DOMAIN atts |-> [id |-> atts[i], author |-> AttOf[atts[i]].author,
                          names |-> AttOf[atts[i]].names, created |-> created[atts[i]]]]]
        d == Evaluate(q, server.policy.rules, used, at, server.started)
    IN  /\ server.up /\ req[r] = Idle /\ lock = {}
        /\ d.allow
        /\ Allow(d, at)
        /\ IF HasToken(d, at)
           THEN lock' = {r} /\ req' = [req EXCEPT ![r] = [pc |-> "consume", atts |-> d.consumed]]
           ELSE UNCHANGED <<lock, req>>
        /\ UNCHANGED <<world, starts, server, store, refused, watch, history>>

\* Mutant: the entries reach memory alone.
AddMemoryOnly(atts) == used' = used \union atts /\ UNCHANGED <<lines, tail>>

\* UsedSet.Add: written and synced, then in memory.  After a torn line the first
\* entry is part of that line, and no line a restart can read.
Add(atts) ==
    /\ used' = used \union atts
    /\ CASE tail = "clean" -> lines' = lines \union atts /\ UNCHANGED tail
         [] tail = "torn" -> /\ \E first \in atts : lines' = lines \union (atts \ {first})
                             /\ tail' = "clean"
         [] tail = "unlinked" -> UNCHANGED <<lines, tail>>

Consume(r) ==
    /\ req[r].pc = "consume"
    /\ IF req[r].atts = {} THEN UNCHANGED store ELSE Add(req[r].atts)
    /\ req' = [req EXCEPT ![r].pc = "sign"]
    /\ UNCHANGED <<world, starts, server, bucket, refused, lock, watch, history>>

\* The write fails, or the sync after it: the request is denied.
ConsumeFails(r) ==
    /\ req[r].pc = "consume" /\ req[r].atts # {}
    /\ \/ UNCHANGED <<lines, tail, faulty>>
       \/ tail = "clean" /\ lines' = lines \union req[r].atts /\ UNCHANGED <<tail, faulty>>
       \/ "torn" \in Faults /\ tail = "clean" /\ tail' = "torn" /\ faulty' = TRUE /\ UNCHANGED lines
    /\ req' = [req EXCEPT ![r] = Idle]
    /\ lock' = {}
    /\ UNCHANGED <<world, starts, server, used, bucket, refused, watch, spent, released>>

Sign(r) ==
    /\ req[r].pc = "sign"
    /\ spent' = [a \in Atts |-> spent[a] + (IF a \in req[r].atts THEN 1 ELSE 0)]
    /\ req' = [req EXCEPT ![r] = Idle]
    /\ lock' = {}
    /\ UNCHANGED <<world, starts, server, store, bucket, refused, watch, released, faulty>>

Refusals(p) == IF refused.policy = p THEN {refused.order[i] : i \in DOMAIN refused.order} ELSE {}

\* authorize for the nip44_decrypt of a gift wrap, before it is opened.  A wrap
\* refused before under this policy, or an empty bucket, ends the request here.
UnwrapRequest(r, w, at) ==
    LET p == server.policy
        d == Evaluate([method |-> "decrypt", counterpart |-> "wrapkey", banned |-> FALSE],
                      p.rules, used, at, 0)
    IN  /\ server.up /\ req[r] = Idle
        /\ d.allow /\ d.unwrapFrom # {}
        /\ w \notin Refusals(p)
        /\ Ready(d, at)
        /\ req' = IF HasToken(d, at)
                  THEN [req EXCEPT ![r] = [pc |-> "opened", wrap |-> w, policy |-> p, d |-> d]]
                  ELSE req
        /\ UNCHANGED <<world, starts, server, store, refused, lock, watch, history>>

\* CheckUnwrapResult: a seal, from a sender the rule lists.
Releases(unwrapFrom, w) == WrapFrom[w] \in unwrapFrom

\* Mutant: the refusal is kept for the policy active by now.
RefuseUnderActive(p, w) ==
    refused' = IF refused.policy = server.policy
               THEN [refused EXCEPT !.order = Append(@, w)]
               ELSE [policy |-> server.policy, order |-> <<w>>]

\* refusedWraps.add: another policy's refusals are forgotten, the oldest go at the limit.
AddRefused(p, w) ==
    LET order == IF refused.policy = p THEN refused.order ELSE <<>>
        kept == IF Len(order) >= MaxRefused THEN Tail(order) ELSE order
    IN  refused' = IF w \in Refusals(p) THEN refused
                   ELSE [policy |-> p, order |-> Append(kept, w)]

\* Mutant: the token is taken before it is known whether the rule releases the wrap.
UnwrapChargesAll(r) ==
    LET q == req[r]
        ok == Releases(q.d.unwrapFrom, q.wrap) /\ HasToken(q.d, now)
    IN  /\ q.pc = "opened"
        /\ req' = [req EXCEPT ![r] = Idle]
        /\ Allow(q.d, now)
        /\ IF Releases(q.d.unwrapFrom, q.wrap) THEN UNCHANGED refused ELSE AddRefused(q.policy, q.wrap)
        /\ released' = IF ok THEN [released EXCEPT ![now] = Least(@ + 1, ReleasedCap)] ELSE released
        /\ UNCHANGED <<world, starts, server, store, lock, watch, spent, faulty>>

\* AuthorizeResult: the wrap was opened, its sender is known.
UnwrapResult(r) ==
    LET q == req[r]
    IN  /\ q.pc = "opened" /\ WrapFrom[q.wrap] # "foreign"
        /\ req' = [req EXCEPT ![r] = Idle]
        /\ IF Releases(q.d.unwrapFrom, q.wrap)
           THEN /\ Allow(q.d, now)
                /\ released' = IF HasToken(q.d, now)
                               THEN [released EXCEPT ![now] = Least(@ + 1, ReleasedCap)] ELSE released
                /\ UNCHANGED refused
           ELSE /\ AddRefused(q.policy, q.wrap)
                /\ UNCHANGED <<bucket, released>>
        /\ UNCHANGED <<world, starts, server, store, lock, watch, spent, faulty>>

\* record: a wrap not addressed to the signer could not be opened.
UnwrapFails(r) ==
    /\ req[r].pc = "opened" /\ WrapFrom[req[r].wrap] = "foreign"
    /\ req' = [req EXCEPT ![r] = Idle]
    /\ AddRefused(req[r].policy, req[r].wrap)
    /\ UNCHANGED <<world, starts, server, store, bucket, lock, watch, history>>

\* attest: policy and rate; a signed attestation changes nothing else.
Attest(sub, until, at) ==
    LET d == Evaluate([method |-> "attest", subordinate |-> sub, until |-> until, kinds |-> {},
                       banned |-> FALSE], server.policy.rules, used, at, 0)
    IN  /\ server.up /\ d.allow
        /\ Allow(d, at)
        /\ UNCHANGED <<world, starts, server, store, refused, req, lock, watch, history>>

-----------------------------------------------------------------------------
(* Reload: SIGHUP at any time, and the watcher's two steps *)

Reload ==
    /\ starts < MaxStarts
    /\ IF Loads(disk)
       THEN /\ starts' = starts + 1
            /\ server' = [server EXCEPT !.policy = LoadPolicy(disk, starts + 1)]
       ELSE UNCHANGED <<starts, server>>

Hangup ==
    /\ server.up
    /\ Reload
    /\ UNCHANGED <<world, store, bucket, refused, req, lock, watch, history>>

HashFiles(p) == [f \in DOMAIN p.sums |-> disk[f]]

\* Watch hashes the active policy's files and compares.
WatchHash ==
    LET p == server.policy
    IN  /\ server.up /\ watch.cur = <<>>
        /\ HashFiles(p) # p.sums /\ HashFiles(p) # watch.failed
        /\ watch' = [watch EXCEPT !.cur = HashFiles(p)]
        /\ UNCHANGED <<world, starts, server, store, bucket, refused, req, lock, history>>

\* It reloads; what it hashed is not tried again if that fails.
WatchReload ==
    /\ server.up /\ watch.cur # <<>>
    /\ Reload
    /\ watch' = [cur |-> <<>>, failed |-> IF Loads(disk) THEN <<>> ELSE watch.cur]
    /\ UNCHANGED <<world, store, bucket, refused, req, lock, history>>

Issued == {a \in Atts : created[a] >= 0}

Orders == {<<>>} \union {<<a>> : a \in Issued} \union {s \in Issued \X Issued : s[1] # s[2]}

Next ==
    \/ Tick
    \/ \E a \in Atts : Attested(a)
    \/ \E f \in Paths : \E c \in Contents[f] : Write(f, c)
    \/ Serve
    \/ ServeAgain
    \/ Crash
    \/ \E r \in Reqs :
        \/ \E atts \in Orders, at \in Clocks : SignRequest(r, at, atts)
        \/ Consume(r)
        \/ ConsumeFails(r)
        \/ Sign(r)
        \/ \E w \in Wraps, at \in Clocks : UnwrapRequest(r, w, at)
        \/ UnwrapResult(r)
        \/ UnwrapFails(r)
    \/ \E sub \in Subordinates, until \in 0..(MaxTime + 1), at \in Clocks : Attest(sub, until, at)
    \/ Hangup
    \/ WatchHash
    \/ WatchReload

Spec == Init /\ [][Next]_vars

-----------------------------------------------------------------------------
(* Properties *)

\* An attestation stands behind at most one signed event, whatever crashes,
\* restarts and pruning of the used file lie between two requests that carry it,
\* as long as no write tore and one process at a time opened the used file
\* (authorize under the sign lock, UsedSet.Add, OpenUsedSet).
AttestationSpentOnce == faulty \/ \A a \in Atts : spent[a] <= 1

\* The same with the faults: "append-only NDJSON so a restart can't replay them"
\* (signer/usedset.go:27-28).
\* It fails once a second serve was started on the same state directory:
\* OpenUsedSet replaces the file, and the first server appends to the old one.
RestartNeverReplays == \A a \in Atts : spent[a] <= 1

\* A wrap is refused without being opened only under a policy whose own rule
\* refuses it: a request that began under a replaced policy never leaves its
\* refusal to the policy that replaced it (refusedWraps.add and has).
RefusalNotStale ==
    \A w \in Refusals(server.policy) :
        LET d == Evaluate([method |-> "decrypt", counterpart |-> "wrapkey", banned |-> FALSE],
                          server.policy.rules, used, now, 0)
        IN  ~(d.allow /\ Releases(d.unwrapFrom, w))

\* The bucket of an unwrap rule runs dry only by wraps it released: within Per
\* before its last use as many were released as the rule allows, so wraps from
\* others cannot starve the senders it lists (authorize, AuthorizeResult).
PaceIsSendersOwn ==
    \A x \in DOMAIN bucket :
        LET b == bucket[x]
            window == {t \in 0..MaxTime : t > b.last - Per}
        IN  x = "unwrap" /\ b.tokens < Per =>
                FoldSet(LAMBDA t, n : n + released[t], 0, window) >= b.n

\* What the loaded policy allows is as narrow as validation promises: message keys
\* only for a listed counterpart, an attestation only with an end within the rule's
\* max_until, and a signature with as many distinct attestations as its rule
\* requires (validateRule, Evaluate, assignAttestations).
AllowsAreNarrow ==
    server.up => \A q \in Samples :
        LET rules == server.policy.rules
            d == Evaluate(q, rules, used, now, server.started)
            r == rules[CHOOSE i \in DOMAIN rules : rules[i].name = d.rule]
        IN  d.allow =>
                /\ q.method = "message_keys" => q.counterpart \in r.counterparts
                /\ q.method = "attest" => q.subordinate # SignerPub /\ q.until \in (now + 1)..(now + r.maxUntil)
                /\ q.method = "sign_event" => Cardinality(d.consumed) = Len(r.require)
=============================================================================
