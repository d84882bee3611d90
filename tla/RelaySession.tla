---------------------------- MODULE RelaySession ----------------------------
(***************************************************************************)
(* relaySession (client/login.go): one dialed connection, its NIP-42 login *)
(* and the publishes and reads run over it one after the other.  The       *)
(* client reads the connection only inside an operation; observe answers   *)
(* the first challenge by starting sendLogin, which asks the signer.       *)
(***************************************************************************)
EXTENDS Integers, Sequences, FiniteSets

CONSTANTS
    Programs,    \* sequences of operations one session runs: publishes, or one read
    Reads,       \* those that read
    Lives,       \* those that open a long-lived connection (a stream, a sync), which logs in first
    Refused,     \* events the relay never takes
    Needs,       \* operations the relay refuses before a login
    Guarded,     \* reads it answers anonymously with less
    Signers,     \* subset of {"none", "signs", "refuses"}
    MaxChallenges

Deadline == "deadline"

VARIABLES
    ops,       \* the program this session runs
    signer,    \* authSigner: "none", "signs" or "refuses"
    member,    \* the relay accepts the login
    at,        \* index of the running operation
    pc,        \* "start", "first", "ok", "req", "login", "ended"
    retried,   \* publish already sent the event again / read already asked again
    before,    \* loggedIn when the read began
    held,      \* the read's first answer, kept while the login resolves
    asked,     \* relaySession.asked
    signing,   \* sendLogin: "no", "signing", "sent", "done"
    state,     \* AuthState: "none", "ok" or "failed"
    up, down,  \* the two directions of the connection
    authed,    \* the relay took the login
    stored,    \* events the relay took
    challenges,\* AUTH challenges sent
    logins,    \* AUTH events sent
    results    \* what each operation returned

given == <<ops, signer, member>>
vars == <<given, at, pc, retried, before, held, asked, signing, state, up, down, authed, stored, challenges,
          logins, results>>
relayVars == <<authed, stored, challenges>>
loginVars == <<asked, signing, state, logins>>

Op == ops[at]
NoAnswer == [kind |-> "none", seen |-> FALSE]

Init ==
    /\ ops \in Programs /\ signer \in Signers /\ member \in BOOLEAN
    /\ at = 1 /\ pc = "start" /\ retried = FALSE /\ before = FALSE /\ held = NoAnswer
    /\ asked = FALSE /\ signing = "no" /\ state = "none"
    /\ up = <<>> /\ down = <<>> /\ authed = FALSE /\ stored = {}
    /\ challenges = 0 /\ logins = 0 /\ results = <<>>

-----------------------------------------------------------------------------
(* The relay, modelled from how the client uses it *)

Challenge ==
    /\ challenges < MaxChallenges /\ pc # "ended"
    /\ challenges' = challenges + 1
    /\ down' = Append(down, [kind |-> "auth", of |-> "", ok |-> TRUE, why |-> ""])
    /\ UNCHANGED <<at, pc, retried, before, held, loginVars, up, authed, stored, results>>

Reply(o) ==
    IF o = "login" THEN [kind |-> "ok", of |-> o, ok |-> member, why |-> ""]
    ELSE IF o \in Needs /\ ~authed
    THEN [kind |-> IF o \in Reads THEN "closed" ELSE "ok", of |-> o, ok |-> FALSE, why |-> "auth-required"]
    ELSE IF o \in Reads THEN [kind |-> "eose", of |-> o, ok |-> authed \/ o \notin Guarded, why |-> ""]
    ELSE [kind |-> "ok", of |-> o, ok |-> o \notin Refused, why |-> IF o \in Refused THEN "restricted" ELSE ""]

Serve ==
    /\ up # <<>>
    /\ down' = Append(down, Reply(Head(up)))
    /\ authed' = (authed \/ (Head(up) = "login" /\ member))
    /\ stored' = IF Head(up) \notin Reads \union {"login"} /\ Reply(Head(up)).ok THEN stored \union {Head(up)} ELSE stored
    /\ up' = Tail(up)
    /\ UNCHANGED <<at, pc, retried, before, held, loginVars, challenges, results>>

-----------------------------------------------------------------------------
(* sendLogin, in its own goroutine *)

\* settle: the login resolves once.
Settled(s) == IF state = "none" THEN s ELSE state

\* signLogin signs, and checks it got that event back.
SendLogin ==
    /\ signing = "signing" /\ signer = "signs"
    /\ signing' = "sent"
    /\ up' = Append(up, "login") /\ logins' = logins + 1
    /\ UNCHANGED <<at, pc, retried, before, held, asked, state, down, relayVars, results>>

SignerRefuses ==
    /\ signing = "signing" /\ signer = "refuses"
    /\ signing' = "done" /\ state' = Settled("failed")
    /\ UNCHANGED <<at, pc, retried, before, held, asked, up, down, relayVars, logins, results>>

-----------------------------------------------------------------------------
(* observe and what each message does to the operation that reads it *)

Msg == Head(down)
Reading == pc \in {"first", "ok", "req", "login"} /\ down # <<>>

\* Mutant: every challenge is answered.
FirstAny == TRUE

\* Only the connection's first challenge is answered.
First == ~asked

\* observe: the challenge, or the OK for this session's login.
Observe ==
    /\ Reading
    /\ \/ /\ Msg.kind = "auth"
          /\ asked' = (asked \/ signer # "none")
          /\ signing' = IF First /\ signer # "none" THEN "signing" ELSE signing
          /\ UNCHANGED <<state, logins>>
       \/ /\ Msg.of = "login" /\ signing = "sent"
          /\ signing' = "done"
          /\ state' = Settled(IF Msg.ok THEN "ok" ELSE "failed")
          /\ UNCHANGED <<asked, logins>>
    /\ down' = Tail(down)
    /\ UNCHANGED <<at, pc, retried, before, held, up, relayVars, results>>

IsLogin(m) == m.kind = "auth" \/ m.of = "login"

Return(result) ==
    /\ results' = Append(results, result)
    /\ at' = at + 1
    /\ pc' = IF at = Len(ops) THEN "ended" ELSE "start"
    /\ retried' = FALSE /\ held' = NoAnswer

\* awaitOK and subscribeOnce send; a session is closed after its last operation.
Begin ==
    /\ pc = "start" /\ Op \notin Lives
    /\ up' = Append(up, Op)
    /\ pc' = IF Op \in Reads THEN "req" ELSE "ok"
    /\ before' = (state = "ok")
    /\ UNCHANGED <<at, retried, held, loginVars, down, relayVars, results>>

\* loginFirst: with a signer, a challenge that comes in challengeWait is answered before
\* anything is sent, and a failed login ends the connection's use.
LoginFirst ==
    /\ pc \in {"start", "first"} /\ Op \in Lives
    /\ \/ pc = "start" /\ signer # "none" /\ pc' = "first" /\ UNCHANGED <<at, retried, held, up, results>>
       \/ /\ pc = IF signer = "none" THEN "start" ELSE "first"
          /\ asked => state = "ok"
          /\ up' = Append(up, Op) /\ Return("open")
       \/ /\ pc = "first" /\ asked /\ state # "ok"
          /\ Return("login_error") /\ UNCHANGED up
    /\ UNCHANGED <<before, loginVars, down, relayVars>>

Again ==
    /\ up' = Append(up, Op)
    /\ pc' = IF Op \in Reads THEN "req" ELSE "ok"
    /\ retried' = TRUE
    /\ UNCHANGED <<at, held, results>>

\* Mutant: awaitOK takes the next OK as the event's.
MatchesAny(m) == m.kind = "ok"

Matches(m) == m.kind = "ok" /\ m.of = Op

\* publish: the event's OK.
PublishOk ==
    /\ pc = "ok" /\ Reading /\ ~IsLogin(Msg) /\ Matches(Msg)
    /\ down' = Tail(down)
    /\ \/ Msg.ok /\ Return("accepted") /\ UNCHANGED up
       \/ ~Msg.ok /\ Msg.why = "auth-required" /\ ~retried /\ pc' = "login" /\ UNCHANGED <<at, retried, held, results, up>>
       \/ ~Msg.ok /\ (Msg.why # "auth-required" \/ retried) /\ Return("refused") /\ UNCHANGED up
    /\ UNCHANGED <<before, loginVars, relayVars>>

\* Mutant: an answer that raced the login is returned.
RacedNever == FALSE

\* The REQ raced the login: the relay may have answered it anonymously.
Raced == asked /\ signer # "none" /\ ~before

\* subscribeOnce ends at the EOSE or CLOSED of its own REQ.
EndsRead(m) == m.kind \in {"eose", "closed"} /\ m.of = Op

\* read: EOSE or CLOSED of the REQ.
ReadEnds ==
    /\ pc = "req" /\ Reading /\ ~IsLogin(Msg) /\ EndsRead(Msg)
    /\ down' = Tail(down)
    /\ LET answer == [kind |-> "events", seen |-> Msg.ok]
       IN  \/ /\ Msg.kind = "closed" /\ ~retried
              /\ pc' = "login" /\ held' = NoAnswer /\ UNCHANGED <<at, retried, results>>
           \/ /\ Msg.kind = "closed" /\ retried
              /\ Return("refused")
           \/ /\ Msg.kind = "eose" /\ Raced /\ ~retried
              /\ pc' = "login" /\ held' = answer /\ UNCHANGED <<at, retried, results>>
           \/ /\ Msg.kind = "eose" /\ (~Raced \/ retried)
              /\ Return(IF Msg.ok THEN "all" ELSE "anonymous")
    /\ UNCHANGED <<up, before, loginVars, relayVars>>

\* A message nobody waits for is passed over (a late OK, another subscription).
Ignore ==
    /\ Reading /\ ~IsLogin(Msg)
    /\ \/ pc = "ok" /\ ~Matches(Msg)
       \/ pc = "req" /\ ~EndsRead(Msg)
       \/ pc \in {"first", "login"}
    /\ down' = Tail(down)
    /\ UNCHANGED <<at, pc, retried, before, held, loginVars, up, relayVars, results>>

\* awaitLogin ends: logged in and once more, or why not; a read that only raced the
\* login keeps its anonymous answer.
LoginSettled ==
    /\ pc = "login"
    /\ \/ /\ signer # "none" /\ state = "ok" /\ Again
       \/ /\ signer = "none" \/ state = "failed"
          /\ Return(IF held.kind = "events" THEN (IF held.seen THEN "all" ELSE "anonymous") ELSE "login_error")
          /\ UNCHANGED up
    /\ UNCHANGED <<before, loginVars, down, relayVars>>

\* No OK in 10 s, or the caller's deadline.
Timeout ==
    /\ pc \in {"ok", "req", "login"}
    /\ Return(Deadline)
    /\ UNCHANGED <<up, before, loginVars, down, relayVars>>

\* No answer to the login in 35 s, or no challenge to answer: a LoginError.
LoginTimeout ==
    /\ pc = "login"
    /\ Return(IF held.kind = "events" THEN (IF held.seen THEN "all" ELSE "anonymous") ELSE "login_error")
    /\ UNCHANGED <<up, before, loginVars, down, relayVars>>

Next ==
    /\ UNCHANGED given
    /\ \/ Challenge \/ Serve \/ SendLogin \/ SignerRefuses \/ Observe \/ Begin \/ LoginFirst \/ PublishOk
       \/ ReadEnds \/ Ignore \/ LoginSettled \/ Timeout \/ LoginTimeout

Spec == Init /\ [][Next]_vars

-----------------------------------------------------------------------------
(* Properties *)

\* One login per connection, however often the relay asks ("one login per
\* connection, never more", relaySession).
OneLogin == logins <= 1

\* An event reported accepted is one the relay took, whatever OKs come late, for
\* other events or for the login (publish, awaitOK).
AcceptedIsStored ==
    \A i \in 1..Len(results) : results[i] = "accepted" => ops[i] \in stored

AnonymousOnlyAtLogin ==
    \A i \in 1..Len(results') : i > Len(results) /\ results'[i] = "anonymous" /\ asked /\ state # "failed"
    => pc = "login"

\* A read that answered a challenge never returns what an anonymous reader sees
\* unless the login failed (read: "The REQ raced the login").
NeverAnonymousResult == [][AnonymousOnlyAtLogin]_vars
=============================================================================
