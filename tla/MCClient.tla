---------------------------- MODULE MCClient ----------------------------
(***************************************************************************)
(* What a user runs beside the relay, on small instances. The client:      *)
(* following feeds, a relay session, several targets, negentropy, the run  *)
(* and the board of a flow, the vault, lists, and the signer. The bunker   *)
(* beside its queue and the approval of requests: the policy store with    *)
(* and without failed saves, the board with two prompts, two terminals     *)
(* deciding three requests, and the activity log. One component runs at a  *)
(* time: part names it, the components of the modules this one extends     *)
(* have their own variables, those of the others are the slots v1, v2, ... *)
(* as the INSTANCE says, and what is not used rests.                       *)
(***************************************************************************)
EXTENDS Naturals, Sequences, FiniteSets, ClientServices

CONSTANTS Parts, Reqs

VARIABLES
    v1, v2, v3, v4, v5, v6, v7, v8, v9, v10, v11, v12, v13, v14, v15, v16, v17

\* The slots from the k-th on, and that they are unused.
Rest16 == <<v16, v17>>
Blank16 == v16 = 0 /\ v17 = 0
Rest13 == <<v13, v14, v15, Rest16>>
Blank13 == v13 = 0 /\ v14 = 0 /\ v15 = 0 /\ Blank16
Rest12 == <<v12, Rest13>>
Blank12 == v12 = 0 /\ Blank13
Rest11 == <<v11, Rest12>>
Blank11 == v11 = 0 /\ Blank12
Rest10 == <<v10, Rest11>>
Blank10 == v10 = 0 /\ Blank11
Rest9 == <<v9, Rest10>>
Blank9 == v9 = 0 /\ Blank10
Rest8 == <<v8, Rest9>>
Blank8 == v8 = 0 /\ Blank9
Rest7 == <<v7, Rest8>>
Blank7 == v7 = 0 /\ Blank8
Rest1 == <<v1, v2, v3, v4, v5, v6, Rest7>>
Blank1 == v1 = 0 /\ v2 = 0 /\ v3 = 0 /\ v4 = 0 /\ v5 = 0 /\ v6 = 0 /\ Blank7

\* The components that are extended, and that they rest.
Extended == <<client>>
Resting == ClientOff

MCVars == <<Extended, Rest1>>

-----------------------------------------------------------------------------
\* Four events on two relays, one stored late.
At == <<2, 3, 7, 9>>
FirstStored == [r \in {"a", "b"} |-> IF r = "a" THEN {1, 2, 3} ELSE {2}]
Late == [r \in {"a", "b"} |-> IF r = "a" THEN {4} ELSE {}]

\* Three events published in a row, and three kinds of read.
MCPrograms == {<<"e1", "e2", "e3">>, <<"q">>, <<"r">>, <<"s">>}

\* Who signs, and drafts by the authors they name.
Identity(kind, of) == [kind |-> kind, of |-> of]
Unsigned(a) == [pub |-> <<a, "lower">>, id |-> <<"-", "lower">>, work |-> <<"-", "lower">>, sig |-> "-"]
Draft(authors) == [array |-> TRUE, events |-> [i \in DOMAIN authors |-> Unsigned(authors[i])]]
One(a) == [Draft(<<a>>) EXCEPT !.array = FALSE]

Remote(n) == [id |-> n, type |-> "remote", killed |-> FALSE]
MCLists == {<<Remote("a"), [Remote("b") EXCEPT !.killed = TRUE], Remote("a"),
              [Remote("s") EXCEPT !.type = "local"]>>,
            <<Remote("a"), Remote("b")>>, <<>>}

\* Policies of the signer, with an authors file.
Blank == [name |-> "", effect |-> "allow", methods |-> {}, kinds |-> {}, tags |-> {}, tagsOne |-> {},
          counterparts |-> {}, unwrapFrom |-> {}, subordinates |-> {}, attestKinds |-> {},
          maxUntil |-> 0, denyMatching |-> FALSE, rate |-> 0, require |-> <<>>]

OneOf == [authors |-> {}, file |-> "authors", maxAge |-> 2, binds |-> "tag"]

SignRule == [Blank EXCEPT !.name = "sign", !.kinds = {1}, !.require = <<OneOf>>]
TwoRule == [Blank EXCEPT !.name = "sign", !.tagsOne = {"t"},
                !.require = <<[OneOf EXCEPT !.authors = {"bob"}], OneOf>>]
UnwrapRule(from) == [Blank EXCEPT !.name = "unwrap", !.unwrapFrom = from, !.rate = 1]
AttestRule == [Blank EXCEPT !.name = "attest", !.subordinates = {"sub"}, !.maxUntil = 1]
KeysRule == [Blank EXCEPT !.name = "keys", !.methods = {"message_keys"}]
DenyRule == [Blank EXCEPT !.name = "deny", !.effect = "deny", !.methods = {"attest"}]

Doc(rules) == [ok |-> TRUE, rules |-> rules]
Docs == {Doc(<<SignRule, UnwrapRule({"alice"}), AttestRule>>),
         Doc(<<UnwrapRule({"bob"}), DenyRule, AttestRule, TwoRule>>),
         Doc(<<SignRule, KeysRule>>), Doc(<<SignRule, [KeysRule EXCEPT !.counterparts = {"bob"}]>>)}

Contents == [policy |-> Docs,
               authors |-> {[ok |-> TRUE, keys |-> {"alice", "bob"}], [ok |-> FALSE, keys |-> {}]}]
First == [policy |-> Doc(<<SignRule, UnwrapRule({"alice"}), AttestRule>>),
            authors |-> [ok |-> TRUE, keys |-> {"alice", "bob"}]]
AttOf == [a1 |-> [author |-> "alice", names |-> {"t"}]]
WrapFrom == [w1 |-> "bob", w2 |-> "foreign"]

Carried == [a1 |-> [id |-> "a1", author |-> "alice", names |-> {"t"}, created |-> 0],
            a2 |-> [id |-> "a2", author |-> "bob", names |-> {"t", "u"}, created |-> 0]]
Samples ==
    {[method |-> "message_keys", counterpart |-> k, banned |-> FALSE] : k \in {"bob", "eve"}}
    \union {[method |-> "attest", subordinate |-> s, until |-> u, kinds |-> {}, banned |-> FALSE] :
               s \in {"sub", "me"}, u \in 0..3}
    \union {[method |-> "sign_event", id |-> "e", kind |-> 1, tags |-> tags, banned |-> FALSE,
             created |-> 0, atts |-> atts] :
               tags \in {<<"t">>, <<"u">>}, atts \in {<<>>, <<Carried.a1>>, <<Carried.a1, Carried.a2>>}}

\* The dialogs of the two prompts of the board.
KeyOf == [p1 |-> "signEventApproval", p2 |-> "dialog"]

\* Three requests of two apps, grants files with repeated, conflicting and
\* invalid entries, and the commands that decide, grant and revoke.
Asked == [i1 |-> [app |-> "a", method |-> "sign_event", kind |-> "k1"],
            i2 |-> [app |-> "a", method |-> "sign_event", kind |-> "k0"],
            i3 |-> [app |-> "b", method |-> "ping", kind |-> "k0"]]

SpecEntry(m, ks, v, e, u) == [method |-> m, kinds |-> ks, verdict |-> v, expires |-> e, uses |-> u]
SpecEntries == {SpecEntry("sign_event", ks, v, FALSE, FALSE) :
                ks \in {<<>>, <<"k1">>, <<"k1", "any">>}, v \in {"allow", "deny"}}
           \cup {SpecEntry("ping", <<>>, "deny", TRUE, FALSE), SpecEntry("connect", <<>>, "allow", FALSE, FALSE)}
GrantFiles == {<<>>} \cup {<<e, f>> : e \in SpecEntries, f \in SpecEntries} \cup {<<SpecEntry("ping", <<>>, "allow", TRUE, TRUE)>>}

Ask(op, id, always, any) == [op |-> op, id |-> id, always |-> always, any |-> any]
Asks == {Ask("approve", i, al, an) : i \in {"i1", "i2"}, al \in BOOLEAN, an \in BOOLEAN}
        \cup {Ask("reject", i, al, FALSE) : i \in {"i1", "i3"}, al \in BOOLEAN}
        \cup {[op |-> "set-grant", app |-> "a", spec |-> s] : s \in GrantFiles}
        \cup {[op |-> "revoke", app |-> "a"],
              [op |-> "revoke-grant", app |-> "a", scope |-> <<"sign_event", "any">>]}

-----------------------------------------------------------------------------
\* Two runs of a followed feed, and one fault.
F == INSTANCE Follow WITH
    Relays <- {"a", "b"}, Events <- 1..4, Junk <- {4}, Skipped <- {}, Now <- 8,
    Overlap <- 2, Cap <- 2, PageMin <- 2, MaxPages <- 4, MaxSeen <- 4,
    Faults <- {"drop", "refuse", "emit", "crash"}, MaxFaults <- 1, MaxRuns <- 2,
    up <- v1, runs <- v2, stored <- v3, conn <- v4, inbox <- v5, pg <- v6,
    retried <- v7, order <- v8, only <- v9, since <- v10, disk <- v11, emitted <- v12,
    unsaved <- v13, gaps <- v14, faults <- v15

\* Two reloads of a running flow.
R == INSTANCE ClientRun WITH
    Reloads <- {"c1", "c2"}, MaxEdits <- 2, HasTui <- TRUE,
    file <- v1, edits <- v2, spec <- v3, main <- v4, cancelled <- v5, run <- v6,
    closed <- v7, wg <- v8, render <- v9, reload <- v10, watchErr <- v11

\* Two flows and two events.
B == INSTANCE TuiBoards WITH
    Flows <- 2, Events <- 2, MaxRows <- 1, MaxCount <- 1, Dialogs <- {"error"},
    scr <- v1, panel <- v2, rows <- v3, drawn <- v4, count <- v5, byEvents <- v6,
    live <- v7, shown <- v8, sel <- v9, tail <- v10, saver <- v11, file <- v12

\* Commands one after the other, one of them killed.
V == INSTANCE Vault WITH
    Procs <- {"p"}, Npubs <- {"a", "b"}, Labels <- {"x"}, MaxKeys <- 2, MaxFaults <- 1,
    Rewrites <- {"prefs"}, Users <- {}, Uses <- {}, Identities <- {},
    Drafts <- {Draft(<<>>)}, MaxUses <- 0,
    prefs <- v1, vault <- v2, job <- v3, keys <- v4, faults <- v5, use <- v6,
    docs <- v7, uses <- v8

\* A command that needs an identity, while another changes the vault.
I == INSTANCE Vault WITH
    Procs <- {"p"}, Npubs <- {"a", "b"}, Labels <- {"x"}, MaxKeys <- 1, MaxFaults <- 0,
    Rewrites <- {}, Users <- {"s"}, Uses <- {"publish", "join", "read"},
    Identities <- {Identity("label", "x"), Identity("nip05", "b")},
    Drafts <- {Draft(<<"b", "-">>)}, MaxUses <- 1,
    prefs <- v1, vault <- v2, job <- v3, keys <- v4, faults <- v5, use <- v6,
    docs <- v7, uses <- v8

\* Three commands over two event files, one of them killed.
E == INSTANCE Vault WITH
    Procs <- {}, Npubs <- {"a", "b"}, Labels <- {"x"}, MaxKeys <- 1, MaxFaults <- 1,
    Rewrites <- {}, Users <- {"s"}, Uses <- {"mine", "sign", "publish"},
    Identities <- {Identity("npub", "a"), Identity("nsec", "b"), Identity("signer", "b"), Identity("bad", "-")},
    Drafts <- {One("a"), One("-"), Draft(<<"b", "-">>)}, MaxUses <- 3,
    prefs <- v1, vault <- v2, job <- v3, keys <- v4, faults <- v5, use <- v6,
    docs <- v7, uses <- v8

\* Two requests at a time, a policy change and a restart.
G == INSTANCE Signer WITH
    SignerPub <- "me", Skew <- 1, MaxAttestationAge <- 2, Backdate <- 1,
    Subordinates <- {"sub"}, Retention <- 2, MaxRefused <- 1, Per <- 2,
    Faults <- {"second", "torn"}, ReleasedCap <- 1, MaxTime <- 1, MaxWrites <- 1,
    MaxStarts <- 2,
    now <- v1, disk <- v2, writes <- v3, starts <- v4, server <- v5, used <- v6,
    lines <- v7, tail <- v8, bucket <- v9, refused <- v10, req <- v11, lock <- v12,
    watch <- v13, created <- v14, spent <- v15, released <- v16, faulty <- v17

\* Three grants to one app: no step of the store touches two.
P == INSTANCE BunkerPolicy WITH
    Apps <- {"a"}, Kinds <- {0, 1}, Sensitive <- {0}, MaxTime <- 1, MaxUses <- 2,
    MaxGrants <- 3, MaxErrors <- 0,
    now <- v1, sessions <- v2, disk <- v3, stale <- v4, errors <- v5, lost <- v6,
    rule <- v7, issued <- v8, spent <- v9

\* Two grants and a failed save.
PE == INSTANCE BunkerPolicy WITH
    Apps <- {"a"}, Kinds <- {0, 1}, Sensitive <- {0}, MaxTime <- 1, MaxUses <- 2,
    MaxGrants <- 2, MaxErrors <- 1,
    now <- v1, sessions <- v2, disk <- v3, stale <- v4, errors <- v5, lost <- v6,
    rule <- v7, issued <- v8, spent <- v9

\* Two prompts, pairing, one follow-up at a time.
BB == INSTANCE BunkerBoard WITH
    Requests <- {"p1", "p2"}, Connects <- {"p2"}, Panels <- {"pair", "history"},
    Faults <- {"daemon", "pair"}, MaxLater <- 1,
    scr <- v1, fresh <- v2, pend <- v3, rendered <- v4, auto <- v5, prompted <- v6,
    later <- v7, watch <- v8, conn <- v9, up <- v10

\* One prompt over every panel.
BP == INSTANCE BunkerBoard WITH
    Requests <- {"p2"}, Connects <- {"p2"},
    Panels <- {"pair", "grants", "names", "history"}, Faults <- {"daemon", "pair"},
    MaxLater <- 1,
    scr <- v1, fresh <- v2, pend <- v3, rendered <- v4, auto <- v5, prompted <- v6,
    later <- v7, watch <- v8, conn <- v9, up <- v10

\* Two commands at a time.
C == INSTANCE BunkerCommands WITH
    Ids <- {"i1", "i2", "i3"}, Request <- Asked, Apps <- {"a", "b"},
    Sensitive <- {"k0"}, Commands <- {"c1", "c2"}, Any <- "any", None <- "none",
    waiting <- v1, used <- v2, verdictOf <- v3, grants <- v4, paired <- v5, run <- v6

\* Four log lines through a tail of two, and events of two flows.
AL == INSTANCE ActivityLog WITH
    Flows <- {"f1", "f2"}, MaxTail <- 2, MaxEntries <- 3, MaxLines <- 4, MaxEvents <- 2,
    total <- v1, tail <- v2, seen <- v3, events <- v4, logs <- v5, last <- v6,
    panel <- v7

\* The instances satisfy what the components ask of their constants.
ASSUME ClientConstants == P!PolicyAssumption /\ PE!PolicyAssumption /\ ClientAssumption

-----------------------------------------------------------------------------
MCInit ==
    /\ part \in Parts
    /\ \/ ClientInit /\ Blank1
       \/ part = "follow" /\ F!Init /\ Blank16 /\ Resting
       \/ part = "run" /\ R!Init /\ Blank12 /\ Resting
       \/ part = "boards" /\ B!Init /\ Blank13 /\ Resting
       \/ part = "vault" /\ V!Init /\ Blank9 /\ Resting
       \/ part = "identity" /\ I!Init /\ Blank9 /\ Resting
       \/ part = "files" /\ E!Init /\ Blank9 /\ Resting
       \/ part = "signer" /\ G!Init /\ Resting
       \/ part = "policy" /\ P!Init /\ Blank10 /\ Resting
       \/ part = "unsaved" /\ PE!Init /\ Blank10 /\ Resting
       \/ part = "board" /\ BB!Init /\ Blank11 /\ Resting
       \/ part = "panels" /\ BP!Init /\ Blank11 /\ Resting
       \/ part = "commands" /\ C!Init /\ Blank7 /\ Resting
       \/ part = "log" /\ AL!Init /\ Blank8 /\ Resting

\* The components that may come to an end.
MayStop == {"follow", "session", "targets", "negsync", "run", "boards", "vault",
            "identity", "files", "signer", "board", "panels", "commands", "log"}

MCNext ==
    \/ ClientNext /\ UNCHANGED <<Rest1>>
    \/ part = "follow" /\ F!Next /\ UNCHANGED <<Extended, Rest16>>
    \/ part = "run" /\ R!Next /\ UNCHANGED <<Extended, Rest12>>
    \/ part = "boards" /\ B!Next /\ UNCHANGED <<Extended, Rest13>>
    \/ part = "vault" /\ V!Next /\ UNCHANGED <<Extended, Rest9>>
    \/ part = "identity" /\ I!Next /\ UNCHANGED <<Extended, Rest9>>
    \/ part = "files" /\ E!Next /\ UNCHANGED <<Extended, Rest9>>
    \/ part = "signer" /\ G!Next /\ UNCHANGED Extended
    \/ part = "policy" /\ P!Next /\ UNCHANGED <<Extended, Rest10>>
    \/ part = "unsaved" /\ PE!Next /\ UNCHANGED <<Extended, Rest10>>
    \/ part = "board" /\ BB!Next /\ UNCHANGED <<Extended, Rest11>>
    \/ part = "panels" /\ BP!Next /\ UNCHANGED <<Extended, Rest11>>
    \/ part = "commands" /\ C!Next /\ UNCHANGED <<Extended, Rest7>>
    \/ part = "log" /\ AL!Next /\ UNCHANGED <<Extended, Rest8>>
    \/ part \in MayStop /\ UNCHANGED MCVars

MCSpec == MCInit /\ [][MCNext]_MCVars

-----------------------------------------------------------------------------
(* A followed feed is paged down to its oldest event and each event        *)
(* printed once, whatever live events, logins, reconnects and restarts     *)
(* come between (followPager, resumeFilters, emit, Mark, Save).            *)
FeedFollowed == part = "follow" => F!PagedDown /\ F!PrintedOnce

(* Two modules of a flow are never open at once, however many reloads run  *)
(* together, and the event a save key adds to the session file is the one  *)
(* the selected row or the overlay shows, though rows move between two     *)
(* drawings, and the file holds it once (the reload callback, render,      *)
(* stopCh and wg; eventAt, mergeEventsByID). The page in front gets the    *)
(* keys: no dialog is ever visible and dead, whatever overlay a late       *)
(* completion dismissed under it, and the end of a pairing never closes    *)
(* the decision the operator is looking at without another dialog in its   *)
(* place (client/tui/app.go DismissOverlay, cli/bunker/board.go            *)
(* showConnecting). The activity log prints every entry it still holds,    *)
(* once, though the daemon's tail, the log's slice and the printed index   *)
(* rotate separately (DaemonLogWatcher.Update, trimLogs).                  *)
BoardsTruthful ==
    /\ [](part = "run" => R!OneModule)
    /\ [](part = "boards" => B!FileHasNoRepeats)
    /\ [](part = "board" => BB!KeyboardAlive)
    /\ [](part = "panels" => BP!KeyboardAlive)
    /\ [](part = "log" => AL!PrintedAtMostOnce /\ AL!HeldIsPrintedOrWaits)
    /\ [][/\ part = "boards" => B!SavesTheSeen
          /\ part = "board" => BB!FollowUpReplaces
          /\ part = "panels" => BP!FollowUpReplaces]_MCVars

(* The key in prefs.yaml opens every saved identity and is not lost while  *)
(* there are any, and a label names one identity, though a command was     *)
(* killed halfway through a rewrite; events are signed as the identity     *)
(* that was named and as the author they name, though the vault changes    *)
(* between its two reads, a named identity is never dropped silently, and  *)
(* mined work is kept from file to file (CreateIdentity, AddEntry,         *)
(* RelabelEntry; ResolveSigningKey, ResolveIdentityOptional, Mine).        *)
IdentitiesKept ==
    /\ part = "vault" => V!NoOrphans /\ V!KeyOutlivesCommands /\ V!LabelNamesOne
    /\ part = "identity" => I!SignedAsNamed /\ I!NeverDropped
    /\ part = "files" => E!SignedAsNamed /\ E!WorkKept

(* An attestation stands behind one signed event, across crashes, restarts *)
(* and pruning; a wrap is refused unopened only under a policy that        *)
(* refuses it; the wraps of other senders cannot use up the pace of those  *)
(* a rule lists; and what the loaded policy allows is as narrow as         *)
(* validation promises (UsedSet, refusedWraps, authorize, validateRule,    *)
(* assignAttestations).                                                    *)
SignerCareful ==
    part = "signer" => /\ G!AttestationSpentOnce /\ G!RefusalNotStale
                       /\ G!PaceIsSendersOwn /\ G!AllowsAreNarrow

(* The policy store (cli/bunker/policy.go). Decide answers by the latest   *)
(* grant remembered for the request's own kind, else for any kind,         *)
(* whatever was replaced, charged, pruned or reloaded; no grant is spent   *)
(* past its uses, across restarts too; no sensitive kind is ever allowed   *)
(* silently; and a restart changes no answer. However many terminals       *)
(* decide the same request one decision counts and only the command that   *)
(* made it says so (Queue.Resolve under resolvePending), and a grants file *)
(* that loads is applied whole (GrantSpec, Store.Remember).                *)
GrantsObeyed ==
    /\ part = "policy" => /\ P!LatestGrantRules /\ P!BudgetNotOverspent
                          /\ P!SensitiveNeverSilent /\ P!RestartChangesNothing
    /\ part = "unsaved" => /\ PE!LatestGrantRules /\ PE!BudgetNotOverspent
                           /\ PE!SensitiveNeverSilent /\ PE!RestartChangesNothing
    /\ part = "commands" => C!DecidersAgree /\ C!SpecsApplyWhole
=============================================================================
