-------------------------------- MODULE Vault --------------------------------
(***************************************************************************)
(* ncli's two local files and the commands that rewrite them: prefs.yaml   *)
(* (default relays and Blossom servers, relay contexts, and the vault's    *)
(* own key; client/prefs) and vault.yaml (identities encrypted to that     *)
(* key; client/vault), under `prefs relays', `blossom servers', `relay     *)
(* context' and `id'.  Each command is a process that loads a whole file,  *)
(* changes it in memory and writes it all back with os.WriteFile, which    *)
(* truncates and then writes; no lock is taken.                            *)
(*                                                                         *)
(* The commands that need an identity read both files, more than once      *)
(* (client/identity, cli/keyresolve): `miner mine', `id sign' and          *)
(* `publish', which carry events from file to file, and the commands that  *)
(* only log in.                                                            *)
(***************************************************************************)
EXTENDS Naturals, Sequences, FiniteSets

CONSTANTS Procs,     \* commands that may run at the same time
          Npubs,     \* identities
          Labels,    \* labels somebody chooses
          MaxKeys,   \* bound: vault keys created
          MaxFaults, \* bound: commands killed
          Rewrites,  \* what Procs rewrite besides the vault: {"prefs"} or {}
          Users,     \* commands that use an identity
          Uses,      \* what Users run: subset of {"mine", "sign", "publish", "join", "read"}
          Identities,\* what --identity, --signer or the configuration may say: [kind, of]
          Drafts,    \* what the draft's file may hold at first: [array, events]
          MaxUses    \* bound: commands Users start

None == 0

VARIABLES prefs,     \* prefs.yaml: [ok, relay, server, context, current, key]
          vault,     \* vault.yaml: [ok, entries: partial function npub -> [label, key]]
          job,       \* [Procs -> a command under way]
          keys, faults,
          use,       \* [Users -> a command that uses an identity]
          docs,      \* the event files: [Files -> [array, events], or Torn]
          uses

vars == <<prefs, vault, job, keys, faults, use, docs, uses>>
using == <<use, docs, uses>>
stores == <<prefs, vault, job, keys>>

NoEntries == [n \in {} |-> None]
Blank == [ok |-> TRUE, relay |-> FALSE, server |-> FALSE, context |-> FALSE, current |-> FALSE, key |-> None]
BlankVault == [ok |-> TRUE, entries |-> NoEntries]
Idle == [pc |-> "idle", op |-> "none", n |-> None, label |-> None, p |-> Blank, es |-> NoEntries, key |-> None]

NoOne == "-"
NoPub == <<NoOne, "lower">>
Nothing == [kind |-> "none", of |-> NoOne]
NoUse == [pc |-> "idle", op |-> "none", who |-> Nothing, named |-> FALSE, in |-> "-", out |-> "-",
          npub |-> NoOne, key |-> NoOne, vkey |-> None, draft |-> <<>>, evs |-> <<>>, array |-> FALSE, res |-> "none"]

\* An event file that is missing, or was cut short.
Torn == [array |-> TRUE, events |-> <<>>]
Files == {"draft", "out"}

Init == /\ prefs = Blank /\ vault = BlankVault
        /\ job = [i \in Procs |-> Idle]
        /\ keys = 0 /\ faults = 0
        /\ use = [s \in Users |-> NoUse] /\ uses = 0
        /\ \E d \in Drafts : docs = [f \in Files |-> IF f = "draft" THEN d ELSE Torn]

Goes(i, pc) == job' = [job EXCEPT ![i].pc = pc]
Ends(i) == job' = [job EXCEPT ![i] = Idle]

----------------------------------------------------------------------------
\* prefs.yaml commands, on a loaded copy: AddRelay, RemoveRelay, clear, the
\* Blossom servers, AddRelayContext, UseRelayContext, RemoveRelayContext.
Changed(op, p) ==
    CASE op = "relay add"      -> [p EXCEPT !.relay = TRUE]
      [] op \in {"relay remove", "relay clear"} -> [p EXCEPT !.relay = FALSE]
      [] op = "server add"     -> [p EXCEPT !.server = TRUE]
      [] op = "server remove"  -> [p EXCEPT !.server = FALSE]
      [] op = "context add"    -> [p EXCEPT !.context = TRUE]
      [] op = "context use"    -> [p EXCEPT !.current = p.context]
      [] op = "context remove" -> [p EXCEPT !.context = FALSE, !.current = FALSE]

Loads(i, op) == job' = [job EXCEPT ![i] = [Idle EXCEPT !.pc = "save prefs", !.op = op, !.p = Changed(op, prefs)]]

Ready(i) == job[i].pc = "idle" /\ prefs.ok

\* `prefs relays': adding and removing save only a change, clearing always.
RelaysCommand(i) ==
    /\ Ready(i)
    /\ \E op \in {"relay add", "relay remove", "relay clear"} :
          (op = "relay clear" \/ Changed(op, prefs) # prefs) /\ Loads(i, op)
    /\ UNCHANGED <<prefs, vault, keys, faults>>

\* `blossom servers' saves only a change.
ServersCommand(i) ==
    /\ Ready(i)
    /\ \E op \in {"server add", "server remove"} : Changed(op, prefs) # prefs /\ Loads(i, op)
    /\ UNCHANGED <<prefs, vault, keys, faults>>

\* `relay context': adding always saves, using needs the context to exist,
\* removing saves only a change.
ContextCommand(i) ==
    /\ Ready(i)
    /\ \/ Loads(i, "context add")
       \/ prefs.context /\ \E op \in {"context use", "context remove"} : Loads(i, op)
    /\ UNCHANGED <<prefs, vault, keys, faults>>

PrefsOps == {"relay add", "relay remove", "relay clear", "server add", "server remove",
             "context add", "context use", "context remove"}

\* os.WriteFile: a truncated prefs.yaml reads as a blank one.
TruncatePrefs(i) ==
    /\ job[i].pc = "save prefs"
    /\ prefs' = Blank
    /\ Goes(i, "write prefs")
    /\ UNCHANGED <<vault, keys, faults>>

WritePrefs(i) ==
    /\ job[i].pc = "write prefs"
    /\ prefs' = job[i].p
    /\ IF job[i].op \in PrefsOps THEN Ends(i) ELSE Goes(i, "entries")
    /\ UNCHANGED <<vault, keys, faults>>

----------------------------------------------------------------------------
\* `id --save', `id import', `id relabel' and `id rm': look at the vault,
\* then UnlockOrCreateVault, then rewrite the entries.  A missing label is
\* the npub.
Saved(n) == vault.ok /\ n \in DOMAIN vault.entries

\* UnlockOrCreateVault: create when prefs.yaml has no key, unlock otherwise.
UnlockOrCreate(i, op, n, label) ==
    job' = [job EXCEPT ![i] = [Idle EXCEPT !.op = op, !.n = n, !.label = label,
                                !.pc = IF prefs.key = None THEN "create" ELSE "unlock"]]

\* `id --save' goes straight to the vault.
Save(i, n, label) ==
    /\ Ready(i) /\ UnlockOrCreate(i, "save", n, label)
    /\ UNCHANGED <<prefs, vault, keys, faults>>

\* `id import' adds a new key; a saved one it only relabels, with --force
\* and a label of its own.
Import(i, n, label) ==
    /\ Ready(i) /\ vault.ok
    /\ IF Saved(n) THEN /\ label \notin {n, vault.entries[n].label}
                        /\ UnlockOrCreate(i, "relabel", n, label)
       ELSE UnlockOrCreate(i, "save", n, label)
    /\ UNCHANGED <<prefs, vault, keys, faults>>

\* `id relabel' of a saved entry, unless it has that label already.
Relabel(i, n, label) ==
    /\ Ready(i) /\ Saved(n) /\ vault.entries[n].label # label
    /\ UnlockOrCreate(i, "relabel", n, label)
    /\ UNCHANGED <<prefs, vault, keys, faults>>

\* `id rm' of a saved entry, confirmed.
Remove(i, n) ==
    /\ Ready(i) /\ Saved(n)
    /\ UnlockOrCreate(i, "remove", n, n)
    /\ UNCHANGED <<prefs, vault, keys, faults>>

\* CreateIdentity: refused when a key exists, or when entries do.  An
\* unreadable vault.yaml counts as no entries.
CreateRefused == prefs.key # None \/ (vault.ok /\ vault.entries # NoEntries)

CreateIdentity(i) ==
    /\ job[i].pc = "create"
    /\ IF ~prefs.ok \/ CreateRefused THEN Ends(i) /\ UNCHANGED keys
       ELSE /\ keys < MaxKeys /\ keys' = keys + 1
            /\ job' = [job EXCEPT ![i].pc = "save prefs", ![i].key = keys + 1,
                                  ![i].p = [prefs EXCEPT !.key = keys + 1]]
    /\ UNCHANGED <<prefs, vault, faults>>

\* A missing key or a wrong password is an error.
Unlock(i) ==
    /\ job[i].pc = "unlock"
    /\ \/ Ends(i)
       \/ prefs.key # None /\ job' = [job EXCEPT ![i].pc = "entries", ![i].key = prefs.key]
    /\ UNCHANGED <<prefs, vault, keys, faults>>

----------------------------------------------------------------------------
\* AddEntry, RelabelEntry and RemoveEntry on the entries as loaded now; a
\* repeated key or a label another entry has is an error.
Taken(es, n, label) == \E m \in DOMAIN es \ {n} : es[m].label = label

Refused(j, es) ==
    CASE j.op = "save"    -> j.n \in DOMAIN es \/ Taken(es, j.n, j.label)
      [] j.op = "relabel" -> j.n \notin DOMAIN es \/ Taken(es, j.n, j.label)
      [] j.op = "remove"  -> j.n \notin DOMAIN es

Rewritten(j, es) ==
    CASE j.op = "save"    -> [m \in DOMAIN es \cup {j.n} |->
                                IF m = j.n THEN [label |-> j.label, key |-> j.key] ELSE es[m]]
      [] j.op = "relabel" -> [es EXCEPT ![j.n].label = j.label]
      [] j.op = "remove"  -> [m \in DOMAIN es \ {j.n} |-> es[m]]

LoadEntries(i) ==
    /\ job[i].pc = "entries"
    /\ IF ~vault.ok \/ Refused(job[i], vault.entries) THEN Ends(i)
       ELSE job' = [job EXCEPT ![i].pc = "save vault", ![i].es = Rewritten(job[i], vault.entries)]
    /\ UNCHANGED <<prefs, vault, keys, faults>>

TruncateVault(i) ==
    /\ job[i].pc = "save vault"
    /\ vault' = BlankVault
    /\ Goes(i, "write vault")
    /\ UNCHANGED <<prefs, keys, faults>>

WriteVault(i) ==
    /\ job[i].pc = "write vault"
    /\ vault' = [ok |-> TRUE, entries |-> job[i].es]
    /\ Ends(i)
    /\ UNCHANGED <<prefs, keys, faults>>

\* The process is killed: between truncating and writing the file stays
\* blank, or holds a part that does not parse.
Killed(i) ==
    /\ faults < MaxFaults /\ faults' = faults + 1
    /\ job[i].pc # "idle" /\ Ends(i)
    /\ prefs' \in {prefs} \cup (IF job[i].pc = "write prefs" THEN {[Blank EXCEPT !.ok = FALSE]} ELSE {})
    /\ vault' \in {vault} \cup (IF job[i].pc = "write vault" THEN {[BlankVault EXCEPT !.ok = FALSE]} ELSE {})
    /\ UNCHANGED keys

Rewrite(i) ==
    \/ "prefs" \in Rewrites /\ (RelaysCommand(i) \/ ServersCommand(i) \/ ContextCommand(i))
    \/ \E n \in Npubs : \E l \in Labels \cup {n} : Save(i, n, l) \/ Import(i, n, l) \/ Relabel(i, n, l)
    \/ \E n \in Npubs : Remove(i, n)
    \/ TruncatePrefs(i) \/ WritePrefs(i) \/ CreateIdentity(i) \/ Unlock(i)
    \/ LoadEntries(i) \/ TruncateVault(i) \/ WriteVault(i) \/ Killed(i)

----------------------------------------------------------------------------
(* Commands that use an identity *)

\* FindEntry: an entry's label comes before its key.
Labelled(l) == {n \in DOMAIN vault.entries : vault.entries[n].label = l}

Find(l) == IF Labelled(l) # {} THEN Labelled(l) ELSE {l} \cap DOMAIN vault.entries

\* ResolveIdentifier: whom a label, a key in any of its shapes or a NIP-05
\* address stands for; nobody for anything else.
NamedBy(x) == CASE x.kind \in {"label", "npub"} /\ Labelled(x.of) # {} -> Labelled(x.of)
                [] x.kind \in {"npub", "nsec", "nip05"} -> {x.of}
                [] OTHER -> {}

\* ResolveNip05: the domain may not answer, or name no valid key.
Unanswered(x) == x.kind = "nip05"

Sets(s, u) == use' = [use EXCEPT ![s] = u] /\ UNCHANGED <<docs, uses, faults>>
Over(u, res) == [u EXCEPT !.pc = "done", !.res = res]

\* ResolveIdentityOptional: an identity nobody asked for is given up silently.
Failed(u) == Over(u, IF u.op = "read" /\ ~u.named THEN "anonymous" ELSE "refused")

\* What follows the identity; only mine goes on without a private key.
WithKey(u) ==
    IF u.key = NoOne /\ u.op # "mine" THEN Failed(u)
    ELSE CASE u.op = "mine"    -> [u EXCEPT !.pc = "mine"]
           [] u.op = "sign"    -> [u EXCEPT !.pc = "load"]
           [] u.op = "publish" -> [u EXCEPT !.pc = "sign"]
           [] OTHER            -> Over(u, "as")

\* An event: its author and how the author's key is spelled, what its id
\* was computed with, what its nonce was found for, and who signed it.
Note == [pub |-> NoPub, id |-> NoPub, work |-> NoPub, sig |-> NoOne]

\* nip01.Event.Sign: author and id are computed anew from the signing key.
Signed(e, n) == [e EXCEPT !.pub = <<n, "lower">>, !.id = <<n, "lower">>, !.sig = n]

\* nip13: the id that the event carries is the one its nonce was found for.
ValidatePow(e) == e.work # NoPub /\ e.id = e.work

\* strings.EqualFold
Conflicts(e, n) == e.pub # NoPub /\ e.pub[1] # n

\* mine's flags: an event file or inline content, and a file to write that
\* is the event's own (--in-place) or another.
MineArgs(in, out) == out \in Files /\ (in = "inline" => out # "draft")

Begins(s) == use[s].pc \in {"idle", "done"} /\ uses < MaxUses /\ uses' = uses + 1

Starts(s, u) == use' = [use EXCEPT ![s] = u] /\ UNCHANGED <<docs, faults>>

\* LoadDraftEvent: one event.
Draft(in) == IF in = "inline" THEN [array |-> FALSE, events |-> <<Note>>] ELSE docs[in]

\* mine loads its draft first; only unsigned ones are given to it.
BeginMine(s, x, in, out) ==
    LET d == Draft(in)
        u == [NoUse EXCEPT !.op = "mine", !.who = x, !.in = in, !.out = out]
    IN  /\ Begins(s) /\ MineArgs(in, out)
        /\ \A i \in DOMAIN d.events : d.events[i].sig = NoOne
        /\ Starts(s, IF d.array THEN Over(u, "refused")
                     ELSE [u EXCEPT !.draft = d.events, !.evs = d.events,
                                    !.pc = IF x = Nothing THEN "mine" ELSE "resolve"])

\* `id sign' needs an identity or a signer, and resolves it first.
BeginSign(s, x, in, out) ==
    /\ Begins(s) /\ x # Nothing
    /\ Starts(s, [NoUse EXCEPT !.op = "sign", !.who = x, !.in = in, !.out = out, !.pc = "resolve"])

\* LoadDraftEvents and LoadEvents: an event, or an array of them.
Loaded(u) == [u EXCEPT !.draft = docs[u.in].events, !.evs = docs[u.in].events, !.array = docs[u.in].array]

\* publish loads its events first; a file cut short to nothing holds none,
\* and otherwise does not parse.
BeginPublish(s, x, in) ==
    LET u == [Loaded([NoUse EXCEPT !.in = in]) EXCEPT !.op = "publish", !.who = x]
    IN  /\ Begins(s)
        /\ \/ Starts(s, [u EXCEPT !.pc = IF x = Nothing THEN "send" ELSE "resolve"])
           \/ docs[in] = Torn /\ Starts(s, Over(u, "refused"))

\* ResolveIdentity (join) and ResolveIdentityOptional (read): the flag, the
\* configuration, or the vault's only entry.
BeginLogin(s, op, x) ==
    /\ Begins(s)
    /\ Starts(s, [NoUse EXCEPT !.op = op, !.who = x, !.named = (x # Nothing),
                               !.pc = IF x = Nothing THEN "pick" ELSE "resolve"])

PickSole(s) ==
    LET u == use[s] IN
    /\ u.pc = "pick"
    /\ Sets(s, IF ~vault.ok THEN Over(u, "refused")
               ELSE IF Cardinality(DOMAIN vault.entries) = 1
               THEN [u EXCEPT !.pc = "resolve",
                              !.who = [kind |-> "label", of |-> LET n == CHOOSE n \in DOMAIN vault.entries : TRUE
                                                               IN vault.entries[n].label]]
               ELSE Failed(u))

\* ResolveSigner, which only `id sign' and publish go through.
Dials(u) == u.who.kind = "signer" /\ u.op \in {"sign", "publish"}

\* ResolveIdentifier and the first steps of ResolveSigningKey: an nsec is
\* its own private key, and only a saved identity has another.  The vault
\* must be readable whatever the input's shape.
Resolve(s) ==
    LET u == use[s] IN
    /\ u.pc = "resolve" /\ ~Dials(u)
    /\ \/ (~vault.ok \/ NamedBy(u.who) = {} \/ Unanswered(u.who)) /\ Sets(s, Failed(u))
       \/ /\ vault.ok
          /\ \E n \in NamedBy(u.who) :
                Sets(s, IF u.who.kind = "nsec" THEN WithKey([u EXCEPT !.npub = n, !.key = n])
                        ELSE IF Find(n) # {} THEN [u EXCEPT !.npub = n, !.pc = "unlock"]
                        ELSE WithKey([u EXCEPT !.npub = n]))

\* ... dials a socket signer or a bunker, which may not answer.
Dial(s) ==
    LET u == use[s] IN
    /\ u.pc = "resolve" /\ Dials(u)
    /\ Sets(s, Failed(u)) \/ Sets(s, WithKey([u EXCEPT !.npub = u.who.of, !.key = u.who.of]))

\* The password: from the environment or a terminal, missing or wrong.
UnlockToSign(s) ==
    LET u == use[s] IN
    /\ u.pc = "unlock"
    /\ \/ Sets(s, Failed(u))
       \/ prefs.ok /\ prefs.key # None /\ Sets(s, [u EXCEPT !.vkey = prefs.key, !.pc = "entry"])

\* Mutant: the second lookup goes by what the user typed.
EntryTyped(u) == Find(u.who.of)

\* The entry is read again, by the key that was resolved; it may be gone.
Entry(u) == Find(u.npub)

Decrypt(s) ==
    LET u == use[s]
        found == {n \in Entry(u) : vault.ok /\ vault.entries[n].key = u.vkey}
    IN  /\ u.pc = "entry"
        /\ IF found = {} THEN Sets(s, Failed(u)) ELSE \E n \in found : Sets(s, WithKey([u EXCEPT !.key = n]))

----------------------------------------------------------------------------
\* client.Mine: the identity fills an empty author; then the nonce.
Worked(e, npub) ==
    LET pub == IF e.pub = NoPub THEN <<npub, "lower">> ELSE e.pub
    IN  [e EXCEPT !.pub = pub, !.work = pub, !.id = pub]

Mine(s) ==
    LET u == use[s]
        e == Worked(u.evs[1], u.npub)
    IN  /\ u.pc = "mine"
        /\ IF \/ u.evs[1].pub = NoPub /\ u.npub = NoOne
              \/ u.npub # NoOne /\ Conflicts(u.evs[1], u.npub)
           THEN Sets(s, Failed(u))
           ELSE Sets(s, [u EXCEPT !.pc = "truncate", !.evs = <<IF u.key = NoOne THEN e ELSE Signed(e, u.key)>>])

LoadEvents(s) ==
    /\ use[s].pc = "load"
    /\ Sets(s, IF docs[use[s].in].events = <<>> THEN Failed(use[s]) ELSE [Loaded(use[s]) EXCEPT !.pc = "sign"])

\* `id sign' signs everything, signUnsigned only what has no signature;
\* every event is checked first, and a signer may refuse any of them.
ToSign(u) == {i \in DOMAIN u.evs : u.op = "sign" \/ u.evs[i].sig = NoOne}

SignAll(s) ==
    LET u == use[s] IN
    /\ u.pc = "sign"
    /\ \/ /\ u.who.kind = "signer" \/ \E i \in ToSign(u) : Conflicts(u.evs[i], u.key)
          /\ Sets(s, Failed(u))
       \/ /\ \A i \in ToSign(u) : ~Conflicts(u.evs[i], u.key)
          /\ Sets(s, [u EXCEPT !.pc = IF u.op = "sign" THEN "truncate" ELSE "send",
                               !.evs = [i \in DOMAIN u.evs |-> IF i \in ToSign(u) THEN Signed(u.evs[i], u.key)
                                                               ELSE u.evs[i]]])

\* os.WriteFile; one event is written as it was read, alone or in an array.
TruncateOut(s) ==
    /\ use[s].pc = "truncate"
    /\ docs' = [docs EXCEPT ![use[s].out] = Torn]
    /\ use' = [use EXCEPT ![s].pc = "write"]
    /\ UNCHANGED <<uses, faults>>

WriteOut(s) ==
    LET u == use[s] IN
    /\ u.pc = "write"
    /\ docs' = [docs EXCEPT ![u.out] = [array |-> u.array, events |-> u.evs]]
    /\ use' = [use EXCEPT ![s] = Over(u, "written")]
    /\ UNCHANGED <<uses, faults>>

\* The events go to PublishToTargets (Targets), if there are any targets.
Send(s) == use[s].pc = "send" /\ \E res \in {"sent", "refused"} : Sets(s, Over(use[s], res))

\* SIGINT while it mines, or the process is killed.
Stopped(s) ==
    /\ use[s].pc \notin {"idle", "done"} /\ faults < MaxFaults
    /\ faults' = faults + 1
    /\ use' = [use EXCEPT ![s] = Over(use[s], "killed")]
    /\ UNCHANGED <<docs, uses>>

UseStep(s) ==
    \/ \E x \in Identities \cup {Nothing} :
          \/ "mine" \in Uses /\ \E in \in {"inline", "draft"}, out \in Files : BeginMine(s, x, in, out)
          \/ "sign" \in Uses /\ \E in, out \in Files : BeginSign(s, x, in, out)
          \/ "publish" \in Uses /\ \E in \in Files : BeginPublish(s, x, in)
          \/ \E op \in Uses \cap {"join", "read"} : BeginLogin(s, op, x)
    \/ PickSole(s) \/ Resolve(s) \/ Dial(s) \/ UnlockToSign(s) \/ Decrypt(s)
    \/ LoadEvents(s) \/ Mine(s) \/ SignAll(s)
    \/ TruncateOut(s) \/ WriteOut(s) \/ Send(s) \/ Stopped(s)

Next == \/ \E i \in Procs : Rewrite(i) /\ UNCHANGED using
        \/ \E s \in Users : UseStep(s) /\ UNCHANGED stores

Spec == Init /\ [][Next]_vars

----------------------------------------------------------------------------
AtRest == \A i \in Procs : job[i].pc = "idle"

(***************************************************************************)
(* The key in prefs.yaml opens every saved identity: whatever was killed   *)
(* in the middle, no command puts a new vault key beside identities saved  *)
(* with another (CreateIdentity, ErrVaultKeyMissing: "a new key would      *)
(* orphan them, so nothing creates one").                                  *)
(***************************************************************************)
NoOrphans == prefs.key # None => \A n \in DOMAIN vault.entries : vault.entries[n].key = prefs.key

(***************************************************************************)
(* Commands run one after the other never lose the vault key while         *)
(* identities are saved, whatever they are about (prefsRelaysClearCmd:     *)
(* "with the vault key gone, every saved identity is unrecoverable").      *)
(***************************************************************************)
KeyOutlivesCommands == (AtRest /\ faults = 0 /\ vault.entries # NoEntries) => prefs.key # None

(***************************************************************************)
(* A label names one identity, also after relabelling and after a command  *)
(* was killed halfway through a rewrite of the entries (AddEntry,          *)
(* RelabelEntry, FindEntry).                                               *)
(***************************************************************************)
LabelNamesOne == \A m, n \in DOMAIN vault.entries :
                     vault.entries[m].label = vault.entries[n].label => m = n

Ended(u) == u.pc = "done" /\ u.res \in {"written", "sent"}

(***************************************************************************)
(* Events are signed as the identity the command named when it started,    *)
(* and as the author the draft names, although labels move and identities  *)
(* go between the two reads of the vault (ResolveSigningKey: "vault entry  *)
(* disappeared during signing"; Mine, idSignCmd, signUnsigned).  It fails  *)
(* when an identity is saved under the npub of another, which AddEntry     *)
(* does not refuse (ResolveIdentifier: "labels can't collide with npub1's  *)
(* bech32 prefix"): FindEntry takes the label first.                       *)
(***************************************************************************)
SignedAsNamed ==
    \A s \in Users : LET u == use[s] IN
        /\ u.key # NoOne => u.key = u.npub
        /\ Ended(u) => \A i \in DOMAIN u.evs :
                          /\ u.draft[i].pub # NoPub => u.evs[i].pub[1] = u.draft[i].pub[1]
                          /\ u.op = "sign" => u.evs[i].sig = u.npub

(***************************************************************************)
(* An identity that was named by a flag or the configuration is used, or   *)
(* the command fails: it never goes on without one                         *)
(* (ResolveIdentityOptional: "silently dropping a typo'd --identity would  *)
(* be worse than erroring on one").                                        *)
(***************************************************************************)
NeverDropped == \A s \in Users : use[s].named => use[s].res # "anonymous"

(***************************************************************************)
(* Work once done is kept: what mine writes, and what id sign or publish   *)
(* make of a mined event, still passes `miner check' (MineOptions: "as     *)
(* long as the pubkey matches what was mined, the recomputed ID equals the *)
(* mined one and no re-mining is needed").  It fails for a draft whose     *)
(* pubkey is spelled in capitals: EqualFold takes it for the identity's,   *)
(* the nonce is found for that spelling, and signing spells it anew.       *)
(***************************************************************************)
WorkKept ==
    \A s \in Users : LET u == use[s] IN
        Ended(u) => \A i \in DOMAIN u.evs : u.op = "mine" \/ ValidatePow(u.draft[i]) => ValidatePow(u.evs[i])
=============================================================================
