------------------------------ MODULE ListEdit ------------------------------
(***************************************************************************)
(* `ncli profile set', `follow', `unfollow', `mute', `unmute' and `relays  *)
(* set' (cli/ncli/profile_write.go): read the author's current version of  *)
(* a replaceable event from every relay, change it, sign a newer one and   *)
(* publish it to the same relays.  A relay keeps the version with the      *)
(* later created_at, the lower id on a tie.                                *)
(***************************************************************************)
EXTENDS Naturals, FiniteSets

CONSTANTS Clients,   \* commands of one author, on one or more machines
          Relays, Items,
          MaxClock,  \* bound: the wall clock, which may also be set back
          MaxAt      \* bound: created_at

None == [items |-> {}, at |-> 0, id |-> 0]

VARIABLES held,      \* [Relays -> the version each relay keeps, or None]
          cmd,       \* [Clients -> command under way]
          clock,
          want       \* history: the edits that reached a relay, in order

vars == <<held, cmd, clock, want>>

Idle == [pc |-> "idle", op |-> "none", x |-> {}, create |-> FALSE, empty |-> FALSE,
         left |-> {}, failed |-> FALSE, old |-> None, next |-> None, out |-> FALSE]

Init == /\ held = [r \in Relays |-> None]
        /\ cmd = [c \in Clients |-> Idle]
        /\ clock = 1 /\ want = {}

Newer(v, w) == v.at > w.at \/ (v.at = w.at /\ v.id < w.id)
Newest(v, w) == IF Newer(v, w) THEN v ELSE w

\* A command starts; --create and --allow-empty are its flags.
Begin(c, op, x, create, empty) ==
    /\ cmd[c].pc = "idle"
    /\ cmd' = [cmd EXCEPT ![c] = [Idle EXCEPT !.pc = "read", !.op = op, !.x = x, !.left = Relays,
                                              !.create = create, !.empty = empty]]
    /\ UNCHANGED <<held, clock, want>>

\* One relay answers the read, or fails it (an error, or CLOSED: restricted).
Answers(c, r) ==
    /\ cmd[c].pc = "read" /\ r \in cmd[c].left
    /\ cmd' = [cmd EXCEPT ![c].left = @ \ {r}, ![c].old = Newest(held[r], @)]
    /\ UNCHANGED <<held, clock, want>>

ReadFails(c, r) ==
    /\ cmd[c].pc = "read" /\ r \in cmd[c].left
    /\ cmd' = [cmd EXCEPT ![c].left = @ \ {r}, ![c].failed = TRUE]
    /\ UNCHANGED <<held, clock, want>>

\* The change: people or fields added or removed, or the list replaced.
Edited(op, x, items) == CASE op = "add"    -> items \cup x
                          [] op = "remove" -> items \ x
                          [] op = "set"    -> x

\* currentReplaceable refuses unless every relay answered; replaceOne
\* without a current version unless --create; a change of nothing publishes
\* nothing; removing the last person needs --allow-empty.
RefusedUnread(k) ==
    \/ k.old = None /\ ~k.create
    \/ Edited(k.op, k.x, k.old.items) = k.old.items
    \/ k.op = "remove" /\ k.old.items \subseteq k.x /\ ~k.empty

Refused(k) ==
    \/ k.failed
    \/ k.old = None /\ ~k.create
    \/ Edited(k.op, k.x, k.old.items) = k.old.items
    \/ k.op = "remove" /\ k.old.items \subseteq k.x /\ ~k.empty

\* A replacement is newer than what it replaces, whatever the clock says.
StampNow(old) == clock

Stamp(old) == IF old # None /\ clock <= old.at THEN old.at + 1 ELSE clock

Build(c, id) ==
    /\ cmd[c].pc = "read" /\ cmd[c].left = {}
    /\ IF Refused(cmd[c]) THEN cmd' = [cmd EXCEPT ![c] = Idle]
       ELSE /\ Stamp(cmd[c].old) <= MaxAt
            /\ cmd' = [cmd EXCEPT ![c].pc = "publish", ![c].left = Relays,
                           ![c].next = [items |-> Edited(cmd[c].op, cmd[c].x, cmd[c].old.items),
                                        at |-> Stamp(cmd[c].old), id |-> id]]
    /\ UNCHANGED <<held, clock, want>>

Rest(c, r) == IF cmd[c].left = {r} THEN Idle ELSE [cmd[c] EXCEPT !.left = @ \ {r}]

\* One relay stores the event; the first one to do so makes the edit real.
Stores(c, r) ==
    /\ cmd[c].pc = "publish" /\ r \in cmd[c].left
    /\ held' = [held EXCEPT ![r] = Newest(cmd[c].next, @)]
    /\ want' = IF cmd[c].out THEN want ELSE Edited(cmd[c].op, cmd[c].x, want)
    /\ cmd' = [cmd EXCEPT ![c] = IF cmd[c].left = {r} THEN Idle ELSE [Rest(c, r) EXCEPT !.out = TRUE]]
    /\ UNCHANGED clock

PublishFails(c, r) ==
    /\ cmd[c].pc = "publish" /\ r \in cmd[c].left
    /\ cmd' = [cmd EXCEPT ![c] = Rest(c, r)]
    /\ UNCHANGED <<held, clock, want>>

\* SIGINT: whatever was not published yet never is.
Interrupted(c) ==
    /\ cmd[c].pc # "idle"
    /\ cmd' = [cmd EXCEPT ![c] = Idle]
    /\ UNCHANGED <<held, clock, want>>

ClockMoves == clock' \in 1..MaxClock /\ clock' # clock /\ UNCHANGED <<held, cmd, want>>

Next == \/ ClockMoves
        \/ \E c \in Clients :
              \/ \E op \in {"add", "remove"}, i \in Items, create, empty \in BOOLEAN : Begin(c, op, {i}, create, empty)
              \/ \E x \in SUBSET Items \ {{}}, create \in BOOLEAN : Begin(c, "set", x, create, FALSE)
              \/ \E r \in Relays : Answers(c, r) \/ ReadFails(c, r) \/ Stores(c, r) \/ PublishFails(c, r)
              \/ \E id \in 1..2 : Build(c, id)
              \/ Interrupted(c)

Spec == Init /\ [][Next]_vars

----------------------------------------------------------------------------
Current == LET v == CHOOSE v \in {held[r] : r \in Relays} :
                      \A w \in {held[r] : r \in Relays} : v = w \/ Newer(v, w)
           IN v.items

(***************************************************************************)
(* No edit is lost: with every command over, the newest version on the     *)
(* relays holds exactly the edits that reached one, in the order they did, *)
(* however publishes failed part way, reads failed, or the clock was set   *)
(* back (listCommand: "every other entry ... is kept", "so a list is never *)
(* rebuilt from a stale copy").                                            *)
(***************************************************************************)
NoEditLost == (\A c \in Clients : cmd[c].pc = "idle") => Current = want
=============================================================================
