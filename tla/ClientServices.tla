---------------------------- MODULE ClientServices ----------------------------
(***************************************************************************)
(* What a user's commands do with relays: the edit of a list, a session    *)
(* with one relay, a command over several targets, and a negentropy sync.  *)
(* Each is proved correct for any relays, events, programs and bounds;     *)
(* then they are put together, with part naming the one that runs.  The    *)
(* variables two of them share by name are whoever's that is.              *)
(***************************************************************************)
EXTENDS Integers, Sequences, TLAPS

-----------------------------------------------------------------------------
(* ListEdit: the newest version on the relays                              *)

CONSTANTS Clients, Relays, Items, MaxClock, MaxAt
VARIABLES held, cmd, clock, want

L == INSTANCE ListEdit

\* One author's commands do not overlap, and there is a relay to write to
\* (replaceOne asks for relays before it reads).
ListAssumption == Relays # {} /\ \A c, d \in Clients : c = d

Versions == [items : SUBSET Items, at : Nat, id : Nat]

ListCommands == [pc : {"idle", "read", "publish"}, op : {"none", "add", "remove", "set"}, x : SUBSET Items,
             create : BOOLEAN, empty : BOOLEAN, left : SUBSET Relays, failed : BOOLEAN,
             old : Versions, next : Versions, out : BOOLEAN]

AtLeast(v, w) == v = w \/ L!Newer(v, w)

\* v is what a reader of every relay ends up with.
Top(v) == (\E r \in Relays : held[r] = v) /\ \A r \in Relays : AtLeast(v, held[r])

\* What a command has read so far is the newest of the relays that answered.
ReadInv(k) ==
  k.pc = "read" =>
    /\ k.op # "none" /\ ~k.out
    /\ ~k.failed => \A r \in Relays \ k.left : AtLeast(k.old, held[r])
    /\ k.old = L!None \/ \E r \in Relays : held[r] = k.old

\* What it publishes is newer than anything a relay holds, and is the edit of
\* the newest; once one relay has it, it is the newest.
PublishInv(k) ==
  k.pc = "publish" =>
    /\ k.op # "none" /\ k.next.at >= 1
    /\ ~k.out => k.next.items = L!Edited(k.op, k.x, want) /\ \A r \in Relays : L!Newer(k.next, held[r])
    /\ k.out => k.next.items = want /\ Top(k.next)

ListInv ==
  /\ held \in [Relays -> Versions] /\ cmd \in [Clients -> ListCommands]
  /\ clock \in Nat \ {0} /\ want \in SUBSET Items
  /\ \A r \in Relays : held[r] = L!None \/ held[r].at >= 1
  /\ \A r, s \in Relays : AtLeast(held[r], held[s]) \/ AtLeast(held[s], held[r])
  /\ \E v \in Versions : Top(v) /\ v.items = want
  /\ \A c \in Clients : ReadInv(cmd[c]) /\ PublishInv(cmd[c])

\* Newer is a strict order on versions, and Newest one of the two (newest).
LEMMA NewerOrder ==
  ASSUME NEW u \in Versions, NEW v \in Versions, NEW w \in Versions
  PROVE  /\ AtLeast(u, u)
         /\ AtLeast(u, v) /\ AtLeast(v, w) => AtLeast(u, w)
         /\ AtLeast(u, v) /\ AtLeast(v, u) => u = v
         /\ AtLeast(u, v) /\ L!Newer(w, u) => L!Newer(w, v)
         /\ L!Newest(u, v) \in {u, v}
         /\ AtLeast(v, w) => AtLeast(L!Newest(u, v), w)
BY DEF Versions, AtLeast, L!Newer, L!Newest

\* The newest of two is at least each, where no two versions tie.
LEMMA NewestAtLeast ==
  ASSUME NEW u \in Versions, NEW v \in Versions, L!Newer(u, v) \/ AtLeast(v, u)
  PROVE  AtLeast(L!Newest(u, v), u) /\ AtLeast(L!Newest(u, v), v)
BY DEF Versions, AtLeast, L!Newer, L!Newest

\* A relay without the list holds the empty version.
LEMMA NoneVersion == L!None \in Versions /\ L!None.items = {} /\ L!None.at = 0 /\ L!None.id = 0
BY DEF L!None, Versions

\* A command that is over is a command.
LEMMA IdleCommand == L!Idle \in ListCommands /\ L!Idle.pc = "idle"
<1>1. L!Idle.pc = "idle" /\ L!Idle.op = "none" /\ L!Idle.old = L!None /\ L!Idle.next = L!None
  BY DEF L!Idle
<1>. QED
  BY <1>1, NoneVersion DEF L!Idle, ListCommands

\* An edit is about the items there are.
LEMMA EditedTyped ==
  ASSUME NEW op \in {"add", "remove", "set"}, NEW x \in SUBSET Items, NEW was \in SUBSET Items
  PROVE  L!Edited(op, x, was) \in SUBSET Items
BY DEF L!Edited

\* A step of the only command there is, that leaves the relays alone.
LEMMA CommandStep ==
  ASSUME ListAssumption, ListInv, NEW c \in Clients, NEW k \in ListCommands,
         cmd' = [cmd EXCEPT ![c] = k], UNCHANGED <<held, clock, want>>,
         ReadInv(k), PublishInv(k)
  PROVE  ListInv'
<1>1. cmd' \in [Clients -> ListCommands] /\ \A d \in Clients : cmd'[d] = k
  BY DEF ListAssumption, ListInv
<1>2. \A v : Top(v)' <=> Top(v)
  BY DEF Top
<1>3. ReadInv(k)' <=> ReadInv(k)
  BY DEF ReadInv
<1>4. PublishInv(k)' <=> PublishInv(k)
  BY <1>2 DEF PublishInv
<1>. QED
  BY <1>1, <1>2, <1>3, <1>4 DEF ListInv

\* A command that is over, or starts, knows nothing.
LEMMA EndsStep ==
  ASSUME ListAssumption, ListInv, NEW c \in Clients, cmd' = [cmd EXCEPT ![c] = L!Idle],
         UNCHANGED <<held, clock, want>>
  PROVE  ListInv'
<1>1. ReadInv(L!Idle) /\ PublishInv(L!Idle)
  BY IdleCommand DEF ReadInv, PublishInv
<1>. QED
  BY <1>1, IdleCommand, CommandStep

\* A command begins with no relay read (replaceOne).
LEMMA BeginStep ==
  ASSUME ListAssumption, ListInv, NEW c \in Clients, NEW op \in {"add", "remove", "set"},
         NEW x \in SUBSET Items, NEW create \in BOOLEAN, NEW empty \in BOOLEAN, L!Begin(c, op, x, create, empty)
  PROVE  ListInv'
<1>. DEFINE k == [L!Idle EXCEPT !.pc = "read", !.op = op, !.x = x, !.left = Relays,
                                !.create = create, !.empty = empty]
<1>1. /\ k \in ListCommands /\ k.pc = "read" /\ k.op = op /\ k.left = Relays /\ k.old = L!Idle.old
      /\ k.out = L!Idle.out
  BY IdleCommand DEF ListCommands
<1>2. L!Idle.old = L!None /\ ~L!Idle.out
  BY DEF L!Idle
<1>3. cmd' = [cmd EXCEPT ![c] = k] /\ UNCHANGED <<held, clock, want>>
  BY DEF L!Begin
<1>. HIDE DEF k
<1>4. ReadInv(k) /\ PublishInv(k)
  BY <1>1, <1>2 DEF ReadInv, PublishInv
<1>. QED
  BY <1>1, <1>3, <1>4, CommandStep

\* The newest version among the answers so far (currentReplaceable).
LEMMA AnswersStep ==
  ASSUME ListAssumption, ListInv, NEW c \in Clients, NEW r \in Relays, L!Answers(c, r)
  PROVE  ListInv'
<1>. DEFINE old == cmd[c].old
            new == L!Newest(held[r], old)
            k == [cmd[c] EXCEPT !.left = @ \ {r}, !.old = new]
<1>1. cmd[c] \in ListCommands /\ cmd[c].pc = "read" /\ ReadInv(cmd[c]) /\ held[r] \in Versions
  BY DEF ListInv, L!Answers
<1>2. old \in Versions
  BY <1>1 DEF ListCommands
<1>3. new \in Versions /\ new \in {held[r], old}
  BY <1>1, <1>2, NewerOrder
<1>4. L!Newer(held[r], old) \/ AtLeast(old, held[r])
  <2>1. CASE old = L!None
    <3>1. held[r] = L!None \/ held[r].at >= 1
      BY DEF ListInv
    <3>2. held[r].at >= 1 => L!Newer(held[r], L!None)
      BY <1>1, NoneVersion DEF L!Newer, Versions
    <3>. QED
      BY <2>1, <3>1, <3>2 DEF AtLeast
  <2>2. CASE old # L!None
    <3>1. PICK s \in Relays : held[s] = old
      BY <1>1, <2>2 DEF ReadInv
    <3>. QED
      BY <3>1 DEF ListInv, AtLeast
  <2>. QED
    BY <2>1, <2>2
<1>5. AtLeast(new, held[r]) /\ AtLeast(new, old)
  BY <1>1, <1>2, <1>4, NewestAtLeast
<1>. HIDE DEF new
<1>6. /\ k \in ListCommands /\ k.pc = "read" /\ k.op = cmd[c].op /\ k.left = cmd[c].left \ {r}
      /\ k.old = new /\ k.failed = cmd[c].failed /\ k.out = cmd[c].out
  BY <1>1, <1>3 DEF ListCommands
<1>7. cmd' = [cmd EXCEPT ![c] = k] /\ UNCHANGED <<held, clock, want>>
  BY DEF L!Answers, new
<1>. HIDE DEF k
<1>8. ASSUME ~k.failed, NEW s \in Relays \ k.left PROVE AtLeast(new, held[s])
  <2>1. CASE s = r
    BY <1>5, <2>1
  <2>2. CASE s # r
    <3>1. AtLeast(old, held[s]) /\ held[s] \in Versions
      BY <1>1, <1>6, <1>8, <2>2 DEF ReadInv, ListInv
    <3>. QED
      BY <1>2, <1>3, <1>5, <3>1, NewerOrder
  <2>. QED
    BY <2>1, <2>2
<1>9. new = L!None \/ \E s \in Relays : held[s] = new
  BY <1>1, <1>3 DEF ReadInv
<1>10. ReadInv(k) /\ PublishInv(k)
  BY <1>1, <1>6, <1>8, <1>9 DEF ReadInv, PublishInv
<1>. QED
  BY <1>6, <1>7, <1>10, CommandStep

\* A relay that does not answer makes the read a failed one.
LEMMA ReadFailsStep ==
  ASSUME ListAssumption, ListInv, NEW c \in Clients, NEW r \in Relays, L!ReadFails(c, r)
  PROVE  ListInv'
<1>. DEFINE k == [cmd[c] EXCEPT !.left = @ \ {r}, !.failed = TRUE]
<1>1. cmd[c] \in ListCommands /\ cmd[c].pc = "read" /\ ReadInv(cmd[c])
  BY DEF ListInv, L!ReadFails
<1>2. /\ k \in ListCommands /\ k.pc = "read" /\ k.op = cmd[c].op /\ k.old = cmd[c].old /\ k.failed
      /\ k.out = cmd[c].out
  BY <1>1 DEF ListCommands
<1>3. cmd' = [cmd EXCEPT ![c] = k] /\ UNCHANGED <<held, clock, want>>
  BY DEF L!ReadFails
<1>. HIDE DEF k
<1>4. ReadInv(k) /\ PublishInv(k)
  BY <1>1, <1>2 DEF ReadInv, PublishInv
<1>. QED
  BY <1>2, <1>3, <1>4, CommandStep

\* Whoever read every relay holds the newest version there is.
LEMMA AllReadIsTop ==
  ASSUME ListAssumption, ListInv, NEW k \in ListCommands, ReadInv(k), k.pc = "read", k.left = {}, ~k.failed
  PROVE  Top(k.old) /\ k.old.items = want
<1>1. k.old \in Versions /\ \A r \in Relays : AtLeast(k.old, held[r])
  BY DEF ReadInv, ListCommands
<1>2. Top(k.old)
  <2>1. CASE k.old = L!None
    <3>1. PICK r \in Relays : TRUE
      BY DEF ListAssumption
    <3>2. AtLeast(L!None, held[r]) /\ held[r] \in Versions /\ (held[r] = L!None \/ held[r].at >= 1)
      BY <1>1, <2>1 DEF ListInv
    <3>3. held[r] = L!None
      BY <3>2, NoneVersion DEF AtLeast, L!Newer, Versions
    <3>. QED
      BY <1>1, <2>1, <3>3 DEF Top
  <2>2. CASE k.old # L!None
    BY <1>1, <2>2 DEF ReadInv, Top
  <2>. QED
    BY <2>1, <2>2
<1>3. PICK v \in Versions : Top(v) /\ v.items = want
  BY DEF ListInv
<1>4. AtLeast(v, k.old) /\ AtLeast(k.old, v)
  BY <1>2, <1>3 DEF Top
<1>. QED
  BY <1>1, <1>2, <1>3, <1>4, NewerOrder

\* A replacement is newer than all it was computed from (publishReplaceable's stamp).
LEMMA BuildStep ==
  ASSUME ListAssumption, ListInv, NEW c \in Clients, NEW id \in 1..2, L!Build(c, id)
  PROVE  ListInv'
<1>1. cmd[c] \in ListCommands /\ cmd[c].pc = "read" /\ cmd[c].left = {} /\ ReadInv(cmd[c])
  BY DEF ListInv, L!Build
<1>2. CASE L!Refused(cmd[c])
  BY <1>2, EndsStep DEF L!Build
<1>3. CASE ~L!Refused(cmd[c])
  <2>. DEFINE old == cmd[c].old
              new == [items |-> L!Edited(cmd[c].op, cmd[c].x, old.items), at |-> L!Stamp(old), id |-> id]
              k == [cmd[c] EXCEPT !.pc = "publish", !.left = Relays, !.next = new]
  <2>1. ~cmd[c].failed
    BY <1>3 DEF L!Refused
  <2>2. Top(old) /\ old.items = want /\ old \in Versions
    BY <1>1, <2>1, AllReadIsTop DEF ListCommands
  <2>3. L!Stamp(old) \in Nat /\ L!Stamp(old) >= 1 /\ L!Stamp(old) > old.at
    <3>1. old.at \in Nat /\ clock \in Nat /\ clock >= 1
      BY <2>2 DEF Versions, ListInv
    <3>. QED
      BY <3>1, NoneVersion DEF L!Stamp
  <2>4. cmd[c].op \in {"add", "remove", "set"} /\ cmd[c].x \in SUBSET Items /\ want \in SUBSET Items
    BY <1>1 DEF ReadInv, ListCommands, ListInv
  <2>5. /\ new \in Versions /\ new.items = L!Edited(cmd[c].op, cmd[c].x, want)
        /\ new.at = L!Stamp(old)
    <3>1. L!Edited(cmd[c].op, cmd[c].x, want) \in SUBSET Items
      BY <2>4, EditedTyped
    <3>2. id \in Nat
      OBVIOUS
    <3>. QED
      BY <2>2, <2>3, <3>1, <3>2 DEF Versions
  <2>6. cmd' = [cmd EXCEPT ![c] = k] /\ UNCHANGED <<held, clock, want>>
    BY <1>3 DEF L!Build
  <2>. HIDE DEF new
  <2>7. L!Newer(new, old)
    BY <2>2, <2>3, <2>5 DEF L!Newer, Versions
  <2>8. \A r \in Relays : L!Newer(new, held[r])
    BY <2>2, <2>5, <2>7, NewerOrder DEF Top, ListInv
  <2>9. /\ k \in ListCommands /\ k.pc = "publish" /\ k.op = cmd[c].op /\ k.x = cmd[c].x /\ k.next = new
        /\ k.out = cmd[c].out
    BY <1>1, <2>5 DEF ListCommands
  <2>. HIDE DEF k
  <2>10. ReadInv(k) /\ PublishInv(k)
    BY <1>1, <2>3, <2>5, <2>8, <2>9 DEF ReadInv, PublishInv
  <2>. QED
    BY <2>6, <2>9, <2>10, CommandStep
<1>. QED
  BY <1>2, <1>3

\* What is left of a command that is done with relay r, and has it out if o.
LEMMA RestTyped ==
  ASSUME ListInv, NEW c \in Clients, NEW r \in Relays, cmd[c].pc = "publish"
  PROVE  /\ L!Rest(c, r) \in ListCommands
         /\ L!Rest(c, r) = L!Idle \/ /\ L!Rest(c, r).pc = "publish" /\ L!Rest(c, r).op = cmd[c].op
                                     /\ L!Rest(c, r).x = cmd[c].x /\ L!Rest(c, r).next = cmd[c].next
                                     /\ L!Rest(c, r).out = cmd[c].out
<1>1. cmd[c] \in ListCommands
  BY DEF ListInv
<1>. QED
  BY <1>1, IdleCommand DEF L!Rest, ListCommands

\* A relay that does not take the new version keeps its own.
LEMMA PublishFailsStep ==
  ASSUME ListAssumption, ListInv, NEW c \in Clients, NEW r \in Relays, L!PublishFails(c, r)
  PROVE  ListInv'
<1>1. cmd[c].pc = "publish" /\ PublishInv(cmd[c])
  BY DEF ListInv, L!PublishFails
<1>2. ReadInv(L!Rest(c, r)) /\ PublishInv(L!Rest(c, r))
  BY <1>1, RestTyped, IdleCommand DEF ReadInv, PublishInv
<1>. QED
  BY <1>1, <1>2, RestTyped, CommandStep DEF L!PublishFails

\* The first relay to store the event makes its edit real, and it is the newest
\* there is from then on.
LEMMA StoresStep ==
  ASSUME ListAssumption, ListInv, NEW c \in Clients, NEW r \in Relays, L!Stores(c, r)
  PROVE  ListInv'
<1>. PICK next : next = cmd[c].next
  OBVIOUS
<1>. PICK k : k = IF cmd[c].left = {r} THEN L!Idle ELSE [L!Rest(c, r) EXCEPT !.out = TRUE]
  OBVIOUS
<1>1. cmd[c] \in ListCommands /\ cmd[c].pc = "publish" /\ PublishInv(cmd[c]) /\ next \in Versions /\ next.at >= 1
  BY DEF ListInv, L!Stores, ListCommands, PublishInv
<1>2. \A s \in Relays : held[s] \in Versions /\ AtLeast(next, held[s])
  BY <1>1 DEF PublishInv, AtLeast, Top, ListInv
<1>3. L!Newest(next, held[r]) = next
  BY <1>2 DEF L!Newest, AtLeast
<1>4. held' = [held EXCEPT ![r] = next] /\ held' \in [Relays -> Versions]
  BY <1>1, <1>3 DEF L!Stores, ListInv
<1>5. want' = next.items
  BY <1>1 DEF L!Stores, PublishInv
<1>6. Top(next)'
  BY <1>2, <1>4 DEF Top, AtLeast
<1>7. \A s \in Relays : held'[s] = L!None \/ held'[s].at >= 1
  BY <1>1, <1>4 DEF ListInv
<1>8. \A s, t \in Relays : AtLeast(held'[s], held'[t]) \/ AtLeast(held'[t], held'[s])
  BY <1>2, <1>4 DEF ListInv, AtLeast
<1>9. cmd' = [cmd EXCEPT ![c] = k] /\ clock' = clock
  BY DEF L!Stores
<1>10. k \in ListCommands /\ (k = L!Idle \/ (k.pc = "publish" /\ k.op = cmd[c].op /\ k.next = next /\ k.out))
  <2>1. CASE cmd[c].left = {r}
    BY <2>1, IdleCommand
  <2>2. CASE cmd[c].left # {r}
    <3>1. L!Rest(c, r) = [cmd[c] EXCEPT !.left = @ \ {r}]
      BY <2>2 DEF L!Rest
    <3>. QED
      BY <1>1, <2>2, <3>1 DEF ListCommands
  <2>. QED
    BY <2>1, <2>2
<1>11. cmd' \in [Clients -> ListCommands] /\ \A d \in Clients : cmd'[d] = k
  BY <1>9, <1>10 DEF ListAssumption, ListInv
<1>12. ReadInv(k)'
  BY <1>10, IdleCommand DEF ReadInv
<1>13. PublishInv(k)'
  <2>1. CASE k = L!Idle
    BY <2>1, IdleCommand DEF PublishInv
  <2>2. CASE k.pc = "publish" /\ k.op = cmd[c].op /\ k.next = next /\ k.out
    <3>. QED
      BY <1>1, <1>5, <1>6, <2>2 DEF PublishInv
  <2>. QED
    BY <1>10, <2>1, <2>2
<1>14. want' \in SUBSET Items
  BY <1>1, <1>5 DEF Versions
<1>15. \E v \in Versions : Top(v)' /\ v.items = want'
  BY <1>1, <1>5, <1>6
<1>. QED
  BY <1>4, <1>7, <1>8, <1>9, <1>11, <1>12, <1>13, <1>14, <1>15 DEF ListInv

\* Whatever fails, the newest version anywhere is what the last edit made.
LEMMA ListStep ==
  ASSUME ListAssumption, ListInv, [L!Next]_(L!vars)
  PROVE  ListInv'
<1>1. ASSUME UNCHANGED <<held, cmd, want>>, clock' \in Nat \ {0}
      PROVE  ListInv'
  <2>1. \A v : Top(v)' <=> Top(v)
    BY <1>1 DEF Top
  <2>2. \A c \in Clients : ReadInv(cmd[c])' <=> ReadInv(cmd[c])
    BY <1>1 DEF ReadInv
  <2>3. \A c \in Clients : PublishInv(cmd[c])' <=> PublishInv(cmd[c])
    BY <1>1, <2>1 DEF PublishInv
  <2>. QED
    BY <1>1, <2>1, <2>2, <2>3 DEF ListInv
<1>2. CASE L!ClockMoves
  BY <1>1, <1>2 DEF L!ClockMoves
<1>3. CASE UNCHANGED L!vars
  BY <1>1, <1>3 DEF L!vars, ListInv
<1>4. ASSUME NEW c \in Clients, NEW op \in {"add", "remove"}, NEW i \in Items, NEW create \in BOOLEAN,
             NEW empty \in BOOLEAN, L!Begin(c, op, {i}, create, empty)
      PROVE  ListInv'
  BY <1>4, BeginStep
<1>5. ASSUME NEW c \in Clients, NEW x \in SUBSET Items \ {{}}, NEW create \in BOOLEAN, L!Begin(c, "set", x, create, FALSE)
      PROVE  ListInv'
  BY <1>5, BeginStep
<1>6. ASSUME NEW c \in Clients, L!Interrupted(c)
      PROVE  ListInv'
  BY <1>6, EndsStep DEF L!Interrupted
<1>. QED
  BY <1>2, <1>3, <1>4, <1>5, <1>6, AnswersStep, ReadFailsStep, BuildStep, StoresStep, PublishFailsStep DEF L!Next

\* At first no relay holds the list.
LEMMA ListInit ==
  ASSUME ListAssumption, L!Init
  PROVE  ListInv
<1>1. /\ held = [r \in Relays |-> L!None] /\ cmd = [c \in Clients |-> L!Idle]
      /\ clock = 1 /\ want = {}
  BY DEF L!Init
<1>2. Top(L!None)
  BY <1>1 DEF ListAssumption, Top, AtLeast
<1>3. ReadInv(L!Idle) /\ PublishInv(L!Idle)
  BY IdleCommand DEF ReadInv, PublishInv
<1>. QED
  BY <1>1, <1>2, <1>3, NoneVersion, IdleCommand DEF ListInv, AtLeast

\* The relays' current version is the one there is (Current chooses it).
LEMMA ListKept ==
  ASSUME ListInv
  PROVE  L!NoEditLost
<1>1. PICK v \in Versions : Top(v) /\ v.items = want
  BY DEF ListInv
<1>. DEFINE H == {held[r] : r \in Relays}
            IsTop(u) == \A w \in H : u = w \/ L!Newer(u, w)
<1>2. v \in H /\ IsTop(v) /\ H \subseteq Versions
  BY <1>1 DEF Top, AtLeast, ListInv
<1>3. \A u \in H : IsTop(u) => u = v
  BY <1>2, NewerOrder DEF AtLeast
<1>4. (CHOOSE u \in H : IsTop(u)) = v
  <2>. HIDE DEF IsTop, H
  <2>. QED
    BY <1>2, <1>3
<1>. QED
  BY <1>1, <1>4 DEF L!NoEditLost, L!Current

\* No edit of a list is lost, however publishes failed part way, reads failed or
\* the clock was set back (listCommand, currentReplaceable, replaceOne).
THEOREM EditsKept ==
  ASSUME ListAssumption
  PROVE  L!Spec => []L!NoEditLost
<1>1. L!Init => ListInv
  BY ListInit
<1>2. ListInv /\ [L!Next]_(L!vars) => ListInv'
  BY ListStep
<1>3. ListInv => L!NoEditLost
  BY ListKept
<1>. QED
  BY <1>1, <1>2, <1>3, PTL DEF L!Spec

-----------------------------------------------------------------------------
(* Targets: what several targets answered                                  *)

CONSTANTS Commands, Lists, Posts
VARIABLES list, at, asked, answers, found, reached, anyRestricted, loginErr, report, saved, exit

T == INSTANCE Targets WITH Events <- Posts, i <- at

\* What a target may answer.
Outcomes == {"passed", "answered", "restricted", "unreachable", "deadline", "login", "error"}

\* The flags say what the targets answered, and the file is saved only with events.
TargetsInv ==
  /\ answers \in Seq(Outcomes)
  /\ T!Said("restricted") => anyRestricted
  /\ anyRestricted => reached
  /\ T!Said("login") => loginErr
  /\ reached => T!Said("answered") \/ T!Said("restricted")
  /\ loginErr \in BOOLEAN /\ reached \in BOOLEAN /\ anyRestricted \in BOOLEAN
  /\ exit = "running" => ~saved
  /\ T!EmptyIsHonest

\* An answer more is what was said before, and the answer.
LEMMA AnswerSaid ==
  ASSUME answers \in Seq(Outcomes), NEW a \in Outcomes, T!Answered(a)
  PROVE  /\ answers' \in Seq(Outcomes)
         /\ \A b \in Outcomes : T!Said(b)' <=> T!Said(b) \/ b = a
<1>1. /\ answers' \in Seq(Outcomes) /\ Len(answers') = Len(answers) + 1 /\ Len(answers) \in Nat
      /\ answers'[Len(answers) + 1] = a /\ \A k \in 1..Len(answers) : answers'[k] = answers[k]
  BY DEF T!Answered
<1>2. ASSUME NEW b \in Outcomes, NEW k \in 1..Len(answers'), answers'[k] = b
      PROVE  T!Said(b) \/ b = a
  <2>1. CASE k = Len(answers) + 1
    BY <1>1, <1>2, <2>1
  <2>2. CASE k \in 1..Len(answers)
    BY <1>1, <1>2, <2>2 DEF T!Said
  <2>. QED
    BY <1>1, <2>1, <2>2
<1>3. ASSUME NEW b \in Outcomes, T!Said(b) \/ b = a
      PROVE  \E k \in 1..Len(answers') : answers'[k] = b
  BY <1>1, <1>3 DEF T!Said
<1>. QED
  BY <1>1, <1>2, <1>3 DEF T!Said

\* A target that answers, is skipped, or ends the command sets the flag of its answer
\* (Find, mergeEventsFromTargets, PublishToTargets, Ping).
LEMMA TargetStep ==
  ASSUME TargetsInv,
         T!Pass \/ T!MergeTarget \/ T!FindTarget \/ T!TargetSkipped \/ T!TargetLogin \/ T!TargetError
             \/ T!PublishTarget \/ T!PublishSkips \/ T!PublishLocal \/ T!PingTarget
  PROVE  TargetsInv'
<1>. USE AnswerSaid DEF TargetsInv, T!EmptyIsHonest, Outcomes, T!Running, T!Live, T!Query
<1>1. CASE T!Pass
  BY <1>1 DEF T!Pass, T!Step
<1>2. CASE T!MergeTarget
  BY <1>2 DEF T!MergeTarget, T!TargetAnswers
<1>3. CASE T!FindTarget
  BY <1>3 DEF T!FindTarget, T!TargetAnswers
<1>4. CASE T!TargetSkipped
  BY <1>4 DEF T!TargetSkipped, T!DialFailed, T!Step
<1>5. CASE T!TargetLogin
  BY <1>5 DEF T!TargetLogin, T!Step
<1>6. CASE T!TargetError
  BY <1>6 DEF T!TargetError, T!Fatal
<1>7. CASE T!PublishTarget
  BY <1>7 DEF T!PublishTarget, T!Step
<1>8. CASE T!PublishSkips
  BY <1>8 DEF T!PublishSkips, T!DialFailed, T!Step
<1>9. CASE T!PublishLocal
  BY <1>9 DEF T!PublishLocal, T!Fatal
<1>10. CASE T!PingTarget
  BY <1>10 DEF T!PingTarget, T!DialFailed, T!Step
<1>. QED
  BY <1>1, <1>2, <1>3, <1>4, <1>5, <1>6, <1>7, <1>8, <1>9, <1>10

\* The verdict on an empty answer is the one the flags allow.
LEMMA EndStep ==
  ASSUME TargetsInv, T!MergeEnds \/ T!FindEnds \/ T!PublishEnds \/ T!PingEnds
  PROVE  TargetsInv'
<1>. USE DEF TargetsInv, T!EmptyIsHonest, Outcomes, T!Said, T!Over
<1>0. T!EmptyVerdict = "empty" => ~loginErr /\ (reached \/ list = <<>>) /\ ~anyRestricted
  BY DEF T!EmptyVerdict
<1>1. CASE T!MergeEnds
  <2>1. exit' = "empty" => T!EmptyVerdict = "empty"
    BY <1>1 DEF T!MergeEnds
  <2>. HIDE DEF T!EmptyVerdict
  <2>. QED
    BY <1>0, <1>1, <2>1 DEF T!MergeEnds
<1>2. CASE T!FindEnds
  <2>1. exit' = "empty" => T!EmptyVerdict = "empty" /\ ~saved'
    BY <1>2 DEF T!FindEnds
  <2>2. exit' # "running"
    BY <1>2 DEF T!FindEnds, T!EmptyVerdict
  <2>. QED
    BY <1>0, <1>2, <2>1, <2>2 DEF T!FindEnds
<1>3. CASE T!PublishEnds
  BY <1>3 DEF T!PublishEnds
<1>4. CASE T!PingEnds
  BY <1>4 DEF T!PingEnds
<1>. QED
  BY <1>1, <1>2, <1>3, <1>4

\* A step of a command over its targets keeps the flags true.
LEMMA TargetsStep == ASSUME TargetsInv, [T!Next]_(T!vars) PROVE TargetsInv'
<1>1. CASE UNCHANGED T!vars
  BY <1>1 DEF TargetsInv, T!EmptyIsHonest, T!Said, T!vars
<1>. QED
  BY <1>1, TargetStep, EndStep DEF T!Next

\* A command begins with no answers.
LEMMA TargetsInit == ASSUME T!Init PROVE TargetsInv
<1>1. answers = <<>> /\ answers \in Seq(Outcomes) /\ \A b \in Outcomes : ~T!Said(b)
  BY DEF T!Init, T!Said
<1>. QED
  BY <1>1 DEF T!Init, TargetsInv, T!EmptyIsHonest, Outcomes

\* An empty answer with exit 0 was given by a target that was asked, for any lists of
\* targets and events (Find, mergeEventsFromTargets).
THEOREM EmptyStaysHonest == T!Spec => []T!EmptyIsHonest
<1>1. T!Init => TargetsInv
  BY TargetsInit
<1>2. TargetsInv /\ [T!Next]_(T!vars) => TargetsInv'
  BY TargetsStep
<1>3. TargetsInv => T!EmptyIsHonest
  BY DEF TargetsInv
<1>. QED
  BY <1>1, <1>2, <1>3, PTL DEF T!Spec

-----------------------------------------------------------------------------
(* RelaySession: one relay, one login                                      *)

CONSTANTS Programs, Reads, Lives, Rejected, Needs, Guarded, Signers, MaxChallenges
VARIABLES ops, signer, member, pc, retried, before, signing, state, up, down, authed, stored,
          challenges, logins, results

S == INSTANCE RelaySession WITH Refused <- Rejected

Operations == UNION {{p[n] : n \in DOMAIN p} : p \in Programs}

\* A session runs publishes or one read, and no read is called as the login is.
SessionAssumption ==
  /\ Programs \subseteq Seq(Operations) \ {<<>>}
  /\ \A p \in Programs : \A n \in DOMAIN p : p[n] \in Reads => Len(p) = 1
  /\ "login" \notin Reads

Names == Operations \cup {"login", ""}
Messages == [kind : {"auth", "ok", "eose", "closed"}, of : Names, ok : BOOLEAN,
             why : {"", "auth-required", "restricted"}]

Results == {"accepted", "refused", "open", "login_error", "all", "anonymous", "deadline"}

SessionTypes ==
  /\ ops \in Programs /\ member \in BOOLEAN /\ signer \in Signers
  /\ at \in Nat \ {0} /\ (pc # "ended" => at \in DOMAIN ops)
  /\ pc \in {"start", "first", "ok", "req", "login", "ended"}
  /\ retried \in BOOLEAN /\ before \in BOOLEAN /\ authed \in BOOLEAN
  /\ up \in Seq(Names) /\ down \in Seq(Messages)
  /\ results \in Seq(Results)
  /\ Len(results) = at - 1
  /\ pc = "req" => S!Op \in Reads
  /\ pc = "ok" => S!Op \notin Reads
  /\ pc = "start" => ~retried

\* The login is sent once: the first challenge starts it.
LoginInv ==
  /\ asked \in BOOLEAN /\ signing \in {"no", "signing", "sent", "done"} /\ state \in {"none", "ok", "failed"}
  /\ asked => signer # "none"
  /\ ~asked => signing = "no"
  /\ signing \in {"no", "signing"} => logins = 0
  /\ logins \in {0, 1}

\* An OK under way that says yes is true of the relay, and so is the login's.
OksTrue ==
  /\ \A n \in DOMAIN down : down[n].kind = "ok" /\ down[n].ok /\ down[n].of # "login" => down[n].of \in stored
  /\ \A n \in DOMAIN down : down[n].of = "login" /\ down[n].ok => authed
  /\ state = "ok" => authed
  /\ S!AcceptedIsStored

IsAnswer(m) == m.kind \in {"eose", "closed"} /\ m.of = S!Op

\* A read has at most one request or answer under way, and none between two; one
\* asked after the login is answered in full.
OneAnswer ==
  pc \in {"start", "req", "login"} /\ S!Op \in Reads =>
    /\ pc # "req" => /\ \A n \in DOMAIN up : up[n] # S!Op
                     /\ \A n \in DOMAIN down : ~IsAnswer(down[n])
    /\ \A m, n \in DOMAIN up : up[m] = S!Op /\ up[n] = S!Op => m = n
    /\ \A m, n \in DOMAIN down : IsAnswer(down[m]) /\ IsAnswer(down[n]) => m = n
    /\ \A m \in DOMAIN up, n \in DOMAIN down : ~(up[m] = S!Op /\ IsAnswer(down[n]))
    /\ pc = "req" /\ (before \/ retried) =>
          authed /\ \A n \in DOMAIN down : IsAnswer(down[n]) /\ down[n].kind = "eose" => down[n].ok

SessionInv == SessionTypes /\ LoginInv /\ OksTrue /\ OneAnswer

\* A queue without its head (Observe, Serve).
LEMMA TailOf ==
  ASSUME NEW X, NEW q \in Seq(X), q # <<>>
  PROVE  /\ Tail(q) \in Seq(X) /\ 1 \in DOMAIN q /\ Head(q) = q[1] /\ q[1] \in X
         /\ \A n \in DOMAIN Tail(q) : n + 1 \in DOMAIN q /\ Tail(q)[n] = q[n + 1]
OBVIOUS

\* A queue with one message more.
LEMMA AppendOf ==
  ASSUME NEW X, NEW q \in Seq(X), NEW x \in X
  PROVE  /\ Append(q, x) \in Seq(X) /\ Append(q, x)[Len(q) + 1] = x
         /\ DOMAIN Append(q, x) = DOMAIN q \cup {Len(q) + 1}
         /\ Len(q) + 1 \notin DOMAIN q
         /\ \A n \in DOMAIN q : Append(q, x)[n] = q[n]
OBVIOUS

\* The operation that runs is one of the program.
LEMMA OpNamed == ASSUME SessionAssumption, SessionTypes, pc # "ended" PROVE S!Op \in Names /\ (S!Op \in Reads => Len(ops) = 1)
<1>1. ops \in Seq(Operations) /\ at \in DOMAIN ops
  BY DEF SessionAssumption, SessionTypes
<1>2. S!Op \in Operations
  BY <1>1 DEF S!Op
<1>3. ops \in Programs /\ (ops[at] \in Reads => Len(ops) = 1)
  BY <1>1 DEF SessionAssumption, SessionTypes
<1>. QED
  BY <1>2, <1>3 DEF S!Op, Names

\* The relay's answer is to what it was sent.
LEMMA ReplyTyped ==
  ASSUME SessionTypes, NEW o \in Names
  PROVE  S!Reply(o) \in Messages /\ S!Reply(o).of = o
BY DEF SessionTypes, S!Reply, Messages

\* An operation that returns is followed by the next one, which is no read.
LEMMA ReturnStep ==
  ASSUME SessionAssumption, SessionTypes, UNCHANGED S!given, pc # "ended", NEW r \in Results, S!Return(r)
  PROVE  /\ at' \in Nat \ {0} /\ (pc' # "ended" => at' \in DOMAIN ops') /\ Len(results') = at' - 1
         /\ pc' \in {"start", "ended"} /\ (pc' = "start" => S!Op' \notin Reads)
         /\ results' \in Seq(Results) /\ results'[Len(results) + 1] = r /\ Len(results') = Len(results) + 1
         /\ \A k \in 1..Len(results) : results'[k] = results[k]
         /\ retried' = FALSE
<1>1. /\ results' \in Seq(Results) /\ results'[Len(results) + 1] = r /\ Len(results') = Len(results) + 1
      /\ \A k \in 1..Len(results) : results'[k] = results[k]
  BY DEF S!Return, SessionTypes
<1>2. ops \in Seq(Operations) /\ ops' = ops /\ at \in 1..Len(ops) /\ Len(ops) \in Nat
  BY DEF SessionTypes, SessionAssumption, S!given
<1>3. CASE at = Len(ops)
  BY <1>1, <1>2, <1>3 DEF S!Return, SessionTypes
<1>4. CASE at # Len(ops)
  <2>1. at' = at + 1 /\ at' \in DOMAIN ops /\ Len(ops) # 1 /\ pc' = "start"
    BY <1>2, <1>4 DEF S!Return
  <2>2. S!Op' \notin Reads
    BY <1>2, <2>1 DEF S!Op, SessionTypes, SessionAssumption
  <2>. QED
    BY <1>1, <1>2, <2>1, <2>2 DEF S!Return, SessionTypes
<1>. QED
  BY <1>3, <1>4

\* A step keeps an operation of the program at hand, with one result for each before it,
\* and only well-formed messages under way.
LEMMA TypesStep ==
  ASSUME SessionAssumption, SessionTypes, [S!Next]_(S!vars)
  PROVE  SessionTypes'
<1>. USE DEF SessionTypes
<1>0. pc # "ended" => S!Op \in Names
  BY OpNamed
<1>1. CASE S!Challenge /\ UNCHANGED S!given
  <2>1. [kind |-> "auth", of |-> "", ok |-> TRUE, why |-> ""] \in Messages
    BY DEF Messages, Names
  <2>2. down' \in Seq(Messages)
    BY <1>1, <2>1, AppendOf DEF S!Challenge
  <2>. QED
    BY <1>1, <2>2 DEF S!Challenge, S!given, S!loginVars, S!Op
<1>2. CASE S!Serve /\ UNCHANGED S!given
  <2>1. Head(up) \in Names /\ up' \in Seq(Names)
    BY <1>2, TailOf DEF S!Serve
  <2>2. down' \in Seq(Messages)
    BY <1>2, <2>1, ReplyTyped, AppendOf DEF S!Serve
  <2>. QED
    BY <1>2, <2>1, <2>2 DEF S!Serve, S!given, S!loginVars, S!Op
<1>3. CASE (S!SendLogin \/ S!SignerRefuses) /\ UNCHANGED S!given
  <2>1. up' = Append(up, "login") \/ up' = up
    BY <1>3 DEF S!SendLogin, S!SignerRefuses
  <2>2. "login" \in Names
    BY DEF Names
  <2>3. up' \in Seq(Names)
    <3>1. up \in Seq(Names)
      OBVIOUS
    <3>. QED
      BY ONLY <2>1, <2>2, <3>1, AppendOf
  <2>. QED
    BY <1>3, <2>3 DEF S!SendLogin, S!SignerRefuses, S!given, S!relayVars, S!Op
<1>4. CASE (S!Observe \/ S!Ignore) /\ UNCHANGED S!given
  <2>0. down # <<>> /\ down' = Tail(down)
    BY <1>4 DEF S!Observe, S!Ignore, S!Reading
  <2>1. down' \in Seq(Messages)
    BY <2>0, TailOf
  <2>. QED
    BY <1>4, <2>1 DEF S!Observe, S!Ignore, S!given, S!relayVars, S!loginVars, S!Op
<1>5. CASE S!Begin /\ UNCHANGED S!given
  <2>1. up' \in Seq(Names)
    BY <1>0, <1>5, AppendOf DEF S!Begin
  <2>. QED
    BY <1>5, <2>1 DEF S!Begin, S!given, S!relayVars, S!loginVars, S!Op
<1>6. ASSUME NEW r \in Results, S!Return(r), UNCHANGED S!given, pc # "ended", down' \in Seq(Messages),
             up' \in Seq(Names), UNCHANGED <<before, authed>>
      PROVE  SessionTypes'
  <2>1. /\ at' \in Nat \ {0} /\ (pc' # "ended" => at' \in DOMAIN ops') /\ Len(results') = at' - 1
        /\ pc' \in {"start", "ended"} /\ results' \in Seq(Results) /\ retried' = FALSE
    BY <1>6, ReturnStep
  <2>. QED
    BY <1>6, <2>1 DEF S!given
<1>7. CASE S!LoginFirst /\ UNCHANGED S!given
  <2>1. up' = up \/ up' = Append(up, S!Op)
    BY <1>7 DEF S!LoginFirst
  <2>2. up' \in Seq(Names)
    <3>1. up \in Seq(Names) /\ S!Op \in Names
      BY <1>0, <1>7 DEF S!LoginFirst
    <3>. QED
      BY ONLY <2>1, <3>1, AppendOf
  <2>3. CASE pc' = "first" /\ UNCHANGED <<at, retried, results>>
    BY <1>7, <2>2, <2>3 DEF S!LoginFirst, S!given, S!relayVars, S!loginVars, S!Op
  <2>4. CASE S!Return("open") \/ S!Return("login_error")
    BY <1>6, <1>7, <2>2, <2>4 DEF S!LoginFirst, S!relayVars, Results
  <2>. QED
    BY <1>7, <2>3, <2>4 DEF S!LoginFirst
<1>8. CASE (S!PublishOk \/ S!ReadEnds) /\ UNCHANGED S!given
  <2>1. down' \in Seq(Messages) /\ pc # "ended" /\ up' = up /\ UNCHANGED <<before, authed>>
    BY <1>8, TailOf DEF S!PublishOk, S!ReadEnds, S!Reading, S!relayVars
  <2>2. CASE pc' = "login" /\ UNCHANGED <<at, retried, results>>
    BY <1>8, <2>1, <2>2 DEF S!given, S!Op
  <2>3. CASE \E r \in Results : S!Return(r)
    BY <1>6, <1>8, <2>1, <2>3
  <2>. QED
    BY <1>8, <2>2, <2>3 DEF S!PublishOk, S!ReadEnds, Results
<1>9. CASE (S!LoginSettled \/ S!LoginTimeout \/ S!Timeout) /\ UNCHANGED S!given
  <2>1. pc # "ended" /\ down' = down /\ UNCHANGED <<before, authed>>
    BY <1>9 DEF S!LoginSettled, S!LoginTimeout, S!Timeout, S!relayVars
  <2>2. CASE S!Again
    <3>1. up' \in Seq(Names)
      BY <1>0, <2>1, <2>2, AppendOf DEF S!Again
    <3>. QED
      BY <1>9, <2>1, <2>2, <3>1 DEF S!Again, S!given, S!Op
  <2>3. CASE up' = up /\ \E r \in Results : S!Return(r)
    BY <1>6, <1>9, <2>1, <2>3
  <2>. QED
    BY <1>9, <2>2, <2>3 DEF S!LoginSettled, S!LoginTimeout, S!Timeout, Results, S!Deadline
<1>10. CASE UNCHANGED S!vars
  BY <1>10 DEF S!vars, S!given, S!Op
<1>. QED
  BY <1>1, <1>2, <1>3, <1>4, <1>5, <1>7, <1>8, <1>9, <1>10 DEF S!Next

\* Only the first challenge starts a login, and sendLogin sends it once (observe, settle).
LEMMA LoginStep ==
  ASSUME LoginInv, [S!Next]_(S!vars)
  PROVE  LoginInv'
<1>. USE DEF LoginInv
<1>1. CASE UNCHANGED <<S!loginVars, signer>>
  BY <1>1 DEF S!loginVars
<1>2. CASE S!SendLogin /\ UNCHANGED S!given
  BY <1>2 DEF S!SendLogin, S!given
<1>3. CASE S!SignerRefuses /\ UNCHANGED S!given
  BY <1>3 DEF S!SignerRefuses, S!Settled, S!given
<1>4. CASE S!Observe /\ UNCHANGED S!given
  <2>1. CASE /\ asked' = (asked \/ signer # "none") /\ UNCHANGED <<state, logins>>
             /\ signing' = IF S!First /\ signer # "none" THEN "signing" ELSE signing
    BY <1>4, <2>1 DEF S!First, S!given
  <2>2. CASE /\ signing = "sent" /\ signing' = "done" /\ UNCHANGED <<asked, logins>>
             /\ state' = S!Settled(IF S!Msg.ok THEN "ok" ELSE "failed")
    BY <1>4, <2>2 DEF S!Settled, S!given
  <2>. QED
    BY <1>4, <2>1, <2>2 DEF S!Observe
<1>5. CASE /\ UNCHANGED S!given
           /\ S!Begin \/ S!LoginFirst \/ S!PublishOk \/ S!ReadEnds \/ S!Ignore \/ S!LoginSettled \/ S!Timeout \/ S!LoginTimeout
  BY <1>5 DEF S!given, S!Begin, S!LoginFirst, S!PublishOk, S!ReadEnds, S!Ignore, S!LoginSettled, S!Timeout, S!LoginTimeout, S!loginVars
<1>6. CASE (S!Challenge \/ S!Serve) /\ UNCHANGED S!given
  <2>1. UNCHANGED S!loginVars
    BY <1>6 DEF S!Challenge, S!Serve
  <2>. QED
    BY <1>1, <1>6, <2>1 DEF S!given
<1>7. CASE UNCHANGED S!vars
  BY <1>1, <1>7 DEF S!vars, S!given, S!loginVars
<1>. QED
  BY <1>1, <1>2, <1>3, <1>4, <1>5, <1>6, <1>7 DEF S!Next

\* What a queue says stays true while messages leave it and the relay takes more.
LEMMA OksShrink ==
  ASSUME SessionTypes, OksTrue, down # <<>>, down' = Tail(down), stored' = stored, authed' = authed
  PROVE  /\ \A n \in DOMAIN down' : down'[n].kind = "ok" /\ down'[n].ok /\ down'[n].of # "login" => down'[n].of \in stored'
         /\ \A n \in DOMAIN down' : down'[n].of = "login" /\ down'[n].ok => authed'
BY TailOf DEF SessionTypes, OksTrue

\* A result more is true if it is the relay's.
LEMMA ResultStored ==
  ASSUME SessionAssumption, SessionTypes, S!AcceptedIsStored, UNCHANGED S!given, pc # "ended",
         NEW r \in Results, S!Return(r), stored' = stored, r = "accepted" => S!Op \in stored
  PROVE  S!AcceptedIsStored'
<1>1. /\ results'[Len(results) + 1] = r /\ Len(results') = Len(results) + 1
      /\ \A k \in 1..Len(results) : results'[k] = results[k]
  BY ReturnStep
<1>2. Len(results) + 1 = at /\ Len(results) \in Nat /\ ops' = ops
  BY DEF SessionTypes, S!given
<1>. QED
  BY <1>1, <1>2 DEF S!AcceptedIsStored, S!Op

\* The relay says yes once it took the event, and the client takes only the OK of its
\* own event for an answer (publish, awaitOK).
LEMMA OksStep ==
  ASSUME SessionAssumption, SessionTypes, OksTrue, [S!Next]_(S!vars)
  PROVE  OksTrue'
<1>1. CASE S!Challenge /\ UNCHANGED S!given
  <2>1. [kind |-> "auth", of |-> "", ok |-> TRUE, why |-> ""] \in Messages
    BY DEF Messages, Names
  <2>2. PICK m \in Messages : m.kind = "auth" /\ m.of = "" /\ down' = Append(down, m)
    BY <1>1, <2>1 DEF S!Challenge
  <2>3. /\ DOMAIN down' = DOMAIN down \cup {Len(down) + 1} /\ down'[Len(down) + 1] = m
        /\ \A n \in DOMAIN down : down'[n] = down[n]
    <3>1. down \in Seq(Messages) /\ down' = Append(down, m)
      BY <2>2 DEF SessionTypes
    <3>. QED
      BY ONLY <3>1, AppendOf, m \in Messages
  <2>. QED
    BY <1>1, <2>2, <2>3 DEF S!Challenge, OksTrue, S!AcceptedIsStored, S!loginVars, S!given
<1>2. CASE S!Serve /\ UNCHANGED S!given
  <2>1. PICK o \in Names : o = Head(up)
    BY <1>2, TailOf DEF S!Serve, SessionTypes
  <2>2. PICK m \in Messages : m = S!Reply(o) /\ m.of = o
    BY ReplyTyped
  <2>3. /\ m.kind = "ok" /\ m.ok /\ o # "login" => o \in stored'
        /\ o = "login" /\ m.ok => authed'
        /\ stored \subseteq stored' /\ (authed => authed')
    <3>1. /\ authed' = (authed \/ (o = "login" /\ member))
          /\ stored' = IF o \notin Reads \union {"login"} /\ m.ok THEN stored \union {o} ELSE stored
      BY <1>2, <2>1, <2>2 DEF S!Serve
    <3>2. CASE o = "login"
      <4>1. S!Reply(o).ok = member
        BY <3>2 DEF S!Reply
      <4>. QED
        BY <2>2, <3>1, <3>2, <4>1
    <3>3. CASE o # "login" /\ o \in Reads
      BY <2>2, <3>1, <3>3 DEF S!Reply
    <3>4. CASE o # "login" /\ o \notin Reads
      BY <2>2, <3>1, <3>4
    <3>. QED
      BY <3>2, <3>3, <3>4
  <2>4. /\ DOMAIN down' = DOMAIN down \cup {Len(down) + 1} /\ down'[Len(down) + 1] = m
        /\ \A n \in DOMAIN down : down'[n] = down[n]
    BY <1>2, <2>1, <2>2, AppendOf DEF S!Serve, SessionTypes
  <2>. QED
    BY <1>2, <2>2, <2>3, <2>4 DEF S!Serve, OksTrue, S!AcceptedIsStored, S!loginVars, S!given
<1>3. CASE (S!SendLogin \/ S!SignerRefuses \/ S!Begin) /\ UNCHANGED S!given
  BY <1>3 DEF S!given, S!SendLogin, S!SignerRefuses, S!Settled, S!Begin, OksTrue, S!AcceptedIsStored, S!relayVars, S!loginVars
<1>4. CASE S!Observe /\ UNCHANGED S!given
  <2>1. down # <<>> /\ down' = Tail(down) /\ UNCHANGED <<stored, authed, results, ops>>
    BY <1>4 DEF S!Observe, S!Reading, S!relayVars, S!given
  <2>2. state' = "ok" => authed
    BY <1>4, <2>1, TailOf DEF S!Observe, S!Settled, S!Msg, OksTrue, SessionTypes
  <2>. QED
    BY <2>1, <2>2, OksShrink DEF OksTrue, S!AcceptedIsStored
<1>5. CASE S!Ignore /\ UNCHANGED S!given
  BY <1>5, OksShrink DEF S!Ignore, S!Reading, OksTrue, S!AcceptedIsStored, S!relayVars, S!loginVars, S!given
<1>6. CASE (S!PublishOk \/ S!ReadEnds) /\ UNCHANGED S!given
  <2>1. down # <<>> /\ down' = Tail(down) /\ UNCHANGED <<stored, authed, state>> /\ pc # "ended"
    BY <1>6 DEF S!PublishOk, S!ReadEnds, S!Reading, S!relayVars, S!loginVars
  <2>2. S!Msg = down[1] /\ 1 \in DOMAIN down
    BY <2>1, TailOf DEF S!Msg, SessionTypes
  <2>3. S!Return("accepted") => S!Op \in stored
    BY <1>6, <2>2 DEF S!PublishOk, S!ReadEnds, S!IsLogin, S!Matches, OksTrue, S!Return
  <2>4. S!AcceptedIsStored'
    <3>1. CASE UNCHANGED results
      BY <1>6, <2>1, <3>1 DEF OksTrue, S!AcceptedIsStored, S!given
    <3>2. CASE \E r \in Results : S!Return(r)
      BY <1>6, <2>1, <2>3, <3>2, ResultStored DEF OksTrue
    <3>. QED
      BY <1>6, <3>1, <3>2 DEF S!PublishOk, S!ReadEnds, Results
  <2>. QED
    BY <2>1, <2>4, OksShrink DEF OksTrue
<1>7. CASE (S!LoginFirst \/ S!LoginSettled \/ S!LoginTimeout \/ S!Timeout) /\ UNCHANGED S!given
  <2>1. UNCHANGED <<down, stored, authed, state>> /\ pc # "ended"
    BY <1>7 DEF S!LoginFirst, S!LoginSettled, S!LoginTimeout, S!Timeout, S!relayVars, S!loginVars
  <2>2. S!AcceptedIsStored'
    <3>1. CASE UNCHANGED results
      BY <1>7, <2>1, <3>1 DEF OksTrue, S!AcceptedIsStored, S!given
    <3>2. CASE \E r \in Results : r # "accepted" /\ S!Return(r)
      BY <1>7, <2>1, <3>2, ResultStored DEF OksTrue
    <3>. QED
      BY <1>7, <3>1, <3>2 DEF S!LoginFirst, S!LoginSettled, S!LoginTimeout, S!Timeout, S!Again, Results, S!Deadline
  <2>. QED
    BY <2>1, <2>2 DEF OksTrue
<1>8. CASE UNCHANGED S!vars
  BY <1>8 DEF S!vars, S!given, OksTrue, S!AcceptedIsStored
<1>. QED
  BY <1>1, <1>2, <1>3, <1>4, <1>5, <1>6, <1>7, <1>8 DEF S!Next

\* A read asks once at a time, and once more after a login (read, subscribeOnce).
LEMMA AnswerStep ==
  ASSUME SessionAssumption, SessionTypes, OksTrue, OneAnswer, [S!Next]_(S!vars)
  PROVE  OneAnswer'
<1>. SUFFICES ASSUME pc' \in {"start", "req", "login"}, S!Op' \in Reads PROVE OneAnswer'
  BY DEF OneAnswer
<1>1. CASE \E r \in Results : UNCHANGED S!given /\ pc # "ended" /\ S!Return(r)
  BY <1>1, ReturnStep
<1>2. ASSUME down # <<>>, down' = Tail(down), UNCHANGED <<S!given, at, pc, up, before, retried, authed>>
      PROVE  OneAnswer'
  <2>1. /\ S!Op' = S!Op /\ \A m : IsAnswer(m)' <=> IsAnswer(m)
    BY <1>2 DEF S!Op, IsAnswer, S!given
  <2>2. \A n \in DOMAIN down' : n + 1 \in DOMAIN down /\ down'[n] = down[n + 1] /\ n \in Nat
    BY <1>2, TailOf DEF SessionTypes
  <2>3. pc \in {"start", "req", "login"} /\ S!Op \in Reads
    BY <1>2, <2>1
  <2>4. ASSUME NEW m \in DOMAIN down', NEW n \in DOMAIN down', IsAnswer(down'[m]), IsAnswer(down'[n])
        PROVE  m = n
    <3>1. /\ m + 1 \in DOMAIN down /\ n + 1 \in DOMAIN down /\ m \in Nat /\ n \in Nat
          /\ IsAnswer(down[m + 1]) /\ IsAnswer(down[n + 1])
      BY <2>2, <2>4
    <3>2. m + 1 = n + 1
      BY <2>3, <3>1 DEF OneAnswer
    <3>. QED
      BY ONLY <3>1, <3>2
  <2>5. \A n \in DOMAIN down' : \E k \in DOMAIN down : down'[n] = down[k]
    BY ONLY <2>2
  <2>6. /\ pc # "req" => /\ \A n \in DOMAIN up : up[n] # S!Op
                        /\ \A n \in DOMAIN down' : ~IsAnswer(down'[n])
        /\ \A m, n \in DOMAIN up : up[m] = S!Op /\ up[n] = S!Op => m = n
        /\ \A m \in DOMAIN up, n \in DOMAIN down' : ~(up[m] = S!Op /\ IsAnswer(down'[n]))
    BY <2>3, <2>5 DEF OneAnswer
  <2>7. pc = "req" /\ (before \/ retried) =>
          authed /\ \A n \in DOMAIN down' : IsAnswer(down'[n]) /\ down'[n].kind = "eose" => down'[n].ok
    BY <2>3, <2>5 DEF OneAnswer
  <2>. QED
    BY <1>2, <2>1, <2>4, <2>6, <2>7 DEF OneAnswer
<1>3. CASE (S!Observe \/ S!Ignore) /\ UNCHANGED S!given
  BY <1>2, <1>3 DEF S!Observe, S!Ignore, S!Reading, S!relayVars
<1>4. CASE S!SignerRefuses /\ UNCHANGED S!given
  BY <1>4 DEF S!SignerRefuses, OneAnswer, IsAnswer, S!Op, S!relayVars, S!given
<1>5. CASE S!LoginFirst /\ UNCHANGED S!given
  BY <1>1, <1>5 DEF S!LoginFirst, Results
<1>6. CASE S!PublishOk /\ UNCHANGED S!given
  <2>1. CASE pc' = "login" /\ at' = at
    BY <1>6, <2>1 DEF S!PublishOk, SessionTypes, S!Op, S!given
  <2>. QED
    BY <1>1, <1>6, <2>1 DEF S!PublishOk, Results
<1>7. CASE (S!Timeout \/ S!LoginTimeout) /\ UNCHANGED S!given
  BY <1>1, <1>7 DEF S!Timeout, S!LoginTimeout, Results, S!Deadline
<1>8. CASE S!Challenge /\ UNCHANGED S!given
  <2>1. [kind |-> "auth", of |-> "", ok |-> TRUE, why |-> ""] \in Messages
    BY DEF Messages, Names
  <2>2. PICK m \in Messages : m.kind = "auth" /\ down' = Append(down, m)
    BY <1>8, <2>1 DEF S!Challenge
  <2>3. /\ DOMAIN down' = DOMAIN down \cup {Len(down) + 1} /\ down'[Len(down) + 1] = m
        /\ \A n \in DOMAIN down : down'[n] = down[n]
    <3>1. down \in Seq(Messages) /\ down' = Append(down, m)
      BY <2>2 DEF SessionTypes
    <3>. QED
      BY ONLY <3>1, AppendOf, m \in Messages
  <2>4. /\ S!Op' = S!Op /\ \A x : IsAnswer(x)' <=> IsAnswer(x)
    BY <1>8 DEF S!Challenge, S!Op, IsAnswer, S!given
  <2>5. ~IsAnswer(m)
    BY <2>2 DEF IsAnswer
  <2>. QED
    BY <1>8, <2>3, <2>4, <2>5 DEF S!Challenge, OneAnswer
<1>9. CASE S!Serve /\ UNCHANGED S!given
  <2>1. PICK o \in Names : o = Head(up)
    BY <1>9, TailOf DEF S!Serve, SessionTypes
  <2>2. PICK m \in Messages : m = S!Reply(o) /\ m.of = o
    BY ReplyTyped
  <2>3. /\ DOMAIN down' = DOMAIN down \cup {Len(down) + 1} /\ down'[Len(down) + 1] = m
        /\ \A n \in DOMAIN down : down'[n] = down[n]
    BY <1>9, <2>1, <2>2, AppendOf DEF S!Serve, SessionTypes
  <2>4. /\ S!Op' = S!Op /\ (\A x : IsAnswer(x)' <=> IsAnswer(x)) /\ UNCHANGED <<pc, before, retried>>
    BY <1>9 DEF S!Serve, S!Op, IsAnswer, S!given
  <2>5. /\ 1 \in DOMAIN up /\ up[1] = o
        /\ \A n \in DOMAIN up' : n + 1 \in DOMAIN up /\ up'[n] = up[n + 1] /\ n \in Nat \ {0}
    BY <1>9, <2>1, TailOf DEF S!Serve, SessionTypes
  <2>6. authed => authed'
    BY <1>9 DEF S!Serve
  <2>7. CASE o # S!Op
    <3>1. ~IsAnswer(m)
      BY <2>2, <2>7 DEF IsAnswer
    <3>2. pc \in {"start", "req", "login"} /\ S!Op \in Reads
      BY <2>4
    <3>3. \A n \in DOMAIN down' : IsAnswer(down'[n]) => n \in DOMAIN down /\ down'[n] = down[n]
      BY ONLY <2>3, <3>1
    <3>4. ASSUME NEW k \in DOMAIN up', NEW n \in DOMAIN up', up'[k] = S!Op, up'[n] = S!Op
          PROVE  k = n
      <4>1. /\ k + 1 \in DOMAIN up /\ n + 1 \in DOMAIN up /\ up[k + 1] = S!Op /\ up[n + 1] = S!Op
            /\ k \in Nat /\ n \in Nat
        BY <2>5, <3>4
      <4>2. k + 1 = n + 1
        BY <3>2, <4>1 DEF OneAnswer
      <4>. QED
        BY ONLY <4>1, <4>2
    <3>5. \A n \in DOMAIN up' : up'[n] = S!Op => \E k \in DOMAIN up : up[k] = S!Op
      BY ONLY <2>5
    <3>6. /\ pc # "req" => /\ \A n \in DOMAIN up' : up'[n] # S!Op
                          /\ \A n \in DOMAIN down' : ~IsAnswer(down'[n])
          /\ \A k, n \in DOMAIN down' : IsAnswer(down'[k]) /\ IsAnswer(down'[n]) => k = n
      BY <3>2, <3>3, <3>5 DEF OneAnswer
    <3>7. \A k \in DOMAIN up', n \in DOMAIN down' : ~(up'[k] = S!Op /\ IsAnswer(down'[n]))
      BY <3>2, <3>3, <3>5 DEF OneAnswer
    <3>8. pc = "req" /\ (before \/ retried) =>
            authed /\ \A n \in DOMAIN down' : IsAnswer(down'[n]) /\ down'[n].kind = "eose" => down'[n].ok
      BY <3>2, <3>3 DEF OneAnswer
    <3>. QED
      BY <2>4, <2>6, <3>4, <3>6, <3>7, <3>8 DEF OneAnswer
  <2>8. CASE o = S!Op
    <3>1. pc = "req" /\ S!Op \in Reads /\ S!Op # "login"
      BY <2>4, <2>5, <2>8 DEF OneAnswer, SessionAssumption
    <3>2. /\ \A n \in DOMAIN up' : up'[n] # S!Op
          /\ \A n \in DOMAIN down : ~IsAnswer(down[n])
      BY <2>5, <2>8, <3>1 DEF OneAnswer
    <3>3. authed /\ m.kind = "eose" => m.ok
      BY <2>2, <2>8, <3>1 DEF S!Reply
    <3>4. before \/ retried => authed
      BY <3>1 DEF OneAnswer
    <3>. QED
      BY <2>3, <2>4, <2>6, <3>1, <3>2, <3>3, <3>4 DEF OneAnswer
  <2>. QED
    BY <2>7, <2>8
<1>10. CASE S!SendLogin /\ UNCHANGED S!given
  <2>1. "login" \in Names
    BY DEF Names
  <2>2. /\ DOMAIN up' = DOMAIN up \cup {Len(up) + 1} /\ up'[Len(up) + 1] = "login"
        /\ \A n \in DOMAIN up : up'[n] = up[n]
    BY <1>10, <2>1, AppendOf DEF S!SendLogin, SessionTypes
  <2>3. /\ S!Op' = S!Op /\ (\A x : IsAnswer(x)' <=> IsAnswer(x)) /\ S!Op # "login"
    BY <1>10 DEF S!SendLogin, S!Op, IsAnswer, S!given, SessionAssumption
  <2>. QED
    BY <1>10, <2>2, <2>3 DEF S!SendLogin, OneAnswer, S!relayVars
<1>11. ASSUME UNCHANGED S!given, pc \in {"start", "login"}, UNCHANGED <<at, down, authed>>, pc' = "req",
              up' = Append(up, S!Op), before' \/ retried' => authed
       PROVE  OneAnswer'
  <2>1. S!Op \in Names
    BY <1>11, OpNamed
  <2>2. /\ DOMAIN up' = DOMAIN up \cup {Len(up) + 1} /\ up'[Len(up) + 1] = S!Op
        /\ \A n \in DOMAIN up : up'[n] = up[n]
    <3>1. up \in Seq(Names)
      BY DEF SessionTypes
    <3>. QED
      BY ONLY <1>11, <2>1, <3>1, AppendOf
  <2>3. /\ S!Op' = S!Op /\ (\A x : IsAnswer(x)' <=> IsAnswer(x))
    BY <1>11 DEF S!Op, IsAnswer, S!given
  <2>4. /\ \A n \in DOMAIN up : up[n] # S!Op
        /\ \A n \in DOMAIN down : ~IsAnswer(down[n])
    BY <1>11, <2>3 DEF OneAnswer
  <2>. QED
    BY <1>11, <2>2, <2>3, <2>4 DEF OneAnswer
<1>12. CASE S!Begin /\ UNCHANGED S!given
  <2>1. S!Op' = S!Op /\ pc = "start" /\ UNCHANGED <<at, down, authed, retried>> /\ up' = Append(up, S!Op)
    BY <1>12 DEF S!Begin, S!Op, S!given, S!relayVars
  <2>2. before' \/ retried' => authed
    BY <1>12, <2>1 DEF S!Begin, OksTrue, SessionTypes
  <2>3. pc' = "req"
    BY <1>12, <2>1 DEF S!Begin
  <2>. QED
    BY <1>11, <1>12, <2>1, <2>2, <2>3
<1>13. CASE S!ReadEnds /\ UNCHANGED S!given
  <2>1. CASE pc' = "login" /\ UNCHANGED <<at, retried>>
    <3>1. /\ S!Op' = S!Op /\ (\A x : IsAnswer(x)' <=> IsAnswer(x))
      BY <1>13, <2>1 DEF S!Op, IsAnswer, S!given
    <3>2. /\ down # <<>> /\ down' = Tail(down) /\ up' = up /\ pc = "req"
          /\ IsAnswer(Head(down))
      BY <1>13 DEF S!ReadEnds, S!Reading, S!EndsRead, IsAnswer, S!Msg
    <3>3. /\ 1 \in DOMAIN down /\ Head(down) = down[1]
          /\ \A n \in DOMAIN down' : n + 1 \in DOMAIN down /\ down'[n] = down[n + 1] /\ n + 1 # 1
      BY <3>2, TailOf DEF SessionTypes
    <3>4. /\ \A n \in DOMAIN up' : up'[n] # S!Op
          /\ \A n \in DOMAIN down' : ~IsAnswer(down'[n])
      BY <3>1, <3>2, <3>3 DEF OneAnswer
    <3>. QED
      BY <2>1, <3>1, <3>4 DEF OneAnswer
  <2>2. CASE \E r \in Results : S!Return(r)
    BY <1>1, <1>13, <2>2 DEF S!ReadEnds
  <2>. QED
    BY <1>13, <2>1, <2>2 DEF S!ReadEnds, Results
<1>14. CASE S!LoginSettled /\ UNCHANGED S!given
  <2>1. CASE S!Again /\ state = "ok"
    <3>1. /\ S!Op' = S!Op /\ pc = "login" /\ UNCHANGED <<at, down, authed, before>> /\ up' = Append(up, S!Op)
      BY <1>14, <2>1 DEF S!LoginSettled, S!Again, S!Op, S!given, S!relayVars
    <3>2. pc' = "req"
      BY <2>1, <3>1 DEF S!Again
    <3>3. authed
      BY <2>1 DEF OksTrue
    <3>. QED
      BY <1>11, <1>14, <3>1, <3>2, <3>3
  <2>2. CASE \E r \in Results : S!Return(r)
    BY <1>1, <1>14, <2>2 DEF S!LoginSettled
  <2>. QED
    BY <1>14, <2>1, <2>2 DEF S!LoginSettled, Results
<1>15. CASE UNCHANGED S!vars
  BY <1>15 DEF S!vars, S!given, OneAnswer, IsAnswer, S!Op
<1>. QED
  BY <1>3, <1>4, <1>5, <1>6, <1>7, <1>8, <1>9, <1>10, <1>12, <1>13, <1>14, <1>15 DEF S!Next

\* A session begins with nothing under way.
LEMMA SessionInit == ASSUME SessionAssumption, S!Init PROVE SessionInv
<1>1. ops \in Programs /\ ops \in Seq(Operations)
  BY DEF S!Init, SessionAssumption
<1>2. 1 \in DOMAIN ops
  BY <1>1 DEF SessionAssumption
<1>3. up = <<>> /\ down = <<>> /\ results = <<>> /\ up \in Seq(Names) /\ down \in Seq(Messages)
      /\ results \in Seq(Results) /\ Len(results) = 0
  BY DEF S!Init
<1>4. SessionTypes
  <2>1. at = 1 /\ pc = "start" /\ ~retried /\ ~before /\ ~authed /\ retried \in BOOLEAN /\ before \in BOOLEAN
        /\ authed \in BOOLEAN /\ member \in BOOLEAN /\ signer \in Signers
    BY DEF S!Init
  <2>. QED
    BY <1>1, <1>2, <1>3, <2>1 DEF SessionTypes
<1>5. DOMAIN up = {} /\ DOMAIN down = {} /\ 1..Len(results) = {}
  BY <1>3
<1>. QED
  BY <1>4, <1>5 DEF S!Init, SessionInv, LoginInv, OksTrue, OneAnswer, S!AcceptedIsStored

\* A step of a session keeps all four.
LEMMA SessionStep == ASSUME SessionAssumption, SessionInv, [S!Next]_(S!vars) PROVE SessionInv'
BY TypesStep, LoginStep, OksStep, AnswerStep DEF SessionInv

\* A read that raced no failed login and asked after it is answered in full.
LEMMA AnonymousAtLogin == ASSUME SessionAssumption, SessionInv, [S!Next]_(S!vars) PROVE S!AnonymousOnlyAtLogin
<1>. SUFFICES ASSUME NEW n \in 1..Len(results'), n > Len(results), results'[n] = "anonymous", asked,
                     state # "failed", pc # "login"
              PROVE  FALSE
  BY DEF S!AnonymousOnlyAtLogin
<1>. USE DEF SessionInv
<1>1. ASSUME UNCHANGED results PROVE FALSE
  BY <1>1 DEF SessionTypes
<1>2. ASSUME NEW r \in Results, S!Return(r), UNCHANGED S!given, pc # "ended" PROVE r = "anonymous"
  <2>0. Len(results) \in Nat
    BY DEF SessionTypes
  <2>1. results'[Len(results) + 1] = r /\ Len(results') = Len(results) + 1
    BY <1>2, ReturnStep
  <2>2. n = Len(results) + 1
    BY <2>0, <2>1
  <2>. QED
    BY <2>1, <2>2
<1>3. CASE S!ReadEnds /\ UNCHANGED S!given
  <2>1. /\ down # <<>> /\ pc = "req" /\ IsAnswer(Head(down)) /\ S!Op \in Reads
    BY <1>3 DEF S!ReadEnds, S!Reading, S!EndsRead, IsAnswer, S!Msg, SessionTypes
  <2>2. 1 \in DOMAIN down /\ Head(down) = down[1]
    BY <2>1, TailOf DEF SessionTypes
  <2>3. (before \/ retried) /\ S!Msg.kind = "eose" => S!Msg.ok
    BY <2>1, <2>2 DEF OneAnswer, S!Msg
  <2>4. S!Return("refused") => FALSE
    BY <1>2, <1>3, <2>1 DEF Results
  <2>5. S!Return("all") => FALSE
    BY <1>2, <1>3, <2>1 DEF Results
  <2>6. S!Raced \/ before
    BY DEF S!Raced, LoginInv
  <2>. QED
    BY <1>1, <1>3, <2>3, <2>4, <2>5, <2>6 DEF S!ReadEnds
<1>4. CASE S!PublishOk /\ UNCHANGED S!given
  BY <1>1, <1>2, <1>4 DEF S!PublishOk, Results
<1>5. CASE S!LoginFirst /\ UNCHANGED S!given
  BY <1>1, <1>2, <1>5 DEF S!LoginFirst, Results
<1>6. CASE S!Timeout /\ UNCHANGED S!given
  BY <1>2, <1>6 DEF S!Timeout, Results, S!Deadline
<1>7. CASE S!Challenge \/ S!Serve \/ S!SendLogin \/ S!SignerRefuses \/ S!Observe \/ S!Begin \/ S!Ignore
  BY <1>1, <1>7 DEF S!Challenge, S!Serve, S!SendLogin, S!SignerRefuses, S!Observe, S!Begin, S!Ignore
<1>8. CASE S!LoginSettled \/ S!LoginTimeout \/ UNCHANGED S!vars
  BY <1>1, <1>8 DEF S!LoginSettled, S!LoginTimeout, S!vars
<1>. QED
  BY <1>3, <1>4, <1>5, <1>6, <1>7, <1>8 DEF S!Next

\* A session says an event was accepted only if the relay took it, and logs in once,
\* for any programs, relays and signers (publish, awaitOK, observe).
THEOREM SessionHonest ==
  ASSUME SessionAssumption
  PROVE  S!Spec => [](S!AcceptedIsStored /\ S!OneLogin)
<1>1. S!Init => SessionInv
  BY SessionInit
<1>2. SessionInv /\ [S!Next]_(S!vars) => SessionInv'
  BY SessionStep
<1>3. SessionInv => S!AcceptedIsStored /\ S!OneLogin
  BY DEF SessionInv, OksTrue, LoginInv, S!OneLogin
<1>. QED
  BY <1>1, <1>2, <1>3, PTL DEF S!Spec

\* A read that answered a challenge returns what an anonymous reader sees only if the
\* login failed or never resolved, for any programs, relays and signers (read).
THEOREM ReadsNotAnonymous ==
  ASSUME SessionAssumption
  PROVE  S!Spec => S!NeverAnonymousResult
<1>1. S!Init => SessionInv
  BY SessionInit
<1>2. SessionInv /\ [S!Next]_(S!vars) => SessionInv'
  BY SessionStep
<1>3. SessionInv /\ [S!Next]_(S!vars) => [S!AnonymousOnlyAtLogin]_(S!vars)
  BY AnonymousAtLogin
<1>. QED
  BY <1>1, <1>2, <1>3, PTL DEF S!Spec, S!NeverAnonymousResult

-----------------------------------------------------------------------------
(* NegSync: what was found, pulled and pushed                              *)

CONSTANTS Events, InFirst, Weak, Unwanted, MaxLimit, BatchSize, MaxRounds, Directions, StrictPow,
          MaxFaults, MaxRuns
VARIABLES dir, local, remote, round, items, have, need, pending, batch, coming, got, acks, unserved,
          pushed, complete, faults, runs

N == INSTANCE NegSync

Down == dir \in {"down", "both"}
Up == dir \in {"up", "both"}

SyncTypes ==
  /\ local \in SUBSET Events /\ remote \in SUBSET Events /\ items \in SUBSET Events
  /\ have \in SUBSET Events /\ need \in SUBSET Events /\ batch \in SUBSET Events
  /\ coming \in SUBSET Events /\ got \in SUBSET Events /\ pending \in SUBSET Events
  /\ pc \in {"idle", "rounds", "pull", "pulling", "push", "pushing"}

\* While a run goes on nothing leaves the local store, and what reconciliation
\* found is a difference.
FoundInv ==
  /\ pc # "idle" => items \subseteq local /\ have \subseteq items /\ need \intersect items = {}
  /\ pc = "rounds" => ~complete
  /\ pc # "pushing" => acks = {}
  /\ acks \subseteq local
  /\ complete => /\ remote \intersect InFirst \subseteq local \union need
                 /\ items \subseteq remote \union have

\* An event that is needed is there, dropped for its proof of work, reported
\* unserved, or still to be asked for.
PullInv ==
  complete /\ Down =>
    need \subseteq local \union N!Kept \union unserved
                   \union (IF pc \in {"pull", "pulling"} THEN pending ELSE {})
                   \union (IF pc = "pulling" THEN batch ELSE {})

\* An event the relay lacks is there, rejected, on its way or still to be sent.
PushInv ==
  complete /\ Up /\ pc \notin {"pull", "pulling"} =>
    have \subseteq remote \union Unwanted \union acks
                   \union (IF pc \in {"push", "pushing"} THEN pending ELSE {})

SyncInv == SyncTypes /\ FoundInv /\ PullInv /\ PushInv

\* A run that starts or fails claims nothing.
LEMMA SyncIdle ==
  ASSUME SyncInv, ~complete', SyncTypes', acks' = {},
         pc' # "idle" => items' \subseteq local' /\ have' \subseteq items' /\ need' \intersect items' = {}
  PROVE  SyncInv'
BY DEF SyncInv, FoundInv, PullInv, PushInv

\* execute up to the last round: what the run sets out to pull is what it found.
LEMMA RoundsStep ==
  ASSUME SyncInv, N!Open \/ N!OpenFails \/ N!Round \/ N!RoundWasted \/ N!RoundsOver \/ N!RunFails
  PROVE  SyncInv'
<1>. USE DEF SyncInv
<1>1. CASE N!Open
  BY <1>1, SyncIdle DEF N!Open, SyncTypes, FoundInv
<1>2. CASE N!OpenFails
  BY <1>2, SyncIdle DEF N!OpenFails, SyncTypes, FoundInv
<1>3. ASSUME NEW h, NEW n \in SUBSET Events, N!ToPull(h, n)
      PROVE  pc' = "pull" /\ pending' \in SUBSET Events /\ (Down => pending' = n)
  BY <1>3 DEF N!ToPull, Down
<1>4. CASE N!Round
  <2>1. PICK h \in SUBSET (N!Have \ have), n \in SUBSET (N!Need \ need) :
           /\ have' = have \union h /\ need' = need \union n
           /\ IF have' = N!Have /\ need' = N!Need
              THEN complete' = TRUE /\ N!ToPull(have', need')
              ELSE UNCHANGED <<pc, pending, complete>>
    BY <1>4 DEF N!Round
  <2>2. /\ UNCHANGED <<dir, local, remote, items, batch, coming, got, acks, unserved>>
        /\ pc = "rounds" /\ ~complete /\ acks = {} /\ items \subseteq local
    BY <1>4 DEF N!Round, FoundInv
  <2>3. /\ have' \subseteq items /\ need' \intersect items = {}
        /\ have' \in SUBSET Events /\ need' \in SUBSET Events
    BY <2>1, <2>2 DEF N!Have, N!Need, FoundInv, SyncTypes
  <2>4. CASE have' = N!Have /\ need' = N!Need
    <3>1. pc' = "pull" /\ pending' \in SUBSET Events /\ (Down => pending' = need') /\ complete'
      BY <1>3, <2>1, <2>3, <2>4
    <3>2. remote \intersect InFirst \subseteq local \union need' /\ items \subseteq remote \union have'
      BY <2>2, <2>4 DEF N!Have, N!Need
    <3>3. SyncTypes' /\ FoundInv'
      BY <2>2, <2>3, <3>1, <3>2 DEF SyncTypes, FoundInv
    <3>4. PullInv' /\ PushInv'
      BY <2>2, <3>1 DEF PullInv, PushInv, Down
    <3>. QED
      BY <3>3, <3>4
  <2>5. CASE UNCHANGED <<pc, pending, complete>>
    <3>1. SyncTypes'
      BY <2>2, <2>3, <2>5 DEF SyncTypes
    <3>. QED
      BY <2>2, <2>3, <2>5, <3>1, SyncIdle
  <2>. QED
    BY <2>1, <2>4, <2>5
<1>5. CASE N!RoundWasted
  BY <1>5, SyncIdle DEF N!RoundWasted, SyncTypes, FoundInv
<1>6. CASE N!RoundsOver
  <2>1. pc' = "pull" /\ pending' \in SUBSET Events
    BY <1>3, <1>6 DEF N!RoundsOver, SyncTypes
  <2>. QED
    BY <1>6, <2>1, SyncIdle DEF N!RoundsOver, SyncTypes, FoundInv
<1>7. CASE N!RunFails
  BY <1>7, SyncIdle DEF N!RunFails, SyncTypes, FoundInv
<1>. QED
  BY <1>1, <1>2, <1>4, <1>5, <1>6, <1>7

\* pullEvents: a batch's ids move from those left to those in flight, and from there to
\* the store, to those left again or to those reported.
LEMMA PullStep ==
  ASSUME SyncInv, N!PullAsk \/ N!RelayForgets \/ N!PullEvent \/ N!PullEose \/ N!InsertFails \/ N!PullDone
  PROVE  SyncInv'
<1>. USE DEF SyncInv
<1>1. CASE N!PullAsk
  <2>1. PICK b \in SUBSET pending : /\ batch' = b /\ pending' = pending \ b /\ coming' \in SUBSET b
    BY <1>1 DEF N!PullAsk, N!Batches
  <2>2. /\ pc = "pull" /\ pc' = "pulling" /\ got' = {}
        /\ UNCHANGED <<dir, local, remote, items, have, need, acks, unserved, complete>>
    BY <1>1 DEF N!PullAsk
  <2>5. SyncTypes' /\ FoundInv' /\ PushInv'
    BY <2>1, <2>2 DEF SyncTypes, FoundInv, PushInv
  <2>6. PullInv'
    BY <2>1, <2>2 DEF PullInv, Down, N!Kept
  <2>. QED
    BY <2>5, <2>6
<1>2. CASE N!RelayForgets
  <2>1. PICK e \in need \intersect remote : remote' = remote \ {e}
    BY <1>2 DEF N!RelayForgets
  <2>2. /\ pc = "pull"
        /\ UNCHANGED <<dir, local, pc, items, have, need, pending, batch, coming, got, acks, unserved, complete>>
    BY <1>2 DEF N!RelayForgets
  <2>. QED
    BY <2>1, <2>2 DEF SyncTypes, FoundInv, PullInv, PushInv, Down, N!Kept
<1>3. CASE N!PullEvent
  <2>1. /\ got' \in SUBSET Events /\ coming' \in SUBSET Events
        /\ UNCHANGED <<dir, local, remote, pc, items, have, need, pending, batch, acks, unserved, complete>>
    BY <1>3 DEF N!PullEvent, SyncTypes
  <2>. QED
    BY <2>1 DEF SyncTypes, FoundInv, PullInv, PushInv, Down, Up, N!Kept
<1>4. ASSUME pending' = N!AskAgain(batch \ got) \union pending
      PROVE  /\ pending' \in SUBSET Events /\ pending \subseteq pending'
             /\ got # {} => batch \ got \subseteq pending'
  BY <1>4 DEF N!AskAgain, SyncTypes
<1>5. CASE N!PullEose
  <2>1. /\ pc = "pulling" /\ pc' = "pull" /\ local' = local \union {e \in got : StrictPow => N!HasValidPow(e)}
        /\ unserved' = IF got = {} THEN unserved \union batch ELSE unserved
        /\ pending' = N!AskAgain(batch \ got) \union pending /\ batch' = {} /\ got' = {}
        /\ UNCHANGED <<dir, remote, items, have, need, coming, acks, complete>>
    BY <1>5 DEF N!PullEose
  <2>2. got \subseteq local' \union N!Kept
    BY <2>1 DEF N!HasValidPow, N!Kept
  <2>3. batch \subseteq local' \union N!Kept \union unserved' \union pending'
    BY <1>4, <2>1, <2>2
  <2>4. SyncTypes' /\ FoundInv' /\ PushInv'
    BY <1>4, <2>1 DEF SyncTypes, FoundInv, PushInv
  <2>5. PullInv'
    BY <1>4, <2>1, <2>3 DEF PullInv, Down, N!Kept
  <2>. QED
    BY <2>4, <2>5
<1>6. CASE N!InsertFails
  <2>1. SyncTypes'
    BY <1>4, <1>6 DEF N!InsertFails, SyncTypes
  <2>. QED
    BY <1>6, <2>1, SyncIdle DEF N!InsertFails, FoundInv
<1>7. CASE N!PullDone
  <2>1. /\ pc = "pull" /\ pending = {} /\ pc' = "push" /\ pending' = IF Up THEN have ELSE {}
        /\ UNCHANGED <<dir, local, remote, items, have, need, batch, coming, got, acks, unserved, complete>>
    BY <1>7 DEF N!PullDone, Up
  <2>2. SyncTypes' /\ FoundInv' /\ PullInv'
    BY <2>1 DEF SyncTypes, FoundInv, PullInv, Down, N!Kept
  <2>3. PushInv'
    BY <2>1 DEF PushInv, Up
  <2>. QED
    BY <2>2, <2>3
<1>. QED
  BY <1>1, <1>2, <1>3, <1>5, <1>6, <1>7

\* pushEvents: a batch's ids move from those left to those sent, and from there to the
\* relay's store.
LEMMA PushStep ==
  ASSUME SyncInv, N!PushSend \/ N!PushOk \/ N!PushTimeout \/ N!PushDone \/ N!Done
  PROVE  SyncInv'
<1>. USE DEF SyncInv
<1>1. CASE N!PushSend
  <2>1. PICK b \in SUBSET pending : acks' = b \intersect local /\ pending' = pending \ b
    BY <1>1 DEF N!PushSend, N!Batches, N!ReadEventsFromStoreByIDs
  <2>2. /\ pc = "push" /\ pc' = "pushing"
        /\ UNCHANGED <<dir, local, remote, items, have, need, batch, coming, got, unserved, complete>>
    BY <1>1 DEF N!PushSend
  <2>5. SyncTypes' /\ FoundInv' /\ PullInv'
    BY <2>1, <2>2 DEF SyncTypes, FoundInv, PullInv, Down, N!Kept
  <2>6. have \subseteq local
    BY <2>2 DEF FoundInv
  <2>7. PushInv'
    BY <2>1, <2>2, <2>6 DEF PushInv, Up, FoundInv
  <2>. QED
    BY <2>5, <2>7
<1>2. CASE N!PushOk
  <2>1. PICK e \in acks : /\ acks' = acks \ {e}
                          /\ remote' = IF e \in Unwanted THEN remote ELSE remote \union {e}
    BY <1>2 DEF N!PushOk
  <2>2. /\ pc = "pushing"
        /\ UNCHANGED <<dir, local, pc, items, have, need, pending, batch, coming, got, unserved, complete>>
    BY <1>2 DEF N!PushOk
  <2>3. e \in Events /\ e \in local
    BY DEF SyncTypes, FoundInv
  <2>4. SyncTypes' /\ FoundInv' /\ PullInv'
    BY <2>1, <2>2, <2>3 DEF SyncTypes, FoundInv, PullInv, Down, N!Kept
  <2>5. PushInv'
    BY <2>1, <2>2 DEF PushInv, Up
  <2>. QED
    BY <2>4, <2>5
<1>3. CASE N!PushTimeout
  <2>1. remote' \in SUBSET Events
    BY <1>3 DEF N!PushTimeout, SyncTypes, FoundInv
  <2>. QED
    BY <1>3, <2>1, SyncIdle DEF N!PushTimeout, SyncTypes, FoundInv
<1>4. CASE N!PushDone
  BY <1>4 DEF N!PushDone, N!PushWaited, SyncTypes, FoundInv, PullInv, PushInv, Down, Up, N!Kept
<1>5. CASE N!Done
  <2>1. SyncTypes' /\ FoundInv' /\ PullInv'
    BY <1>5 DEF N!Done, SyncTypes, FoundInv, PullInv, Down, N!Kept
  <2>2. PushInv'
    BY <1>5 DEF N!Done, FoundInv, PushInv, Up
  <2>. QED
    BY <2>1, <2>2
<1>. QED
  BY <1>1, <1>2, <1>3, <1>4, <1>5

\* A step keeps the account of every id reconciliation found.
LEMMA SyncStep == ASSUME SyncInv, [N!Next]_(N!vars) PROVE SyncInv'
<1>1. CASE UNCHANGED N!vars
  BY <1>1 DEF N!vars, SyncInv, SyncTypes, FoundInv, PullInv, PushInv, Down, Up, N!Kept
<1>. QED
  BY <1>1, RoundsStep, PullStep, PushStep DEF N!Next

\* A run has found nothing when it begins.
LEMMA SyncInit == ASSUME N!Init PROVE SyncInv
BY DEF N!Init, SyncInv, SyncTypes, FoundInv, PullInv, PushInv

\* When a run is over every id it found is accounted for.
LEMMA SyncAccounted == ASSUME SyncInv PROVE N!SyncComplete
<1>. SUFFICES ASSUME pc = "idle", complete
              PROVE  /\ Down => (remote \intersect InFirst) \subseteq local \union N!Kept \union unserved
                     /\ Up => items \subseteq remote \union Unwanted
  BY DEF N!SyncComplete, Down, Up
<1>. QED
  BY DEF SyncInv, FoundInv, PullInv, PushInv

\* A run that found every difference leaves none out, whatever the relay's limit,
\* the batch size and the order of the answers (execute, pullEvents, pushEvents).
THEOREM SyncAccounts == N!Spec => []N!SyncComplete
BY SyncStep, SyncInit, SyncAccounted, PTL DEF N!Spec

-----------------------------------------------------------------------------
(* The commands together: part names the one that runs, and the variables  *)
(* of the others are 0.                                                    *)

VARIABLE part

lists == <<clock, want>>
targets == <<list, answers, found, reached, anyRestricted, loginErr, report, saved, exit>>
session == <<ops, signer, member, retried, before, signing, state, up, down, authed, stored, challenges,
             logins, results>>
sync == <<dir, local, remote, round, items, have, need, pending, batch, coming, got, acks, unserved,
          pushed, complete, faults, runs>>

client == <<part, held, cmd, at, asked, pc, lists, targets, session, sync>>

NoLists == clock = 0 /\ want = 0
NoTargets == /\ list = 0 /\ answers = 0 /\ found = 0 /\ reached = 0 /\ anyRestricted = 0
             /\ loginErr = 0 /\ report = 0 /\ saved = 0 /\ exit = 0
NoSession == /\ ops = 0 /\ signer = 0 /\ member = 0 /\ retried = 0 /\ before = 0 /\ signing = 0
             /\ state = 0 /\ up = 0 /\ down = 0 /\ authed = 0 /\ stored = 0 /\ challenges = 0
             /\ logins = 0 /\ results = 0
NoSync == /\ dir = 0 /\ local = 0 /\ remote = 0 /\ round = 0 /\ items = 0 /\ have = 0 /\ need = 0
          /\ pending = 0 /\ batch = 0 /\ coming = 0 /\ got = 0 /\ acks = 0 /\ unserved = 0
          /\ pushed = 0 /\ complete = 0 /\ faults = 0 /\ runs = 0

\* No command of this module runs.
ClientOff == /\ held = 0 /\ cmd = 0 /\ at = 0 /\ asked = 0 /\ pc = 0
             /\ NoLists /\ NoTargets /\ NoSession /\ NoSync

ClientInit ==
    \/ part = "list" /\ L!Init /\ at = 0 /\ asked = 0 /\ pc = 0 /\ NoTargets /\ NoSession /\ NoSync
    \/ part = "targets" /\ T!Init /\ held = 0 /\ pc = 0 /\ NoLists /\ NoSession /\ NoSync
    \/ part = "session" /\ S!Init /\ cmd = 0 /\ NoLists /\ NoTargets /\ NoSync
    \/ part = "negsync" /\ N!Init /\ held = 0 /\ cmd = 0 /\ at = 0 /\ asked = 0
                        /\ NoLists /\ NoTargets /\ NoSession

ClientNext ==
    \/ part = "list" /\ L!Next /\ UNCHANGED <<part, at, asked, pc, targets, session, sync>>
    \/ part = "targets" /\ T!Next /\ UNCHANGED <<part, held, pc, lists, session, sync>>
    \/ part = "session" /\ S!Next /\ UNCHANGED <<part, cmd, lists, targets, sync>>
    \/ part = "negsync" /\ N!Next /\ UNCHANGED <<part, held, cmd, at, asked, lists, targets, session>>

ClientSpec == ClientInit /\ [][ClientNext]_client

-----------------------------------------------------------------------------
(* With every command over, the newest version of a list on the relays     *)
(* holds exactly the edits that reached one, though publishes failed part  *)
(* way, reads failed or the clock was set back (listCommand).              *)
NoEditLost == part = "list" => L!NoEditLost

(* A publish or a read says only what happened: an event reported accepted *)
(* is one the relay took, whatever OKs come late or for the login; a       *)
(* connection logs in once; a read that answered a challenge never returns *)
(* what an anonymous reader sees unless the login failed; and an empty     *)
(* answer with exit 0 means that none refused and, unless there was nobody *)
(* to ask, that some target answered (relaySession, awaitOK,               *)
(* ErrNoReachableTargets, LoginError).                                     *)
RelaysHonest ==
    /\ [](part = "session" => S!AcceptedIsStored /\ S!OneLogin)
    /\ [][part = "session" => S!AnonymousOnlyAtLogin]_client
    /\ [](part = "targets" => T!EmptyIsHonest)

(* A sync that ended with every difference found leaves both stores with   *)
(* what the other had: pulled or reported unserved, pushed or rejected     *)
(* (execute, pullEvents, pushEvents).                                      *)
SyncComplete == part = "negsync" => N!SyncComplete

-----------------------------------------------------------------------------
\* What the proofs ask of the constants.
ClientAssumption == ListAssumption /\ SessionAssumption

\* The one that runs is as its own invariant says.
ClientInv ==
  /\ part = "list" => ListInv
  /\ part = "targets" => TargetsInv
  /\ part = "session" => SessionInv
  /\ part = "negsync" => SyncInv

\* Each begins in a state of its invariant.
LEMMA ClientBegin == ASSUME ClientAssumption, ClientInit PROVE ClientInv
<1>. USE DEF ClientAssumption, ClientInv
<1>1. CASE part = "list" /\ L!Init
  BY <1>1, ListInit
<1>2. CASE part = "targets" /\ T!Init
  BY <1>2, TargetsInit
<1>3. CASE part = "session" /\ S!Init
  BY <1>3, SessionInit
<1>4. CASE part = "negsync" /\ N!Init
  BY <1>4, SyncInit
<1>. QED
  BY <1>1, <1>2, <1>3, <1>4 DEF ClientInit

\* A step of the composition is one of the command that runs.
LEMMA ClientOwn ==
  ASSUME [ClientNext]_client
  PROVE  /\ part' = part
         /\ part = "list" => [L!Next]_(L!vars)
         /\ part = "targets" => [T!Next]_(T!vars)
         /\ part = "session" => [S!Next]_(S!vars)
         /\ part = "negsync" => [N!Next]_(N!vars)
<1>1. CASE ClientNext
  BY <1>1 DEF ClientNext
<1>2. CASE UNCHANGED client
  BY <1>2 DEF client, lists, targets, session, sync, L!vars, T!vars, S!vars, S!given, N!vars
<1>. QED
  BY <1>1, <1>2

\* A step keeps the invariant of the command that runs.
LEMMA ClientStep == ASSUME ClientAssumption, ClientInv, [ClientNext]_client PROVE ClientInv'
<1>. USE DEF ClientAssumption, ClientInv
<1>1. ASSUME part = "list" PROVE ListInv'
  BY <1>1, ClientOwn, ListStep
<1>2. ASSUME part = "targets" PROVE TargetsInv'
  BY <1>2, ClientOwn, TargetsStep
<1>3. ASSUME part = "session" PROVE SessionInv'
  BY <1>3, ClientOwn, SessionStep
<1>4. ASSUME part = "negsync" PROVE SyncInv'
  BY <1>4, ClientOwn, SyncStep
<1>. QED
  BY <1>1, <1>2, <1>3, <1>4, ClientOwn

\* No edit of a list is lost, for any relays, items and clock (listCommand,
\* currentReplaceable, replaceOne).
THEOREM EditsStay == ASSUME ClientAssumption PROVE ClientSpec => []NoEditLost
<1>1. ClientInit => ClientInv
  BY ClientBegin
<1>2. ClientInv /\ [ClientNext]_client => ClientInv'
  BY ClientStep
<1>3. ClientInv => NoEditLost
  BY ListKept DEF ClientInv, NoEditLost
<1>. QED
  BY <1>1, <1>2, <1>3, PTL DEF ClientSpec

\* A session and a command over targets report only what happened, for any programs,
\* signers, relays and targets (relaySession, awaitOK, Find, PublishToTargets).
THEOREM RelaysStayHonest == ASSUME ClientAssumption PROVE ClientSpec => RelaysHonest
<1>1. ClientInit => ClientInv
  BY ClientBegin
<1>2. ClientInv /\ [ClientNext]_client => ClientInv'
  BY ClientStep
<1>3. ClientInv => /\ part = "session" => S!AcceptedIsStored /\ S!OneLogin
                   /\ part = "targets" => T!EmptyIsHonest
  BY DEF ClientInv, SessionInv, OksTrue, LoginInv, S!OneLogin, TargetsInv
<1>4. ClientInv /\ [ClientNext]_client => [part = "session" => S!AnonymousOnlyAtLogin]_client
  BY ClientOwn, AnonymousAtLogin DEF ClientInv, ClientAssumption
<1>. QED
  BY <1>1, <1>2, <1>3, <1>4, PTL DEF ClientSpec, RelaysHonest

\* A complete sync leaves nothing unaccounted, for any stores, filters, limits and
\* batch sizes (execute, pullEvents, pushEvents).
THEOREM SyncStaysComplete == ASSUME ClientAssumption PROVE ClientSpec => []SyncComplete
<1>1. ClientInit => ClientInv
  BY ClientBegin
<1>2. ClientInv /\ [ClientNext]_client => ClientInv'
  BY ClientStep
<1>3. ClientInv => SyncComplete
  BY SyncAccounted DEF ClientInv, SyncComplete
<1>. QED
  BY <1>1, <1>2, <1>3, PTL DEF ClientSpec
=============================================================================
