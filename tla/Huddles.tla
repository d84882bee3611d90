------------------------------- MODULE Huddles -------------------------------
(***************************************************************************)
(* A huddle as the relay runs it: the room with its sessions and one       *)
(* listener (HuddleRoom), and the signalling of one of those sessions with *)
(* its client (SfuNegotiation).  The two share nothing the properties are  *)
(* about; side names the one that runs, and the variables of the other are *)
(* 0.                                                                      *)
(*                                                                         *)
(* The later parts prove HuddlesTruthful, for any sessions, keys, indexes, *)
(* tracks and candidates, and whichever joins are refused or not written.  *)
(***************************************************************************)
EXTENDS Integers, Sequences, TLAPS

CONSTANTS Sessions, PubkeyOf, Indexes, RoomFaults, FrameBuffer, MaxFrames, None
VARIABLES sess, room, epoch, hub, hello, controls, audio, spoken, client, roster, frames, joinErr

R == INSTANCE HuddleRoom WITH Faults <- RoomFaults

CONSTANTS Tracks, Local, Remote, MaxPending
VARIABLES sig, added, offered, agreed, adder, negotiated, pending, loop, inbox, outbox, gathered,
          sent, held, remote, early, applied, peer

N == INSTANCE SfuNegotiation WITH client <- peer

VARIABLE side

inRoom == <<sess, room, epoch, hub, hello, controls, audio, spoken, client, roster, frames, joinErr>>
signalling == <<sig, added, offered, agreed, adder, negotiated, pending, loop, inbox, outbox, gathered,
                sent, held, remote, early, applied, peer>>

huddle == <<side, inRoom, signalling>>

NoRoom == /\ sess = 0 /\ room = 0 /\ epoch = 0 /\ hub = 0 /\ hello = 0 /\ controls = 0 /\ audio = 0
          /\ spoken = 0 /\ client = 0 /\ roster = 0 /\ frames = 0 /\ joinErr = 0
NoSignalling == /\ sig = 0 /\ added = 0 /\ offered = 0 /\ agreed = 0 /\ adder = 0 /\ negotiated = 0
                /\ pending = 0 /\ loop = 0 /\ inbox = 0 /\ outbox = 0 /\ gathered = 0 /\ sent = 0
                /\ held = 0 /\ remote = 0 /\ early = 0 /\ applied = 0 /\ peer = 0

\* There is no huddle.
HuddleOff == side = "none" /\ NoRoom /\ NoSignalling

HuddleInit == \/ side = "room" /\ R!Init /\ NoSignalling
              \/ side = "tracks" /\ N!Init /\ NoRoom

HuddleNext == \/ side = "room" /\ R!Next /\ UNCHANGED <<side, signalling>>
              \/ side = "tracks" /\ N!Next /\ UNCHANGED <<side, inRoom>>

HuddleSpec == HuddleInit /\ [][HuddleNext]_huddle

-----------------------------------------------------------------------------
(* What a huddle shows is so: a voice is never put under another person's  *)
(* name, however roster news and audio overtake each other while an index  *)
(* changes hands; whoever holds an index of a listed room is a session     *)
(* that still runs or one whose join could not be written; and a client    *)
(* sees no candidate before the description it belongs to and loses none   *)
(* of its own for having come before its offer (deliver, applyRoster,      *)
(* teardown, queueLocalCandidate, addRemoteCandidate).                     *)
HuddlesTruthful ==
    /\ side = "room" => R!NeverMisattributed /\ R!LiveRoomsAreLive
    /\ side = "tracks" => N!NoEarlyCandidate /\ N!RemoteCandidatesApplied


-----------------------------------------------------------------------------
(* The room: its sessions and one listener                                 *)

\* No peer or key is taken for nobody.
RoomAssumption ==
  /\ None \notin [key : {PubkeyOf[s] : s \in Sessions}, epoch : Nat, by : Sessions]

People == {PubkeyOf[s] : s \in Sessions}
Entries == [key : People, epoch : Nat]
Rosters == UNION {[X -> Entries] : X \in SUBSET Indexes}
Controls == [t : {"joined"}, at : Indexes, key : People, epoch : Nat, peers : Rosters]
            \cup [t : {"left"}, at : Indexes, key : People, epoch : Nat]
Voices == [at : Indexes, epoch : Nat, by : People]
Heard == [by : People, author : People \cup {None}]

\* A session that joined is in the room, once, until it leaves; one whose join was
\* not written stays.
SeatsInv ==
  /\ sess \in [Sessions -> {"new", "joined", "in", "leaving", "left", "over", "dropped"}]
  /\ room \in [Indexes -> [key : People, epoch : Nat, by : Sessions] \cup {None}]
  /\ epoch \in [Indexes -> Nat]
  /\ \A i \in Indexes : room[i] # None => /\ room[i].key = PubkeyOf[room[i].by]
                                          /\ sess[room[i].by] \in {"joined", "in", "leaving", "dropped"}
  /\ \A i, j \in Indexes : room[i] # None /\ room[j] # None /\ room[i].by = room[j].by => i = j
  /\ \A s \in Sessions : sess[s] \in {"joined", "in", "leaving"} => R!InRoom(s)

NewsTypes ==
  /\ \A s \in Sessions : sess[s] = "joined" => hello[s] \in Rosters
  /\ \A s \in Sessions : sess[s] = "left" => hello[s].at \in Indexes /\ hello[s].epoch \in Nat
  /\ DOMAIN hello = Sessions
  /\ controls \in Seq(Controls) /\ audio \in Seq(Voices) /\ roster \in Rosters
  /\ frames \in Seq(Heard)

\* Roster r has k at index i with epoch e.
Lists(r, i, e, k) == i \in DOMAIN r /\ r[i].epoch = e /\ r[i].key = k

\* The room, a roster on its way to a session, news, a voice on its way or the listener
\* has k there.
InSeat(i, e, k) == room[i] # None /\ room[i].epoch = e /\ room[i].key = k
InHello(i, e, k) == \E s \in Sessions : sess[s] = "joined" /\ Lists(hello[s], i, e, k)
InMessage(m, i, e, k) ==
  /\ m.t = "joined"
  /\ \/ m.at = i /\ m.epoch = e /\ m.key = k
     \/ Lists(m.peers, i, e, k)
InNews(i, e, k) == \E n \in DOMAIN controls : InMessage(controls[n], i, e, k)
InAudio(i, e, k) == \E n \in DOMAIN audio : audio[n].at = i /\ audio[n].epoch = e /\ audio[n].by = k

Tells(i, e, k) ==
  InSeat(i, e, k) \/ InHello(i, e, k) \/ InNews(i, e, k) \/ InAudio(i, e, k) \/ Lists(roster, i, e, k)

\* An epoch of an index is told of one holder only, and only once it was handed out.
OneHolder ==
  \A i \in Indexes, e \in Nat, k \in People :
    Tells(i, e, k) => e <= epoch[i] /\ \A l \in People : Tells(i, e, l) => l = k

RoomInv == SeatsInv /\ NewsTypes /\ OneHolder /\ R!NeverMisattributed

\* A queue without its head.
LEMMA QueueTail ==
  ASSUME NEW X, NEW q \in Seq(X), q # <<>>
  PROVE  /\ Tail(q) \in Seq(X) /\ 1 \in DOMAIN q /\ Head(q) = q[1] /\ q[1] \in X
         /\ \A n \in DOMAIN Tail(q) : n + 1 \in DOMAIN q /\ Tail(q)[n] = q[n + 1]
OBVIOUS

\* A queue with one message more.
LEMMA QueueAppend ==
  ASSUME NEW X, NEW q \in Seq(X), NEW x \in X
  PROVE  /\ Append(q, x) \in Seq(X)
         /\ \A n \in DOMAIN Append(q, x) : Append(q, x)[n] = x \/ (n \in DOMAIN q /\ Append(q, x)[n] = q[n])
OBVIOUS

\* What a roster is.
LEMMA RosterOf ==
  ASSUME NEW r \in Rosters
  PROVE  DOMAIN r \subseteq Indexes /\ \A i \in DOMAIN r : r[i] \in Entries
BY DEF Rosters

\* PlaceOf finds the seat of a session that has one.
LEMMA SeatOf ==
  ASSUME NEW s \in Sessions, R!InRoom(s)
  PROVE  R!PlaceOf(s) \in Indexes /\ room[R!PlaceOf(s)] # None /\ room[R!PlaceOf(s)].by = s
BY DEF R!InRoom, R!PlaceOf

\* Sessions take a seat when they join and give it up when they leave (Rooms.Join,
\* teardown).
LEMMA SeatsStep ==
  ASSUME RoomAssumption, SeatsInv, [R!Next]_(R!vars)
  PROVE  SeatsInv'
<1>. DEFINE Where == {"new", "joined", "in", "leaving", "left", "over", "dropped"}
<1>1. ASSUME NEW s \in Sessions, NEW w \in Where, R!Goes(s, w), UNCHANGED <<room, epoch>>,
             R!InRoom(s) => w \in {"joined", "in", "leaving", "dropped"},
             w \in {"joined", "in", "leaving"} => R!InRoom(s)
      PROVE  SeatsInv'
  BY <1>1 DEF SeatsInv, R!Goes, R!InRoom
<1>2. ASSUME UNCHANGED <<sess, room, epoch>> PROVE SeatsInv'
  BY <1>2 DEF SeatsInv, R!InRoom
<1>3. ASSUME NEW s \in Sessions, R!Refused(s) \/ R!JoinError(s) PROVE SeatsInv'
  <2>1. R!Goes(s, "over") /\ UNCHANGED <<room, epoch>> /\ ~R!InRoom(s)
    BY <1>3 DEF R!Refused, R!JoinError, SeatsInv, R!InRoom
  <2>. QED
    BY <1>1, <2>1
<1>4. ASSUME NEW s \in Sessions, R!Announce(s) \/ R!JoinedUnwritten(s) \/ R!Ends(s) PROVE SeatsInv'
  <2>1. R!InRoom(s) /\ UNCHANGED <<room, epoch>>
    BY <1>4 DEF R!Announce, R!JoinedUnwritten, R!Ends, SeatsInv
  <2>2. R!Goes(s, "in") \/ R!Goes(s, "dropped") \/ R!Goes(s, "leaving")
    BY <1>4 DEF R!Announce, R!JoinedUnwritten, R!Ends
  <2>. QED
    BY <1>1, <2>1, <2>2
<1>5. ASSUME NEW s \in Sessions, R!SayLeft(s) PROVE SeatsInv'
  <2>1. R!Goes(s, "over") /\ UNCHANGED <<room, epoch>> /\ ~R!InRoom(s)
    BY <1>5 DEF R!SayLeft, SeatsInv, R!InRoom
  <2>. QED
    BY <1>1, <2>1
<1>6. ASSUME NEW s \in Sessions, R!Join(s) PROVE SeatsInv'
  <2>1. PICK i \in Indexes \ R!Peers :
          /\ epoch' = [epoch EXCEPT ![i] = @ + 1]
          /\ room' = [room EXCEPT ![i] = [key |-> PubkeyOf[s], epoch |-> epoch[i] + 1, by |-> s]]
    BY <1>6 DEF R!Join
  <2>2. DEFINE seat == [key |-> PubkeyOf[s], epoch |-> epoch[i] + 1, by |-> s]
  <2>3. seat \in [key : People, epoch : Nat, by : Sessions] /\ seat.by = s /\ seat.key = PubkeyOf[s] /\ seat # None
    BY DEF SeatsInv, People, RoomAssumption
  <2>4. sess[s] = "new" /\ sess' = [sess EXCEPT ![s] = "joined"] /\ ~R!InRoom(s) /\ room[i] = None
    BY <1>6 DEF R!Join, R!Goes, SeatsInv, R!InRoom, R!Peers
  <2>5. room' = [room EXCEPT ![i] = seat]
    BY <2>1
  <2>. HIDE DEF seat
  <2>6. /\ sess' \in [Sessions -> Where] /\ epoch' \in [Indexes -> Nat]
        /\ room' \in [Indexes -> [key : People, epoch : Nat, by : Sessions] \cup {None}]
    BY <2>1, <2>3, <2>4, <2>5 DEF SeatsInv
  <2>7. \A j \in Indexes : room'[j] = IF j = i THEN seat ELSE room[j]
    BY <2>5 DEF SeatsInv
  <2>8. \A t \in Sessions : sess'[t] = IF t = s THEN "joined" ELSE sess[t]
    BY <2>4 DEF SeatsInv
  <2>9. \A j \in Indexes : room[j] # None => room[j].by # s /\ room[j].by \in Sessions
    BY <2>4 DEF R!InRoom, SeatsInv
  <2>10. \A j \in Indexes : room'[j] # None =>
           /\ room'[j].key = PubkeyOf[room'[j].by]
           /\ sess'[room'[j].by] \in {"joined", "in", "leaving", "dropped"}
    BY <2>3, <2>7, <2>8, <2>9 DEF SeatsInv
  <2>11. \A j, k \in Indexes : room'[j] # None /\ room'[k] # None /\ room'[j].by = room'[k].by => j = k
    BY <2>3, <2>7, <2>9 DEF SeatsInv
  <2>12. ASSUME NEW t \in Sessions, sess'[t] \in {"joined", "in", "leaving"} PROVE R!InRoom(t)'
    <3>1. CASE t = s
      BY <2>3, <2>7, <3>1 DEF R!InRoom
    <3>2. CASE t # s
      BY <2>4, <2>7, <2>8, <2>12, <3>2 DEF SeatsInv, R!InRoom
    <3>. QED
      BY <3>1, <3>2
  <2>. QED
    BY <2>6, <2>10, <2>11, <2>12 DEF SeatsInv
<1>7. ASSUME NEW s \in Sessions, R!Leave(s) PROVE SeatsInv'
  <2>1. R!InRoom(s) /\ sess' = [sess EXCEPT ![s] = "left"] /\ epoch' = epoch
    BY <1>7 DEF R!Leave, R!Goes, SeatsInv
  <2>2. PICK i \in Indexes : i = R!PlaceOf(s) /\ room[i] # None /\ room[i].by = s
    BY <2>1, SeatOf
  <2>3. room' = [room EXCEPT ![i] = None]
    BY <1>7, <2>2 DEF R!Leave
  <2>4. \A j \in Indexes : room'[j] = IF j = i THEN None ELSE room[j]
    BY <2>3 DEF SeatsInv
  <2>5. \A j \in Indexes : room'[j] # None => room[j].by # s
    BY <2>2, <2>4 DEF SeatsInv
  <2>6. /\ sess' \in [Sessions -> Where]
        /\ room' \in [Indexes -> [key : People, epoch : Nat, by : Sessions] \cup {None}]
    BY <2>1, <2>3 DEF SeatsInv
  <2>7. \A t \in Sessions : sess'[t] = IF t = s THEN "left" ELSE sess[t]
    BY <2>1 DEF SeatsInv
  <2>. QED
    BY <2>1, <2>2, <2>4, <2>5, <2>6, <2>7 DEF SeatsInv, R!InRoom
<1>8. ASSUME NEW s \in Sessions, R!Speak(s) PROVE SeatsInv'
  BY <1>2, <1>8 DEF R!Speak, R!server
<1>9. ASSUME R!Dial \/ R!ReadControl \/ R!ReadFrame \/ R!Consume \/ R!Lost \/ R!Close PROVE SeatsInv'
  BY <1>2, <1>9 DEF R!Dial, R!ReadControl, R!ReadFrame, R!Consume, R!Lost, R!Close, R!server
<1>10. CASE UNCHANGED R!vars
  BY <1>2, <1>10 DEF R!vars
<1>. QED
  BY <1>3, <1>4, <1>5, <1>6, <1>7, <1>8, <1>9, <1>10 DEF R!Next

\* The room as it is, with and without a newcomer, is a roster, and so is what the
\* listener makes of the news (Rooms.Join, applyRoster, applyControl).
LEMMA RostersMade ==
  ASSUME SeatsInv
  PROVE  /\ R!Present \in Rosters
         /\ \A i \in DOMAIN R!Present : Lists(R!Present, i, room[i].epoch, room[i].key) /\ room[i] # None /\ i \in Indexes
         /\ \A s \in Sessions, i \in Indexes :
              LET r == [j \in R!Peers \cup {i} |->
                          IF j = i THEN [key |-> PubkeyOf[s], epoch |-> epoch[i] + 1] ELSE R!Present[j]]
              IN  r \in Rosters
<1>1. R!Peers \in SUBSET Indexes /\ \A i \in R!Peers : R!Present[i] \in Entries
  BY DEF R!Peers, R!Present, SeatsInv, Entries
<1>2. R!Present \in [R!Peers -> Entries]
  BY <1>1 DEF R!Present
<1>3. ASSUME NEW s \in Sessions, NEW i \in Indexes
      PROVE  [j \in R!Peers \cup {i} |->
               IF j = i THEN [key |-> PubkeyOf[s], epoch |-> epoch[i] + 1] ELSE R!Present[j]] \in Rosters
  <2>1. [key |-> PubkeyOf[s], epoch |-> epoch[i] + 1] \in Entries
    BY DEF Entries, People, SeatsInv
  <2>2. [j \in R!Peers \cup {i} |->
           IF j = i THEN [key |-> PubkeyOf[s], epoch |-> epoch[i] + 1] ELSE R!Present[j]]
         \in [R!Peers \cup {i} -> Entries]
    BY <1>1, <2>1
  <2>. QED
    BY <1>1, <2>2 DEF Rosters
<1>. QED
  BY <1>1, <1>2, <1>3 DEF Rosters, Lists, R!Present, R!Peers

\* The news are well formed.
LEMMA NewsStep ==
  ASSUME RoomAssumption, SeatsInv, NewsTypes, [R!Next]_(R!vars)
  PROVE  NewsTypes'
<1>. USE DEF NewsTypes
<1>1. ASSUME NEW s \in Sessions, NEW w \in {"over", "in", "dropped", "leaving"}, R!Goes(s, w),
             UNCHANGED <<hello, audio, roster, frames>>, controls' \in Seq(Controls)
      PROVE  NewsTypes'
  BY <1>1 DEF R!Goes, SeatsInv
<1>2. ASSUME NEW m \in Controls, R!Broadcast(m) PROVE controls' \in Seq(Controls)
  BY <1>2, QueueAppend DEF R!Broadcast
<1>3. ASSUME NEW s \in Sessions, R!Refused(s) \/ R!JoinError(s) \/ R!JoinedUnwritten(s) \/ R!Ends(s) PROVE NewsTypes'
  BY <1>1, <1>3 DEF R!Refused, R!JoinError, R!JoinedUnwritten, R!Ends, R!listener
<1>4. ASSUME NEW s \in Sessions, R!Join(s) PROVE NewsTypes'
  <2>1. PICK i \in Indexes \ R!Peers :
          hello' = [hello EXCEPT ![s] = [j \in R!Peers \cup {i} |->
                         IF j = i THEN [key |-> PubkeyOf[s], epoch |-> epoch[i] + 1] ELSE R!Present[j]]]
    BY <1>4 DEF R!Join
  <2>2. PICK r \in Rosters : hello' = [hello EXCEPT ![s] = r]
    BY <2>1, RostersMade
  <2>3. sess' = [sess EXCEPT ![s] = "joined"] /\ UNCHANGED <<controls, audio, roster, frames>>
    BY <1>4 DEF R!Join, R!Goes, R!listener
  <2>. QED
    BY <2>2, <2>3 DEF SeatsInv
<1>5. ASSUME NEW s \in Sessions, R!Announce(s) PROVE NewsTypes'
  <2>1. PICK i \in Indexes : i = R!PlaceOf(s) /\ room[i] # None /\ room[i].by = s
    BY <1>5, SeatOf DEF R!Announce, SeatsInv
  <2>2. [t |-> "joined", at |-> i, key |-> PubkeyOf[s], epoch |-> room[i].epoch, peers |-> hello[s]] \in Controls
    <3>1. hello[s] \in Rosters /\ room[i].epoch \in Nat /\ PubkeyOf[s] \in People
      BY <1>5, <2>1 DEF R!Announce, SeatsInv, People
    <3>. QED
      BY <3>1 DEF Controls
  <2>3. controls' \in Seq(Controls)
    BY <1>2, <1>5, <2>1, <2>2 DEF R!Announce
  <2>. QED
    BY <1>1, <1>5, <2>3 DEF R!Announce, R!listener
<1>6. ASSUME NEW s \in Sessions, R!SayLeft(s) PROVE NewsTypes'
  <2>1. [t |-> "left", at |-> hello[s].at, key |-> PubkeyOf[s], epoch |-> hello[s].epoch] \in Controls
    BY <1>6 DEF R!SayLeft, Controls, People
  <2>2. controls' \in Seq(Controls)
    BY <1>2, <1>6, <2>1 DEF R!SayLeft
  <2>. QED
    BY <1>1, <1>6, <2>2 DEF R!SayLeft, R!listener
<1>7. ASSUME NEW s \in Sessions, R!Leave(s) PROVE NewsTypes'
  <2>1. PICK i \in Indexes : i = R!PlaceOf(s) /\ room[i] # None /\ room[i].by = s
    BY <1>7, SeatOf DEF R!Leave, SeatsInv
  <2>2. room[i].epoch \in Nat
    BY <2>1 DEF SeatsInv
  <2>3. /\ hello' = [hello EXCEPT ![s] = [at |-> i, epoch |-> room[i].epoch]]
        /\ sess' = [sess EXCEPT ![s] = "left"] /\ UNCHANGED <<controls, audio, roster, frames>>
    BY <1>7, <2>1 DEF R!Leave, R!Goes, R!listener
  <2>. QED
    BY <2>2, <2>3 DEF SeatsInv
<1>8. ASSUME NEW s \in Sessions, R!Speak(s) PROVE NewsTypes'
  <2>1. PICK i \in Indexes : i = R!PlaceOf(s) /\ room[i] # None /\ room[i].by = s
    BY <1>8, SeatOf DEF R!Speak
  <2>2. [at |-> i, epoch |-> room[i].epoch, by |-> PubkeyOf[s]] \in Voices
    BY <2>1 DEF Voices, People, SeatsInv
  <2>3. audio' = audio \/ audio' = Append(audio, [at |-> i, epoch |-> room[i].epoch, by |-> PubkeyOf[s]])
    BY <1>8, <2>1 DEF R!Speak
  <2>4. audio' \in Seq(Voices)
    BY <2>2, <2>3, QueueAppend
  <2>. QED
    BY <1>8, <2>4 DEF R!Speak, R!server, R!listener
<1>9. CASE R!Dial
  BY <1>9, RostersMade DEF R!Dial, R!server
<1>10. CASE R!ReadControl
  <2>1. /\ controls' \in Seq(Controls) /\ Head(controls) \in Controls
        /\ UNCHANGED <<sess, hello, audio, frames>>
    BY <1>10, QueueTail DEF R!ReadControl, R!server
  <2>2. PICK m \in Controls : m = Head(controls)
    BY <2>1
  <2>3. DOMAIN roster \subseteq Indexes /\ \A i \in DOMAIN roster : roster[i] \in Entries
    BY RosterOf
  <2>4. CASE m.t = "joined"
    <3>1. m.at \in Indexes /\ m.key \in People /\ m.epoch \in Nat /\ m.peers \in Rosters
      BY <2>4 DEF Controls
    <3>2. DOMAIN m.peers \subseteq Indexes /\ \A i \in DOMAIN m.peers : m.peers[i] \in Entries
      BY <3>1, RosterOf
    <3>3. [key |-> m.key, epoch |-> m.epoch] \in Entries
      BY <3>1 DEF Entries
    <3>4. roster' = R!AppliedRoster(m)
      BY <1>10, <2>2, <2>4 DEF R!ReadControl
    <3>5. roster' \in [DOMAIN roster \cup DOMAIN m.peers \cup {m.at} -> Entries]
      BY <2>3, <3>2, <3>3, <3>4 DEF R!AppliedRoster
    <3>6. DOMAIN roster \cup DOMAIN m.peers \cup {m.at} \in SUBSET Indexes
      BY <2>3, <3>1, <3>2
    <3>7. roster' \in Rosters
      BY <3>5, <3>6 DEF Rosters
    <3>. QED
      BY <2>1, <3>7
  <2>5. CASE m.t # "joined"
    <3>1. roster' = R!AppliedLeft(m)
      BY <1>10, <2>2, <2>5 DEF R!ReadControl
    <3>2. CASE roster' = roster
      BY <2>1, <3>2
    <3>3. CASE roster' = [i \in DOMAIN roster \ {m.at} |-> roster[i]]
      <4>1. roster' \in [DOMAIN roster \ {m.at} -> Entries] /\ DOMAIN roster \ {m.at} \in SUBSET Indexes
        BY <2>3, <3>3
      <4>2. roster' \in Rosters
        BY <4>1 DEF Rosters
      <4>. QED
        BY <2>1, <4>2
    <3>. QED
      BY <3>1, <3>2, <3>3 DEF R!AppliedLeft
  <2>. QED
    BY <2>4, <2>5
<1>11. CASE R!ReadFrame
  <2>1. /\ audio' \in Seq(Voices) /\ Head(audio) \in Voices
        /\ UNCHANGED <<sess, hello, controls, roster>>
    BY <1>11, QueueTail DEF R!ReadFrame, R!server
  <2>2. PICK f \in Voices : f = Head(audio)
    BY <2>1
  <2>3. R!Author(f) \in People \cup {None} /\ f.by \in People
    BY RosterOf DEF R!Author, Entries, Voices
  <2>4. [by |-> f.by, author |-> R!Author(f)] \in Heard
    BY <2>3 DEF Heard
  <2>5. frames' = frames \/ frames' = Append(frames, [by |-> f.by, author |-> R!Author(f)])
    BY <1>11, <2>2 DEF R!ReadFrame
  <2>6. frames' \in Seq(Heard)
    BY <2>4, <2>5, QueueAppend
  <2>. QED
    BY <2>1, <2>6
<1>12. CASE R!Consume
  BY <1>12, QueueTail DEF R!Consume, R!server
<1>13. CASE R!Lost
  BY <1>13 DEF R!Lost, R!server
<1>14. CASE R!Close
  BY <1>14 DEF R!Close, R!server
<1>15. CASE UNCHANGED R!vars
  BY <1>15 DEF R!vars
<1>. QED
  BY <1>3, <1>4, <1>5, <1>6, <1>7, <1>8, <1>9, <1>10, <1>11, <1>12, <1>13, <1>14, <1>15 DEF R!Next

\* What is told without anything new keeps one holder to an epoch.
LEMMA HolderKept ==
  ASSUME OneHolder, epoch' = epoch,
         \A i \in Indexes, e \in Nat, k \in People : Tells(i, e, k)' => Tells(i, e, k)
  PROVE  OneHolder'
BY DEF OneHolder, People

\* News that leave the queues, or are passed on, tell nothing new.
LEMMA ToldBefore ==
  ASSUME RoomAssumption, SeatsInv, NewsTypes, [R!Next]_(R!vars), \A s \in Sessions : ~R!Join(s),
         NEW i \in Indexes, NEW e \in Nat, NEW k \in People, Tells(i, e, k)'
  PROVE  Tells(i, e, k)
<1>1. ASSUME UNCHANGED room, InSeat(i, e, k)' PROVE InSeat(i, e, k)
  BY <1>1 DEF InSeat
<1>2. ASSUME NEW s \in Sessions, NEW w, w # "joined", R!Goes(s, w), UNCHANGED hello, InHello(i, e, k)'
      PROVE  InHello(i, e, k)
  BY <1>2 DEF InHello, R!Goes, SeatsInv
<1>3. ASSUME UNCHANGED <<sess, hello>>, InHello(i, e, k)' PROVE InHello(i, e, k)
  BY <1>3 DEF InHello
<1>4. ASSUME UNCHANGED controls, InNews(i, e, k)' PROVE InNews(i, e, k)
  BY <1>4 DEF InNews
<1>5. ASSUME UNCHANGED audio, InAudio(i, e, k)' PROVE InAudio(i, e, k)
  BY <1>5 DEF InAudio
<1>6. ASSUME UNCHANGED roster, Lists(roster, i, e, k)' PROVE Lists(roster, i, e, k)
  BY <1>6
<1>7. ASSUME NEW m \in Controls, R!Broadcast(m), InNews(i, e, k)' PROVE InNews(i, e, k) \/ InMessage(m, i, e, k)
  <2>1. CASE controls' = controls
    BY <1>7, <2>1 DEF InNews
  <2>2. CASE controls' = Append(controls, m)
    <3>1. PICK n \in DOMAIN controls' : InMessage(controls'[n], i, e, k)
      BY <1>7 DEF InNews
    <3>2. controls'[n] = m \/ (n \in DOMAIN controls /\ controls'[n] = controls[n])
      BY <1>7, <2>2, <3>1, QueueAppend DEF NewsTypes
    <3>. QED
      BY <3>1, <3>2 DEF InNews
  <2>. QED
    BY <1>7, <2>1, <2>2 DEF R!Broadcast
<1>8. ASSUME NEW s \in Sessions, R!Refused(s) \/ R!JoinError(s) \/ R!JoinedUnwritten(s) \/ R!Ends(s) PROVE Tells(i, e, k)
  <2>1. /\ R!Goes(s, "over") \/ R!Goes(s, "dropped") \/ R!Goes(s, "leaving")
        /\ UNCHANGED <<room, hello, controls, audio, roster>>
    BY <1>8 DEF R!Refused, R!JoinError, R!JoinedUnwritten, R!Ends, R!listener
  <2>. QED
    BY <1>1, <1>2, <1>4, <1>5, <2>1 DEF Tells
<1>9. ASSUME NEW s \in Sessions, R!Announce(s) PROVE Tells(i, e, k)
  <2>1. PICK p \in Indexes : p = R!PlaceOf(s) /\ room[p] # None /\ room[p].by = s
    BY <1>9, SeatOf DEF R!Announce, SeatsInv
  <2>2. PICK m : m = [t |-> "joined", at |-> p, key |-> PubkeyOf[s], epoch |-> room[p].epoch, peers |-> hello[s]]
    OBVIOUS
  <2>3. m \in Controls
    <3>1. hello[s] \in Rosters /\ room[p].epoch \in Nat /\ PubkeyOf[s] \in People
      BY <1>9, <2>1 DEF R!Announce, SeatsInv, NewsTypes, People
    <3>. QED
      BY <2>2, <3>1 DEF Controls
  <2>4. sess[s] = "joined" /\ R!Goes(s, "in") /\ R!Broadcast(m) /\ UNCHANGED <<room, hello, audio, roster>>
    BY <1>9, <2>1, <2>2 DEF R!Announce, R!listener
  <2>5. InMessage(m, i, e, k) => InSeat(i, e, k) \/ InHello(i, e, k)
    <3>1. m.at = p /\ m.key = room[p].key /\ m.epoch = room[p].epoch /\ m.peers = hello[s]
      BY <2>1, <2>2 DEF SeatsInv
    <3>. QED
      BY <2>1, <2>4, <3>1 DEF InMessage, InSeat, InHello
  <2>. QED
    BY <1>1, <1>2, <1>5, <1>7, <2>3, <2>4, <2>5 DEF Tells
<1>10. ASSUME NEW s \in Sessions, R!SayLeft(s) PROVE Tells(i, e, k)
  <2>1. PICK m : m = [t |-> "left", at |-> hello[s].at, key |-> PubkeyOf[s], epoch |-> hello[s].epoch]
    OBVIOUS
  <2>2. m \in Controls /\ ~InMessage(m, i, e, k)
    BY <1>10, <2>1 DEF R!SayLeft, Controls, People, NewsTypes, InMessage
  <2>3. R!Goes(s, "over") /\ R!Broadcast(m) /\ UNCHANGED <<room, hello, audio, roster>>
    BY <1>10, <2>1 DEF R!SayLeft, R!listener
  <2>. QED
    BY <1>1, <1>2, <1>5, <1>7, <2>2, <2>3 DEF Tells
<1>11. ASSUME NEW s \in Sessions, R!Leave(s) PROVE Tells(i, e, k)
  <2>1. PICK p \in Indexes : p = R!PlaceOf(s)
    BY <1>11, SeatOf DEF R!Leave, SeatsInv
  <2>2. room' = [room EXCEPT ![p] = None] /\ UNCHANGED <<controls, audio, roster>>
    BY <1>11, <2>1 DEF R!Leave, R!listener
  <2>3. InSeat(i, e, k)' => InSeat(i, e, k)
    BY <2>2 DEF InSeat, SeatsInv
  <2>4. ASSUME NEW t \in Sessions, sess'[t] = "joined" PROVE sess[t] = "joined" /\ hello'[t] = hello[t]
    BY <1>11, <2>4 DEF R!Leave, R!Goes, SeatsInv, NewsTypes
  <2>5. InHello(i, e, k)' => InHello(i, e, k)
    BY <2>4 DEF InHello
  <2>. QED
    BY <1>4, <1>5, <2>2, <2>3, <2>5 DEF Tells
<1>12. ASSUME NEW s \in Sessions, R!Speak(s) PROVE Tells(i, e, k)
  <2>1. PICK p \in Indexes : p = R!PlaceOf(s) /\ room[p] # None /\ room[p].by = s
    BY <1>12, SeatOf DEF R!Speak
  <2>2. PICK f : f = [at |-> p, epoch |-> room[p].epoch, by |-> PubkeyOf[s]]
    OBVIOUS
  <2>3. f \in Voices /\ room[p].key = PubkeyOf[s]
    BY <2>1, <2>2 DEF Voices, People, SeatsInv
  <2>4. (audio' = audio \/ audio' = Append(audio, f)) /\ UNCHANGED <<sess, room, hello, controls, roster>>
    BY <1>12, <2>1, <2>2 DEF R!Speak, R!server, R!listener
  <2>5. InAudio(i, e, k)' => InAudio(i, e, k) \/ InSeat(i, e, k)
    <3>1. CASE audio' = audio
      BY <3>1 DEF InAudio
    <3>2. CASE audio' = Append(audio, f)
      <4>1. \A n \in DOMAIN audio' : audio'[n] = f \/ (n \in DOMAIN audio /\ audio'[n] = audio[n])
        BY <2>3, <3>2, QueueAppend DEF NewsTypes
      <4>2. f.at = p /\ f.epoch = room[p].epoch /\ f.by = room[p].key
        BY <2>2, <2>3
      <4>. QED
        BY <2>1, <4>1, <4>2 DEF InAudio, InSeat
    <3>. QED
      BY <2>4, <3>1, <3>2
  <2>. QED
    BY <1>1, <1>3, <1>4, <2>4, <2>5 DEF Tells
<1>13. CASE R!Dial
  <2>1. UNCHANGED <<sess, room, hello, controls, audio>> /\ (roster' = R!Present \/ roster' = roster)
    BY <1>13 DEF R!Dial, R!server
  <2>2. Lists(R!Present, i, e, k) => InSeat(i, e, k)
    BY DEF Lists, R!Present, R!Peers, InSeat
  <2>3. Lists(roster, i, e, k)' => InSeat(i, e, k) \/ Lists(roster, i, e, k)
    BY <2>1, <2>2
  <2>. QED
    BY <1>1, <1>3, <1>4, <1>5, <2>1, <2>3 DEF Tells
<1>14. CASE R!ReadControl
  <2>1. /\ controls # <<>> /\ controls' = Tail(controls) /\ UNCHANGED <<sess, room, hello, audio>>
        /\ roster' = IF Head(controls).t = "joined" THEN R!AppliedRoster(Head(controls)) ELSE R!AppliedLeft(Head(controls))
    BY <1>14 DEF R!ReadControl, R!server
  <2>2. PICK m \in Controls : m = Head(controls) /\ 1 \in DOMAIN controls /\ m = controls[1]
    BY <2>1, QueueTail DEF NewsTypes
  <2>3. InNews(i, e, k)' => InNews(i, e, k)
    BY <2>1, QueueTail DEF InNews, NewsTypes
  <2>4. Lists(roster, i, e, k)' => InMessage(m, i, e, k) \/ Lists(roster, i, e, k)
    <3>1. CASE m.t = "joined"
      <4>1. roster' = R!AppliedRoster(m)
        BY <2>1, <2>2, <3>1
      <4>2. ASSUME i \in DOMAIN roster', roster'[i].epoch = e, roster'[i].key = k
            PROVE  InMessage(m, i, e, k) \/ Lists(roster, i, e, k)
        BY <3>1, <4>1, <4>2 DEF R!AppliedRoster, InMessage, Lists
      <4>. QED
        BY <4>2 DEF Lists
    <3>2. CASE m.t # "joined"
      BY <2>1, <2>2, <3>2 DEF R!AppliedLeft, Lists
    <3>. QED
      BY <3>1, <3>2
  <2>5. InMessage(m, i, e, k) => InNews(i, e, k)
    BY <2>2 DEF InNews
  <2>. QED
    BY <1>1, <1>3, <1>5, <2>1, <2>3, <2>4, <2>5 DEF Tells
<1>15. CASE R!ReadFrame
  <2>1. audio # <<>> /\ audio' = Tail(audio) /\ UNCHANGED <<sess, room, hello, controls, roster>>
    BY <1>15 DEF R!ReadFrame, R!server
  <2>2. InAudio(i, e, k)' => InAudio(i, e, k)
    BY <2>1, QueueTail DEF InAudio, NewsTypes
  <2>. QED
    BY <1>1, <1>3, <1>4, <2>1, <2>2 DEF Tells
<1>16. CASE R!Consume \/ UNCHANGED R!vars
  <2>1. UNCHANGED <<sess, room, hello, controls, audio, roster>>
    BY <1>16 DEF R!Consume, R!server, R!vars
  <2>. QED
    BY <1>1, <1>3, <1>4, <1>5, <2>1 DEF Tells
<1>17. CASE R!Lost \/ R!Close
  <2>1. UNCHANGED <<sess, room, hello, roster>> /\ controls' = <<>> /\ audio' = <<>>
    BY <1>17 DEF R!Lost, R!Close, R!server
  <2>2. ~InNews(i, e, k)' /\ ~InAudio(i, e, k)'
    BY <2>1 DEF InNews, InAudio
  <2>. QED
    BY <1>1, <1>3, <2>1, <2>2 DEF Tells
<1>. QED
  BY <1>8, <1>9, <1>10, <1>11, <1>12, <1>13, <1>14, <1>15, <1>16, <1>17 DEF R!Next

\* An epoch of an index keeps its one holder: only a join hands one out, a new one.
LEMMA HolderStep ==
  ASSUME RoomAssumption, SeatsInv, NewsTypes, OneHolder, [R!Next]_(R!vars)
  PROVE  OneHolder'
<1>1. CASE \A s \in Sessions : ~R!Join(s)
  <2>1. epoch' = epoch
    BY <1>1 DEF R!Next, R!vars, R!server, R!Refused, R!JoinError, R!Announce, R!JoinedUnwritten, R!Speak, R!Ends, R!Leave, R!SayLeft,
                R!Dial, R!ReadControl, R!ReadFrame, R!Consume, R!Lost, R!Close
  <2>2. \A i \in Indexes, e \in Nat, k \in People : Tells(i, e, k)' => Tells(i, e, k)
    BY <1>1, ToldBefore
  <2>. QED
    BY <2>1, <2>2, HolderKept
<1>2. ASSUME NEW s \in Sessions, R!Join(s) PROVE OneHolder'
  <2>1. PICK p \in Indexes \ R!Peers :
          /\ epoch' = [epoch EXCEPT ![p] = @ + 1]
          /\ room' = [room EXCEPT ![p] = [key |-> PubkeyOf[s], epoch |-> epoch[p] + 1, by |-> s]]
          /\ hello' = [hello EXCEPT ![s] = [j \in R!Peers \cup {p} |->
                         IF j = p THEN [key |-> PubkeyOf[s], epoch |-> epoch[p] + 1] ELSE R!Present[j]]]
    BY <1>2 DEF R!Join
  <2>2. UNCHANGED <<controls, audio, roster>> /\ sess' = [sess EXCEPT ![s] = "joined"]
    BY <1>2 DEF R!Join, R!listener, R!Goes
  <2>3. ASSUME NEW i \in Indexes, NEW e \in Nat, NEW k \in People, Tells(i, e, k)'
        PROVE  Tells(i, e, k) \/ (i = p /\ e = epoch[p] + 1 /\ k = PubkeyOf[s])
    <3>1. InNews(i, e, k)' => InNews(i, e, k)
      BY <2>2 DEF InNews
    <3>2. InAudio(i, e, k)' => InAudio(i, e, k)
      BY <2>2 DEF InAudio
    <3>3. Lists(roster, i, e, k)' => Lists(roster, i, e, k)
      BY <2>2
    <3>4. InSeat(i, e, k)' => InSeat(i, e, k) \/ (i = p /\ e = epoch[p] + 1 /\ k = PubkeyOf[s])
      BY <2>1 DEF InSeat, SeatsInv
    <3>5. InHello(i, e, k)' => InHello(i, e, k) \/ InSeat(i, e, k) \/ (i = p /\ e = epoch[p] + 1 /\ k = PubkeyOf[s])
      <4>1. SUFFICES ASSUME NEW t \in Sessions, sess'[t] = "joined", Lists(hello'[t], i, e, k)
                     PROVE  InHello(i, e, k) \/ InSeat(i, e, k) \/ (i = p /\ e = epoch[p] + 1 /\ k = PubkeyOf[s])
        BY DEF InHello
      <4>2. CASE t # s
        <5>1. sess[t] = "joined" /\ hello'[t] = hello[t]
          BY <2>1, <2>2, <4>1, <4>2 DEF SeatsInv, NewsTypes
        <5>. QED
          BY <4>1, <5>1 DEF InHello
      <4>3. CASE t = s
        <5>1. PICK r : r = [j \in R!Peers \cup {p} |->
                         IF j = p THEN [key |-> PubkeyOf[s], epoch |-> epoch[p] + 1] ELSE R!Present[j]]
          OBVIOUS
        <5>2. hello'[t] = r
          BY <2>1, <4>3, <5>1 DEF NewsTypes
        <5>3. i \in DOMAIN r /\ r[i].epoch = e /\ r[i].key = k
          BY <4>1, <5>2 DEF Lists
        <5>4. CASE i = p
          BY <5>1, <5>3, <5>4
        <5>5. CASE i # p
          BY <5>1, <5>3, <5>5 DEF R!Present, R!Peers, InSeat
        <5>. QED
          BY <5>4, <5>5
      <4>. QED
        BY <4>2, <4>3
    <3>. QED
      BY <2>3, <3>1, <3>2, <3>3, <3>4, <3>5 DEF Tells
  <2>4. epoch[p] \in Nat /\ \A i \in Indexes : epoch[i] \in Nat /\ epoch'[i] \in Nat /\ epoch[i] <= epoch'[i]
    BY <2>1 DEF SeatsInv
  <2>5. epoch'[p] = epoch[p] + 1
    BY <2>1 DEF SeatsInv
  <2>6. \A k \in People : ~Tells(p, epoch[p] + 1, k)
    BY <2>4 DEF OneHolder
  <2>7. ASSUME NEW i \in Indexes, NEW e \in Nat, NEW k \in People, Tells(i, e, k)'
        PROVE  e <= epoch'[i]
    <3>1. CASE Tells(i, e, k)
      <4>1. e <= epoch[i]
        BY <3>1 DEF OneHolder
      <4>. QED
        BY <2>4, <4>1
    <3>. QED
      BY <2>3, <2>4, <2>5, <2>7, <3>1
  <2>8. ASSUME NEW i \in Indexes, NEW e \in Nat, NEW k \in People, Tells(i, e, k)',
               NEW l \in People, Tells(i, e, l)'
        PROVE  l = k
    BY <2>3, <2>6, <2>8 DEF OneHolder
  <2>. QED
    BY <2>7, <2>8 DEF OneHolder, People
<1>. QED
  BY <1>1, <1>2

\* A frame is put under the name its epoch was handed out to (Client.deliver).
LEMMA AttributedStep ==
  ASSUME RoomAssumption, RoomInv, [R!Next]_(R!vars)
  PROVE  R!NeverMisattributed'
<1>. USE DEF R!NeverMisattributed, RoomInv
<1>1. CASE frames' = frames
  BY <1>1
<1>2. CASE R!Consume
  <2>1. frames \in Seq(Heard) /\ frames # <<>> /\ frames' = Tail(frames)
    BY <1>2 DEF R!Consume, NewsTypes
  <2>2. \A n \in DOMAIN frames' : n + 1 \in DOMAIN frames /\ frames'[n] = frames[n + 1]
    BY ONLY <2>1, QueueTail
  <2>. QED
    BY <2>2
<1>3. CASE R!ReadFrame
  <2>1. PICK f \in Voices : f = Head(audio) /\ 1 \in DOMAIN audio /\ f = audio[1]
    BY <1>3, QueueTail DEF R!ReadFrame, NewsTypes
  <2>2. f.at \in Indexes /\ f.epoch \in Nat /\ f.by \in People
    BY <2>1 DEF Voices
  <2>3. R!Author(f) # None => R!Author(f) = f.by
    <3>1. CASE R!Author(f) # None
      <4>1. Lists(roster, f.at, f.epoch, R!Author(f))
        BY <3>1 DEF R!Author, Lists
      <4>2. R!Author(f) \in People
        BY <4>1, RosterOf DEF Lists, Entries, NewsTypes
      <4>3. Tells(f.at, f.epoch, R!Author(f)) /\ Tells(f.at, f.epoch, f.by)
        BY <2>1, <4>1 DEF Tells, InAudio
      <4>. QED
        BY <2>2, <4>2, <4>3 DEF OneHolder
    <3>. QED
      BY <3>1
  <2>4. PICK h : h = [by |-> f.by, author |-> R!Author(f)]
    OBVIOUS
  <2>5. h.by = f.by /\ h.author = R!Author(f) /\ h \in Heard
    <3>1. R!Author(f) \in People \cup {None}
      BY <2>2, <2>3
    <3>. QED
      BY <2>2, <2>4, <3>1 DEF Heard
  <2>6. CASE frames' = Append(frames, h)
    <3>1. \A n \in DOMAIN frames' : frames'[n] = h \/ (n \in DOMAIN frames /\ frames'[n] = frames[n])
      BY <2>5, <2>6, QueueAppend DEF NewsTypes
    <3>. QED
      BY <2>3, <2>5, <3>1
  <2>. QED
    BY <1>1, <1>3, <2>1, <2>4, <2>6 DEF R!ReadFrame
<1>. QED
  BY <1>1, <1>2, <1>3 DEF R!Next, R!vars, R!listener, R!Refused, R!Join, R!JoinError, R!Announce, R!JoinedUnwritten, R!Speak, R!Ends,
                          R!Leave, R!SayLeft, R!Dial, R!ReadControl, R!Lost, R!Close

\* The relay starts with an empty room and a listener that heard nothing.
LEMMA RoomInit ==
  ASSUME RoomAssumption, R!Init
  PROVE  RoomInv
<1>1. SeatsInv
  BY DEF R!Init, SeatsInv, R!InRoom
<1>2. NewsTypes
  <2>1. roster \in [{} -> Entries] /\ {} \in SUBSET Indexes
    BY DEF R!Init
  <2>2. roster \in Rosters
    BY <2>1 DEF Rosters
  <2>. QED
    BY <2>2 DEF R!Init, NewsTypes
<1>3. ASSUME NEW i \in Indexes, NEW e \in Nat, NEW k \in People PROVE ~Tells(i, e, k)
  <2>1. ~InSeat(i, e, k) /\ ~InHello(i, e, k)
    BY DEF R!Init, InSeat, InHello
  <2>2. ~InNews(i, e, k) /\ ~InAudio(i, e, k) /\ ~Lists(roster, i, e, k)
    BY DEF R!Init, InNews, InAudio, Lists
  <2>. QED
    BY <2>1, <2>2 DEF Tells
<1>4. OneHolder
  BY <1>3 DEF OneHolder
<1>5. R!NeverMisattributed
  BY DEF R!Init, R!NeverMisattributed
<1>. QED
  BY <1>1, <1>2, <1>4, <1>5 DEF RoomInv

\* Every step of the room and its listener keeps all of it.
LEMMA RoomStep ==
  ASSUME RoomAssumption, RoomInv, [R!Next]_(R!vars)
  PROVE  RoomInv'
<1>1. SeatsInv /\ NewsTypes /\ OneHolder
  BY DEF RoomInv
<1>. QED
  BY <1>1, SeatsStep, NewsStep, HolderStep, AttributedStep DEF RoomInv

\* Whoever holds an index is not over.
LEMMA SeatsAreLive ==
  ASSUME SeatsInv
  PROVE  R!LiveRoomsAreLive
BY DEF SeatsInv, R!LiveRoomsAreLive, R!Peers

\* Voices keep their names and rooms their people, whatever sessions, listener, queues and
\* failed writes do.
THEOREM RoomTruthful ==
  ASSUME RoomAssumption
  PROVE  R!Spec => [](R!NeverMisattributed /\ R!LiveRoomsAreLive)
<1>1. R!Init => RoomInv
  BY RoomInit
<1>2. RoomInv /\ [R!Next]_(R!vars) => RoomInv'
  BY RoomStep
<1>3. RoomInv => R!NeverMisattributed /\ R!LiveRoomsAreLive
  BY SeatsAreLive DEF RoomInv
<1>. QED
  BY <1>1, <1>2, <1>3, PTL DEF R!Spec

-----------------------------------------------------------------------------
(* The signalling of one session                                           *)

\* A client trickles finitely many candidates.
TrickleAssumption ==
  /\ MaxPending \in Nat
  /\ \A X \in SUBSET Remote : N!Cardinality(X) \in Nat /\ (X # Remote => N!Cardinality(X) < N!Cardinality(Remote))

Trickled == [type : {"candidate"}, c : Remote]
Reported == [type : {"candidate"}, c : Local]
Inbound == [type : {"offer", "answer"}] \cup Trickled
Outbound == [type : {"offer", "answer"}, tracks : SUBSET Tracks] \cup Reported

\* Nothing is written before a description, which stays first in line until the client has
\* seen one; the loop answers, and the session writes, only with a remote description, and
\* then no candidate waits for one.
SignalInv ==
  /\ inbox \in Seq(Inbound) /\ outbox \in Seq(Outbound) /\ held \in Seq(Reported)
  /\ added \in SUBSET Tracks /\ offered \in SUBSET Tracks
  /\ peer \in [offered : BOOLEAN, sent : SUBSET Remote, seen : BOOLEAN, early : SUBSET Local]
  /\ early \in SUBSET Remote /\ sent \in BOOLEAN
  /\ ~sent => outbox = <<>>
  /\ ~peer.seen /\ sent => outbox # <<>> /\ outbox[1].type # "candidate"
  /\ peer.early = {}
  /\ remote \in BOOLEAN
  /\ sent \/ negotiated \/ loop \in {"answer", "write", "settle"} => remote
  /\ remote => early = {}

\* What the client trickled is with pion, waits for the description or is on its way.
TrickleKept ==
  N!Cardinality(Remote) <= MaxPending
      => \A c \in peer.sent : c \in applied \/ c \in early \/ \E n \in DOMAIN inbox : inbox[n] = N!Candidate(c)

SignallingInv == SignalInv /\ TrickleKept

\* Only the first message leaves a line that is read.
LEMMA LineTail ==
  ASSUME NEW X, NEW q \in Seq(X), q # <<>>
  PROVE  /\ Tail(q) \in Seq(X) /\ Head(q) = q[1] /\ q[1] \in X /\ 1 \in DOMAIN q
         /\ \A n \in DOMAIN q : n = 1 \/ (n - 1 \in DOMAIN Tail(q) /\ Tail(q)[n - 1] = q[n])
OBVIOUS

\* A line that gets one message more keeps the others.
LEMMA LineAppend ==
  ASSUME NEW X, NEW q \in Seq(X), NEW x \in X
  PROVE  /\ Append(q, x) \in Seq(X) /\ Append(q, x) # <<>>
         /\ q # <<>> => Append(q, x)[1] = q[1]
         /\ Len(q) + 1 \in DOMAIN Append(q, x) /\ Append(q, x)[Len(q) + 1] = x
         /\ \A n \in DOMAIN q : n \in DOMAIN Append(q, x) /\ Append(q, x)[n] = q[n]
<1>1. Append(q, x) \in Seq(X) /\ Len(Append(q, x)) = Len(q) + 1 /\ Len(q) \in Nat
  OBVIOUS
<1>2. Append(q, x)[Len(q) + 1] = x
  OBVIOUS
<1>3. \A n \in 1..Len(q) : Append(q, x)[n] = q[n]
  OBVIOUS
<1>4. q # <<>> => 1 \in 1..Len(q)
  OBVIOUS
<1>5. DOMAIN q = 1..Len(q) /\ DOMAIN Append(q, x) = 1..(Len(q) + 1)
  OBVIOUS
<1>6. Append(q, x) # <<>>
  BY <1>1
<1>7. \A n \in DOMAIN q : n \in DOMAIN Append(q, x) /\ Append(q, x)[n] = q[n]
  BY ONLY <1>1, <1>3, <1>5
<1>8. q # <<>> => Append(q, x)[1] = q[1]
  BY ONLY <1>3, <1>4
<1>9. Len(q) + 1 \in DOMAIN Append(q, x)
  BY ONLY <1>1, <1>5
<1>. QED
  BY ONLY <1>1, <1>2, <1>6, <1>7, <1>8, <1>9

\* A line that another is put behind.
LEMMA LineConcat ==
  ASSUME NEW X, NEW q \in Seq(X), NEW r \in Seq(X)
  PROVE  /\ q \o r \in Seq(X)
         /\ q # <<>> => q \o r # <<>> /\ (q \o r)[1] = q[1]
         /\ q = <<>> /\ r # <<>> => q \o r # <<>> /\ (q \o r)[1] = r[1]
OBVIOUS

\* writeDescription puts the description before what was held back for it.
LEMMA DescriptionFirst ==
  ASSUME SignalInv, NEW k \in {"offer", "answer"}, NEW ts \in SUBSET Tracks, N!WriteDescription(k, ts)
  PROVE  /\ outbox' \in Seq(Outbound) /\ held' \in Seq(Reported) /\ sent' = TRUE
         /\ outbox' # <<>> /\ (peer.seen \/ outbox'[1].type # "candidate")
<1>1. PICK d : d = [type |-> k, tracks |-> ts]
  OBVIOUS
<1>2. d \in Outbound /\ d.type # "candidate"
  BY <1>1 DEF Outbound
<1>3. held \in Seq(Outbound) /\ outbox \in Seq(Outbound)
  BY DEF SignalInv, Outbound
<1>4. <<d>> \in Seq(Outbound) /\ <<d>> # <<>> /\ <<d>>[1] = d
  BY <1>2
<1>5. PICK o \in Seq(Outbound) : o = outbox \o <<d>> /\ o # <<>> /\ o[1] = IF outbox = <<>> THEN d ELSE outbox[1]
  <2>1. PICK e \in Seq(Outbound) : e = <<d>> /\ e # <<>> /\ e[1] = d
    BY <1>4
  <2>2. /\ outbox \o e \in Seq(Outbound) /\ outbox \o e # <<>>
        /\ (outbox \o e)[1] = IF outbox = <<>> THEN d ELSE outbox[1]
    BY <1>3, <2>1, LineConcat
  <2>. QED
    BY <2>1, <2>2
<1>6. o \o held \in Seq(Outbound) /\ o \o held # <<>> /\ (o \o held)[1] = o[1]
  BY <1>3, <1>5, LineConcat
<1>7. outbox' = o \o held /\ held' = <<>> /\ sent' = TRUE
  BY <1>1, <1>5 DEF N!WriteDescription, N!Description
<1>8. peer.seen \/ o[1].type # "candidate"
  BY <1>2, <1>5 DEF SignalInv
<1>. QED
  BY <1>6, <1>7, <1>8

\* The session's own steps and the client's keep the order of what is written.
LEMMA SignalStep ==
  ASSUME SignalInv, [N!Next]_(N!vars)
  PROVE  SignalInv'
<1>. USE DEF SignalInv
<1>1. ASSUME N!Renegotiate, UNCHANGED <<inbox, peer, early, remote, negotiated>>, added' = added,
             loop' \in {"answer", "write", "settle"} => loop = loop'
      PROVE  SignalInv'
  <2>1. CASE UNCHANGED <<offered, outbox, held, sent>>
    BY <1>1, <2>1
  <2>2. CASE negotiated /\ offered' = added /\ N!WriteDescription("offer", added)
    BY <1>1, <2>2, DescriptionFirst
  <2>. QED
    BY <1>1, <2>1, <2>2 DEF N!Renegotiate
<1>2. ASSUME NEW t \in Tracks, N!AddTrack(t) PROVE SignalInv'
  BY <1>2 DEF N!AddTrack
<1>3. ASSUME NEW t \in Tracks, N!TrackRenegotiate(t) PROVE SignalInv'
  BY <1>1, <1>3 DEF N!TrackRenegotiate
<1>4. CASE N!HandleOffer
  BY <1>4, LineTail DEF N!HandleOffer, N!Take, N!FlushRemote
<1>5. CASE N!Answer
  BY <1>5 DEF N!Answer
<1>6. CASE N!WriteAnswer
  <2>1. N!WriteDescription("answer", offered) /\ UNCHANGED <<added, offered, inbox, peer, early, remote, negotiated>>
    BY <1>6 DEF N!WriteAnswer
  <2>2. loop = "write"
    BY <1>6 DEF N!WriteAnswer
  <2>. QED
    BY <2>1, <2>2, DescriptionFirst
<1>7. CASE N!Settle
  BY <1>7 DEF N!Settle
<1>8. CASE N!HandleAnswer
  BY <1>8, LineTail DEF N!HandleAnswer, N!Take, N!FlushRemote
<1>9. CASE N!Answered
  BY <1>9 DEF N!Answered
<1>10. CASE N!LoopRenegotiate
  BY <1>1, <1>10 DEF N!LoopRenegotiate
<1>11. CASE N!AddRemote
  <2>1. inbox' \in Seq(Inbound) /\ Head(inbox) \in Inbound /\ Head(inbox).type = "candidate"
    BY <1>11, LineTail DEF N!AddRemote, N!Take
  <2>2. Head(inbox).c \in Remote
    BY <2>1 DEF Inbound, Trickled
  <2>3. early' \in SUBSET Remote /\ (remote => early' = early)
    BY <1>11, <2>2 DEF N!AddRemote
  <2>. QED
    BY <1>11, <2>1, <2>3 DEF N!AddRemote
<1>12. ASSUME NEW c \in Local, N!Gather(c) PROVE SignalInv'
  <2>1. PICK m : m = N!Candidate(c)
    OBVIOUS
  <2>2. m \in Reported /\ m \in Outbound
    BY <2>1 DEF N!Candidate, Reported, Outbound
  <2>3. CASE sent
    <3>1. outbox' = Append(outbox, m) /\ held' = held
      BY <1>12, <2>1, <2>3 DEF N!Gather
    <3>2. outbox' \in Seq(Outbound) /\ outbox' # <<>> /\ (outbox # <<>> => outbox'[1] = outbox[1])
      BY <2>2, <3>1, LineAppend
    <3>. QED
      BY <1>12, <2>3, <3>1, <3>2 DEF N!Gather
  <2>4. CASE ~sent
    <3>1. outbox' = outbox /\ (held' = held \/ held' = Append(held, m))
      BY <1>12, <2>1, <2>4 DEF N!Gather
    <3>2. held \in Seq(Reported)
      OBVIOUS
    <3>3. held' \in Seq(Reported)
      BY ONLY <2>2, <3>1, <3>2, LineAppend
    <3>. QED
      BY <1>12, <3>1, <3>3 DEF N!Gather
  <2>. QED
    BY <2>3, <2>4
<1>13. CASE N!ClientOffers
  <2>1. [type |-> "offer"] \in Inbound
    BY DEF Inbound
  <2>2. inbox' \in Seq(Inbound)
    BY <1>13, <2>1, LineAppend DEF N!ClientOffers
  <2>3. /\ peer' \in [offered : BOOLEAN, sent : SUBSET Remote, seen : BOOLEAN, early : SUBSET Local]
        /\ peer'.seen = peer.seen /\ peer'.early = peer.early
    BY <1>13 DEF N!ClientOffers
  <2>. QED
    BY <1>13, <2>2, <2>3 DEF N!ClientOffers
<1>14. ASSUME NEW c \in Remote, N!ClientTrickles(c) PROVE SignalInv'
  <2>1. N!Candidate(c) \in Inbound
    BY DEF Inbound, N!Candidate, Trickled
  <2>2. inbox' \in Seq(Inbound)
    BY <1>14, <2>1, LineAppend DEF N!ClientTrickles
  <2>3. /\ peer' \in [offered : BOOLEAN, sent : SUBSET Remote, seen : BOOLEAN, early : SUBSET Local]
        /\ peer'.seen = peer.seen /\ peer'.early = peer.early
    BY <1>14 DEF N!ClientTrickles
  <2>. QED
    BY <1>14, <2>2, <2>3 DEF N!ClientTrickles
<1>15. CASE N!ClientReads
  <2>1. PICK m \in Outbound : m = Head(outbox) /\ m = outbox[1] /\ outbox' \in Seq(Outbound)
    BY <1>15, LineTail DEF N!ClientReads
  <2>2. [type |-> "answer"] \in Inbound
    BY DEF Inbound
  <2>3. inbox' \in Seq(Inbound)
    BY <1>15, <2>2, LineAppend DEF N!ClientReads
  <2>4. sent /\ UNCHANGED <<added, offered, held, early, sent, remote, negotiated, loop>>
    BY <1>15 DEF N!ClientReads
  <2>5. CASE m.type = "candidate"
    <3>1. peer.seen /\ peer' = peer
      BY <1>15, <2>1, <2>4, <2>5 DEF N!ClientReads
    <3>. QED
      BY <2>1, <2>3, <2>4, <3>1
  <2>6. CASE m.type # "candidate"
    <3>1. peer' = [peer EXCEPT !.seen = TRUE]
      BY <1>15, <2>1, <2>6 DEF N!ClientReads
    <3>. QED
      BY <2>1, <2>3, <2>4, <3>1
  <2>. QED
    BY <2>5, <2>6
<1>16. CASE UNCHANGED N!vars
  BY <1>16 DEF N!vars
<1>. QED
  BY <1>2, <1>3, <1>4, <1>5, <1>6, <1>7, <1>8, <1>9, <1>10, <1>11, <1>12, <1>13, <1>14, <1>15, <1>16 DEF N!Next

\* No candidate of the client gets lost on its way to pion.
LEMMA TrickleStep ==
  ASSUME TrickleAssumption, SignalInv, TrickleKept, [N!Next]_(N!vars), N!Cardinality(Remote) <= MaxPending,
         NEW c \in peer'.sent
  PROVE  c \in applied' \/ c \in early' \/ \E n \in DOMAIN inbox' : inbox'[n] = N!Candidate(c)
<1>1. ASSUME c \in peer.sent
      PROVE  c \in applied \/ c \in early \/ \E n \in DOMAIN inbox : inbox[n] = N!Candidate(c)
  BY <1>1 DEF TrickleKept
<1>2. CASE UNCHANGED <<peer, applied, early, inbox>>
  BY <1>1, <1>2
<1>3. ASSUME NEW m \in Inbound, inbox' = Append(inbox, m) \/ inbox' = inbox, UNCHANGED <<applied, early>>,
             c \in peer.sent
      PROVE  c \in applied' \/ c \in early' \/ \E n \in DOMAIN inbox' : inbox'[n] = N!Candidate(c)
  <2>1. inbox \in Seq(Inbound)
    BY DEF SignalInv
  <2>2. \A n \in DOMAIN inbox : n \in DOMAIN inbox' /\ inbox'[n] = inbox[n]
    <3>1. CASE inbox' = Append(inbox, m)
      BY ONLY <2>1, <3>1, m \in Inbound, LineAppend
    <3>. QED
      BY <1>3, <3>1
  <2>. QED
    BY <1>1, <1>3, <2>2
<1>4. ASSUME NEW k, N!Take(k), k # "candidate", peer' = peer, N!FlushRemote
      PROVE  c \in applied' \/ c \in early' \/ \E n \in DOMAIN inbox' : inbox'[n] = N!Candidate(c)
  <2>1. inbox[1] # N!Candidate(c)
    BY <1>4, LineTail DEF N!Take, SignalInv, N!Candidate
  <2>2. \A n \in DOMAIN inbox : n = 1 \/ (n - 1 \in DOMAIN inbox' /\ inbox'[n - 1] = inbox[n])
    BY <1>4, LineTail DEF N!Take, SignalInv
  <2>. QED
    BY <1>1, <1>4, <2>1, <2>2 DEF N!FlushRemote
<1>5. CASE N!AddRemote
  <2>1. inbox # <<>> /\ inbox' = Tail(inbox) /\ peer' = peer
    BY <1>5 DEF N!AddRemote, N!Take
  <2>2. Head(inbox) = inbox[1]
    BY <2>1, LineTail DEF SignalInv
  <2>3. \A n \in DOMAIN inbox : n = 1 \/ (n - 1 \in DOMAIN inbox' /\ inbox'[n - 1] = inbox[n])
    BY <2>1, LineTail DEF SignalInv
  <2>4. applied \subseteq applied' /\ early \subseteq early'
    BY <1>5 DEF N!AddRemote
  <2>5. CASE inbox[1] = N!Candidate(c)
    <3>1. Head(inbox).c = c
      BY <2>2, <2>5 DEF N!Candidate
    <3>2. CASE remote
      BY <1>5, <3>1, <3>2 DEF N!AddRemote
    <3>3. CASE ~remote
      <4>1. early' = IF N!Cardinality(early) < MaxPending THEN early \cup {c} ELSE early
        BY <1>5, <3>1, <3>3 DEF N!AddRemote
      <4>2. CASE c \in early
        BY <2>4, <4>2
      <4>3. CASE c \notin early
        <5>1. early # Remote /\ early \in SUBSET Remote
          BY <2>1, <4>3 DEF SignalInv
        <5>2. N!Cardinality(early) < N!Cardinality(Remote)
          BY <5>1 DEF TrickleAssumption
        <5>3. N!Cardinality(early) < MaxPending
          BY <5>1, <5>2 DEF TrickleAssumption
        <5>. QED
          BY <4>1, <5>3
      <4>. QED
        BY <4>2, <4>3
    <3>. QED
      BY <3>2, <3>3
  <2>6. CASE inbox[1] # N!Candidate(c)
    BY <1>1, <2>1, <2>3, <2>4, <2>6
  <2>. QED
    BY <2>5, <2>6
<1>6. CASE N!ClientOffers
  <2>1. peer'.sent = peer.sent /\ [type |-> "offer"] \in Inbound
    BY <1>6 DEF N!ClientOffers, SignalInv, Inbound
  <2>. QED
    BY <1>3, <1>6, <2>1 DEF N!ClientOffers
<1>7. ASSUME NEW d \in Remote, N!ClientTrickles(d)
      PROVE  c \in applied' \/ c \in early' \/ \E n \in DOMAIN inbox' : inbox'[n] = N!Candidate(c)
  <2>1. peer'.sent = peer.sent \cup {d} /\ N!Candidate(d) \in Inbound
    BY <1>7 DEF N!ClientTrickles, SignalInv, Inbound, N!Candidate, Trickled
  <2>2. CASE c \in peer.sent
    BY <1>3, <1>7, <2>1, <2>2 DEF N!ClientTrickles
  <2>3. CASE c = d
    BY <1>7, <2>1, <2>3, LineAppend DEF N!ClientTrickles, SignalInv
  <2>. QED
    BY <2>1, <2>2, <2>3
<1>8. CASE N!ClientReads
  <2>1. peer'.sent = peer.sent /\ [type |-> "answer"] \in Inbound
    BY <1>8 DEF N!ClientReads, SignalInv, Inbound
  <2>2. UNCHANGED <<applied, early>> /\ (inbox' = Append(inbox, [type |-> "answer"]) \/ inbox' = inbox)
    BY <1>8 DEF N!ClientReads
  <2>. QED
    BY <1>3, <2>1, <2>2
<1>9. CASE N!HandleOffer
  BY <1>4, <1>9 DEF N!HandleOffer
<1>10. CASE N!HandleAnswer
  BY <1>4, <1>10 DEF N!HandleAnswer
<1>11. ASSUME NEW t \in Tracks, N!AddTrack(t) \/ N!TrackRenegotiate(t) PROVE UNCHANGED <<peer, applied, early, inbox>>
  BY <1>11 DEF N!AddTrack, N!TrackRenegotiate
<1>12. ASSUME NEW l \in Local, N!Gather(l) PROVE UNCHANGED <<peer, applied, early, inbox>>
  BY <1>12 DEF N!Gather
<1>13. ASSUME N!Answer \/ N!WriteAnswer \/ N!Settle \/ N!Answered \/ N!LoopRenegotiate \/ UNCHANGED N!vars
       PROVE  UNCHANGED <<peer, applied, early, inbox>>
  BY <1>13 DEF N!Answer, N!WriteAnswer, N!Settle, N!Answered, N!LoopRenegotiate, N!vars
<1>. QED
  BY <1>2, <1>5, <1>6, <1>7, <1>8, <1>9, <1>10, <1>11, <1>12, <1>13 DEF N!Next

\* The session begins with nothing said.
LEMMA SignallingInit == ASSUME N!Init PROVE SignallingInv
<1>1. peer.sent = {} /\ peer.early = {} /\ peer.seen = FALSE /\ peer.offered = FALSE
  BY DEF N!Init
<1>2. peer \in [offered : BOOLEAN, sent : SUBSET Remote, seen : BOOLEAN, early : SUBSET Local]
  BY DEF N!Init
<1>3. SignalInv
  <2>1. inbox \in Seq(Inbound) /\ outbox \in Seq(Outbound) /\ held \in Seq(Reported)
    BY DEF N!Init
  <2>2. added = {} /\ offered = {} /\ early = {} /\ ~sent /\ outbox = <<>> /\ ~remote /\ ~negotiated /\ loop = "read"
    BY DEF N!Init
  <2>3. sent \in BOOLEAN /\ remote \in BOOLEAN
    BY DEF N!Init
  <2>. QED
    BY <1>1, <1>2, <2>1, <2>2, <2>3 DEF SignalInv
<1>4. TrickleKept
  BY <1>1 DEF TrickleKept
<1>. QED
  BY <1>3, <1>4 DEF SignallingInv

\* Every step of session and client keeps it.
LEMMA SignallingStep ==
  ASSUME TrickleAssumption, SignallingInv, [N!Next]_(N!vars)
  PROVE  SignallingInv'
<1>1. SignalInv'
  BY SignalStep DEF SignallingInv
<1>2. TrickleKept'
  BY TrickleStep DEF SignallingInv, TrickleKept
<1>. QED
  BY <1>1, <1>2 DEF SignallingInv

\* What the properties say follows.
LEMMA Signalled ==
  ASSUME SignallingInv
  PROVE  N!NoEarlyCandidate /\ N!RemoteCandidatesApplied
<1>1. N!NoEarlyCandidate
  BY DEF SignallingInv, SignalInv, N!NoEarlyCandidate
<1>2. ASSUME inbox = <<>>, sent, N!Cardinality(Remote) <= MaxPending PROVE peer.sent \subseteq applied
  <2>1. early = {} /\ DOMAIN inbox = {}
    BY <1>2 DEF SignallingInv, SignalInv
  <2>. QED
    BY <1>2, <2>1 DEF SignallingInv, TrickleKept
<1>. QED
  BY <1>1, <1>2 DEF N!RemoteCandidatesApplied

\* The client sees no candidate before a description and loses none of its own, for any
\* tracks and candidates.
THEOREM SignallingKept ==
  ASSUME TrickleAssumption
  PROVE  N!Spec => [](N!NoEarlyCandidate /\ N!RemoteCandidatesApplied)
<1>1. N!Init => SignallingInv
  BY SignallingInit
<1>2. SignallingInv /\ [N!Next]_(N!vars) => SignallingInv'
  BY SignallingStep
<1>3. SignallingInv => N!NoEarlyCandidate /\ N!RemoteCandidatesApplied
  BY Signalled
<1>. QED
  BY <1>1, <1>2, <1>3, PTL DEF N!Spec

-----------------------------------------------------------------------------
(* The huddle                                                              *)

\* What the proofs ask of the constants.
HuddleAssumption == RoomAssumption /\ TrickleAssumption

\* The side that runs is as its own invariant says.
HuddleInv == (side = "room" => RoomInv) /\ (side = "tracks" => SignallingInv)

\* A huddle shows what is so, for any sessions, people, indexes, frames, tracks and
\* candidates (deliver, applyRoster, teardown, queueLocalCandidate, addRemoteCandidate).
THEOREM HuddlesStayTruthful == ASSUME HuddleAssumption PROVE HuddleSpec => []HuddlesTruthful
<1>1. HuddleInit => HuddleInv
  BY RoomInit, SignallingInit DEF HuddleAssumption, HuddleInit, HuddleInv
<1>2. HuddleInv /\ [HuddleNext]_huddle => HuddleInv'
  <2>1. SUFFICES ASSUME HuddleInv, [HuddleNext]_huddle PROVE HuddleInv'
    OBVIOUS
  <2>2. side' = side /\ (side = "room" => [R!Next]_(R!vars)) /\ (side = "tracks" => [N!Next]_(N!vars))
    <3>1. CASE HuddleNext
      BY <3>1 DEF HuddleNext
    <3>2. CASE UNCHANGED huddle
      BY <3>2 DEF huddle, inRoom, signalling, R!vars, N!vars
    <3>. QED
      BY <2>1, <3>1, <3>2
  <2>. QED
    BY <2>1, <2>2, RoomStep, SignallingStep DEF HuddleAssumption, HuddleInv
<1>3. HuddleInv => HuddlesTruthful
  BY SeatsAreLive, Signalled DEF HuddleInv, RoomInv, HuddlesTruthful
<1>. QED
  BY <1>1, <1>2, <1>3, PTL DEF HuddleSpec

====
