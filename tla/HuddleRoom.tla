----------------------------- MODULE HuddleRoom -----------------------------
(***************************************************************************)
(* One huddle room seen from both ends: the WebRTC sessions of the relay   *)
(* (huddle/sfu) that join it, speak and leave, and a listener that joined  *)
(* through huddle/client and keeps a roster to know whose voice a frame    *)
(* is.  A frame names its author by a routing index, which the room hands  *)
(* out again when its holder leaves, with a new epoch.  Every message      *)
(* about the roster is broadcast after the room changed, outside its lock, *)
(* by the session that changed it.  The room itself, the writer of the     *)
(* listener's socket and the socket are the relay library's: control       *)
(* messages and audio wait in queues of their own and are written in any   *)
(* order between the two.                                                  *)
(***************************************************************************)
EXTENDS Naturals, Sequences, FiniteSets

CONSTANTS Sessions,      \* WebRTC connections
          PubkeyOf,      \* [Sessions -> the pubkey that authenticates]
          Indexes,       \* routing indexes of the room
          Faults,        \* subset of {"refuse", "write"}
          FrameBuffer,   \* Config.FrameBuffer
          MaxFrames,     \* bound: frames spoken
          None

VARIABLES sess,          \* [Sessions -> where run is]
          room,          \* [Indexes -> the peer there, or None]
          epoch,         \* [Indexes -> how often it was handed out]
          hub,           \* videoHub.sessions of the room
          hello,         \* [Sessions -> the roster Join returned]
          controls,      \* control messages on their way to the listener
          audio,         \* audio on its way to the listener
          spoken,        \* frames spoken so far
          client,        \* the listener: "dialing", "joined", "lost", "closed", "failed"
          roster,        \* Client.roster
          frames,        \* Client.frames
          joinErr        \* Client.joinErr is set

vars == <<sess, room, epoch, hub, hello, controls, audio, spoken, client, roster, frames, joinErr>>

server   == <<sess, room, epoch, hub, hello>>
listener == <<client, roster, frames, joinErr>>

Peers == {i \in Indexes : room[i] # None}
Present == [i \in Peers |-> [key |-> room[i].key, epoch |-> room[i].epoch]]
PlaceOf(s) == CHOOSE i \in Indexes : room[i] # None /\ room[i].by = s
InRoom(s) == \E i \in Indexes : room[i] # None /\ room[i].by = s

Init == /\ sess = [s \in Sessions |-> "new"]
        /\ room = [i \in Indexes |-> None]
        /\ epoch = [i \in Indexes |-> 0]
        /\ hub = {}
        /\ hello = [s \in Sessions |-> None]
        /\ controls = <<>> /\ audio = <<>> /\ spoken = 0
        /\ client = "dialing"
        /\ roster = [i \in {} |-> None]
        /\ frames = <<>>
        /\ joinErr = FALSE

Goes(s, where) == sess' = [sess EXCEPT ![s] = where]

\* Room.BroadcastControl: to every peer in the room; the sinks of WebRTC
\* peers discard it (Sink.SendControl), so the listener is who matters.
Broadcast(m) == controls' = IF client = "joined" THEN Append(controls, m) ELSE controls

----------------------------------------------------------------------------
\* handshake up to Join: the challenge, the authentication, Authorize, the
\* peer connection and its sink.  Any of them may refuse.
Refused(s) ==
    /\ "refuse" \in Faults
    /\ sess[s] = "new"
    /\ Goes(s, "over")
    /\ UNCHANGED <<room, epoch, hub, hello, controls, audio, spoken>> /\ UNCHANGED listener

\* Rooms.Join: a free index and its next epoch; then the video hub.
Join(s) ==
    /\ sess[s] = "new"
    /\ \E i \in Indexes \ Peers :
         /\ epoch' = [epoch EXCEPT ![i] = @ + 1]
         /\ room' = [room EXCEPT ![i] = [key |-> PubkeyOf[s], epoch |-> epoch[i] + 1, by |-> s]]
         /\ hello' = [hello EXCEPT ![s] = [j \in Peers \cup {i} |->
                         IF j = i THEN [key |-> PubkeyOf[s], epoch |-> epoch[i] + 1] ELSE Present[j]]]
    /\ hub' = hub \cup {s}
    /\ Goes(s, "joined")
    /\ UNCHANGED <<controls, audio, spoken>> /\ UNCHANGED listener

\* writeJoinError: the room is full (or has ended, or wants another version).
JoinError(s) ==
    /\ sess[s] = "new" /\ Peers = Indexes
    /\ Goes(s, "over")
    /\ UNCHANGED <<room, epoch, hub, hello, controls, audio, spoken>> /\ UNCHANGED listener

\* handshake's last write, "joined" to the peer itself, and announceJoin.
\* When the write fails handshake returns false, and run returns with no
\* teardown deferred yet.
Announce(s) ==
    /\ sess[s] = "joined"
    /\ Goes(s, "in")
    /\ Broadcast([t |-> "joined", at |-> PlaceOf(s), key |-> PubkeyOf[s],
                  epoch |-> room[PlaceOf(s)].epoch, peers |-> hello[s]])
    /\ UNCHANGED <<room, epoch, hub, hello, audio, spoken>> /\ UNCHANGED listener

JoinedUnwritten(s) ==
    /\ "write" \in Faults
    /\ sess[s] = "joined"
    /\ Goes(s, "dropped")
    /\ UNCHANGED <<room, epoch, hub, hello, controls, audio, spoken>> /\ UNCHANGED listener

\* publishInbound: one packet of the microphone becomes a frame.
Speak(s) ==
    /\ sess[s] \in {"in", "leaving"} /\ InRoom(s)
    /\ spoken < MaxFrames /\ spoken' = spoken + 1
    /\ audio' = IF client = "joined"
                  THEN Append(audio, [at |-> PlaceOf(s), epoch |-> room[PlaceOf(s)].epoch, by |-> PubkeyOf[s]])
                  ELSE audio
    /\ UNCHANGED <<controls>> /\ UNCHANGED <<server, listener>>

\* signallingLoop ends: the socket does, or shutdown on a failed peer
\* connection makes its read return.  teardown closes hub, sink and peer
\* connection, then leaves the room, then says so.
Ends(s) ==
    /\ sess[s] = "in"
    /\ Goes(s, "leaving") /\ hub' = hub \ {s}
    /\ UNCHANGED <<room, epoch, hello, controls, audio, spoken>> /\ UNCHANGED listener

LeaveQuietly(s) ==
    /\ sess[s] = "leaving"
    /\ Goes(s, "left")
    /\ hello' = [hello EXCEPT ![s] = [at |-> PlaceOf(s), epoch |-> room[PlaceOf(s)].epoch]]
    /\ UNCHANGED <<room, epoch, hub, controls, audio, spoken>> /\ UNCHANGED listener

Leave(s) ==
    /\ sess[s] = "leaving"
    /\ Goes(s, "left")
    /\ room' = [room EXCEPT ![PlaceOf(s)] = None]
    /\ hello' = [hello EXCEPT ![s] = [at |-> PlaceOf(s), epoch |-> room[PlaceOf(s)].epoch]]
    /\ UNCHANGED <<epoch, hub, controls, audio, spoken>> /\ UNCHANGED listener

SayLeft(s) ==
    /\ sess[s] = "left"
    /\ Goes(s, "over")
    /\ Broadcast([t |-> "left", at |-> hello[s].at, key |-> PubkeyOf[s], epoch |-> hello[s].epoch])
    /\ UNCHANGED <<room, epoch, hub, hello, audio, spoken>> /\ UNCHANGED listener

\* listLiveRooms: the room is listed while it has peers.
Listed == Peers # {}

----------------------------------------------------------------------------
\* Dial and handshake: the "joined" that ends it carries the room as it was
\* when the relay admitted the listener; or the relay refuses.
Dial ==
    /\ client = "dialing"
    /\ \/ client' = "joined" /\ roster' = Present
       \/ "refuse" \in Faults /\ client' = "failed" /\ UNCHANGED roster
    /\ UNCHANGED <<frames, joinErr, controls, audio, spoken>> /\ UNCHANGED server

\* applyRoster: the peers of the message, and the joiner itself, are put in;
\* nothing is taken out.
AppliedRoster(m) ==
    [i \in DOMAIN roster \cup DOMAIN m.peers \cup {m.at} |->
       IF i = m.at THEN [key |-> m.key, epoch |-> m.epoch]
       ELSE IF i \in DOMAIN m.peers THEN m.peers[i] ELSE roster[i]]

\* applyControl, "left": the entry goes when it is that pubkey's.
AppliedLeft(m) ==
    IF m.at \in DOMAIN roster /\ roster[m.at].key = m.key
      THEN [i \in DOMAIN roster \ {m.at} |-> roster[i]] ELSE roster

ReadControl ==
    /\ client = "joined" /\ controls # <<>>
    /\ controls' = Tail(controls)
    /\ roster' = IF Head(controls).t = "joined" THEN AppliedRoster(Head(controls))
                                                ELSE AppliedLeft(Head(controls))
    /\ UNCHANGED <<client, frames, joinErr, audio, spoken>> /\ UNCHANGED server

\* deliver: who the frame is from, by index and epoch; None when unknown.
\* (Protocol versions without a frame header carry no epoch: not modelled.)
AuthorAnyEpoch(f) == IF f.at \in DOMAIN roster THEN roster[f.at].key ELSE None

Author(f) == IF f.at \in DOMAIN roster /\ roster[f.at].epoch = f.epoch THEN roster[f.at].key ELSE None

ReadFrame ==
    /\ client = "joined" /\ audio # <<>>
    /\ audio' = Tail(audio)
    /\ frames' = IF Len(frames) < FrameBuffer
                   THEN Append(frames, [by |-> Head(audio).by, author |-> Author(Head(audio))])
                   ELSE frames
    /\ UNCHANGED <<client, roster, joinErr, controls, spoken>> /\ UNCHANGED server

\* The consumer of Frames.
Consume ==
    /\ frames # <<>>
    /\ frames' = Tail(frames)
    /\ UNCHANGED <<client, roster, joinErr, controls, audio, spoken>> /\ UNCHANGED server

\* readLoop ends: on the relay's side, an error is kept; on our own Close,
\* none is.
Lost ==
    /\ client = "joined"
    /\ client' = "lost" /\ joinErr' = TRUE
    /\ controls' = <<>> /\ audio' = <<>>
    /\ UNCHANGED <<roster, frames, spoken>> /\ UNCHANGED server

Close ==
    /\ client \in {"joined", "lost"}
    /\ client' = "closed"
    /\ controls' = <<>> /\ audio' = <<>>
    /\ UNCHANGED <<roster, frames, joinErr, spoken>> /\ UNCHANGED server

Next == \/ \E s \in Sessions : \/ Refused(s) \/ Join(s) \/ JoinError(s) \/ Announce(s) \/ JoinedUnwritten(s)
                               \/ Speak(s) \/ Ends(s) \/ Leave(s) \/ SayLeft(s)
        \/ Dial \/ ReadControl \/ ReadFrame \/ Consume \/ Lost \/ Close

Spec == Init /\ [][Next]_vars

----------------------------------------------------------------------------
(***************************************************************************)
(* A voice is never put under another person's name, however roster news   *)
(* and audio overtake each other while an index changes hands (Client      *)
(* deliver, applyControl and applyRoster against the room's epochs).       *)
(***************************************************************************)
NeverMisattributed ==
    \A k \in DOMAIN frames : frames[k].author # None => frames[k].author = frames[k].by

(***************************************************************************)
(* A room GET /huddle/rooms lists has somebody in it: whoever holds an     *)
(* index is a session that still runs, or one whose join could not be      *)
(* written (session.run, teardown and listLiveRooms; huddle_rooms.go says  *)
(* a room nobody is in does not exist).                                    *)
(***************************************************************************)
LiveRoomsAreLive == Listed => \A i \in Peers : sess[room[i].by] # "over"

(***************************************************************************)
(* Without that exception it fails: handshake returns before teardown is   *)
(* deferred, and the peer stays in the room (the "write" fault).           *)
(***************************************************************************)
NobodyLingers == \A i \in Peers : sess[room[i].by] # "dropped"

(***************************************************************************)
(* Frame's comment: an author is unknown only briefly, if audio outruns    *)
(* the joined message announcing its sender.  So once no roster news is on *)
(* its way, everyone in the room has a name.  It fails when one person     *)
(* leaves and joins again at the same index: the first session's late      *)
(* "left" names the pubkey and takes the new entry away.                   *)
(***************************************************************************)
AudibleIsNamed ==
    client = "joined" /\ controls = <<>> /\ (\A s \in Sessions : sess[s] \notin {"joined", "left"}) =>
        \A i \in Peers : i \in DOMAIN roster /\ roster[i] = Present[i]
=============================================================================
