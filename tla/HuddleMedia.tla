---------------------------- MODULE HuddleMedia ----------------------------
(***************************************************************************)
(* What one WebRTC subscriber of a room receives.  Audio: packets of other *)
(* peers become huddle frames (huddle/rtp/ingest.go), the room hands the   *)
(* frames to the subscriber's sink, and the sink's one writer makes them   *)
(* RTP again, one track a speaker (huddle/rtp/rtp.go).  Video: a publisher *)
(* that may reconnect is forwarded packet by packet, and the subscriber's  *)
(* feedback asks the session it is told to ask for a keyframe              *)
(* (huddle/sfu/video.go).  The peers, their encoders and the network are   *)
(* external.                                                               *)
(***************************************************************************)
EXTENDS Naturals, Sequences, FiniteSets

CONSTANTS Speakers,      \* pubkeys heard by the subscriber
          QueueDepth,    \* Config.QueueDepth
          MaxFails,      \* bound: failures to add a track, lost packets
          Streams,       \* 1..n: sessions of the publisher, the next one a reconnect
          None

VARIABLES queue,         \* Sink.queue: [author, voice]
          tracks,        \* Sink.tracks: [speakers with a track -> [silent, spurt]]
          hand,          \* the item write works on, or None
          heard,         \* speakers whose packets reach the subscriber
          closed,        \* Sink.done is closed
          live,          \* publisher sessions in the hub
          owner,         \* subscription.owner; None before the subscription
          bound,         \* the subscriber has answered the renegotiation
          first,         \* subscription.heardFromPeer
          throttled,     \* lastRequest is less than keyframeInterval ago
          want,          \* publisher sessions asked for a keyframe
          fresh,         \* publisher sessions that have sent nothing yet
          seen,          \* the stream the subscriber can decode, or None
          fails

sink  == <<queue, tracks, hand, heard, closed>>
video == <<live, owner, bound, first, throttled, want, fresh, seen>>
vars  == <<queue, tracks, hand, heard, closed, live, owner, bound, first, throttled, want, fresh, seen, fails>>

Init == /\ queue = <<>> /\ tracks = [a \in {} |-> None] /\ hand = None
        /\ heard = {} /\ closed = FALSE
        /\ live = {} /\ owner = None /\ bound = FALSE /\ first = FALSE
        /\ throttled = FALSE /\ want = {} /\ fresh = Streams /\ seen = None
        /\ fails = 0

Gone == [author |-> None]    \* the writer has returned

Fault == fails < MaxFails /\ fails' = fails + 1

----------------------------------------------------------------------------
\* FrameFromRTP and AudioLevel: no voice is DTX, and a packet without the
\* level extension counts as voice.
Voice(p) == ~p.ext \/ p.v

\* SendFrame: the room's goroutine, never blocking.  A full queue drops.
SendFrame(a) == \E p \in [ext : BOOLEAN, v : BOOLEAN] :
    /\ queue' = IF Len(queue) < QueueDepth THEN Append(queue, [author |-> a, voice |-> Voice(p)]) ELSE queue
    /\ UNCHANGED <<tracks, hand, heard, closed, fails>> /\ UNCHANGED video

\* writeLoop: done and the queue may both be ready; either is taken.
TakeItem ==
    /\ hand = None /\ queue # <<>>
    /\ hand' = Head(queue) /\ queue' = Tail(queue)
    /\ UNCHANGED <<tracks, heard, closed, fails>> /\ UNCHANGED video

WriterEnds ==
    /\ closed /\ hand = None
    /\ hand' = Gone
    /\ UNCHANGED <<queue, tracks, heard, closed, fails>> /\ UNCHANGED video

Writing == hand \notin {None, Gone}

\* trackFor: the factory adds a track and renegotiates; its failure is not
\* remembered.
TrackFailsCached ==
    /\ Writing /\ hand.author \notin DOMAIN tracks /\ Fault
    /\ tracks' = [a \in DOMAIN tracks \cup {hand.author} |->
                    IF a = hand.author THEN [silent |-> TRUE, broken |-> TRUE] ELSE tracks[a]]
    /\ hand' = None
    /\ UNCHANGED <<queue, heard, closed>> /\ UNCHANGED video

TrackFails ==
    /\ Writing /\ hand.author \notin DOMAIN tracks /\ Fault
    /\ hand' = None
    /\ UNCHANGED <<queue, tracks, heard, closed>> /\ UNCHANGED video

NewTrack ==
    /\ Writing /\ hand.author \notin DOMAIN tracks
    /\ tracks' = [a \in DOMAIN tracks \cup {hand.author} |->
                    IF a = hand.author THEN [silent |-> TRUE, broken |-> FALSE] ELSE tracks[a]]
    /\ UNCHANGED <<queue, hand, heard, closed, fails>> /\ UNCHANGED video

\* write: the marker flags the first voice after silence.
Write ==
    /\ Writing /\ hand.author \in DOMAIN tracks
    /\ tracks' = [tracks EXCEPT ![hand.author].silent = ~hand.voice]
    /\ heard' = IF tracks[hand.author].broken THEN heard ELSE heard \cup {hand.author}
    /\ hand' = None
    /\ UNCHANGED <<queue, closed, fails>> /\ UNCHANGED video

Close ==
    /\ ~closed /\ closed' = TRUE
    /\ UNCHANGED <<queue, tracks, hand, heard, fails>> /\ UNCHANGED video

----------------------------------------------------------------------------
\* The publisher joins, and later comes back as its next session while the
\* old one may still be in the hub.
Publish(p) ==
    /\ p \in fresh \ live /\ (p = 1 \/ p - 1 \notin fresh)
    /\ live' = live \cup {p}
    /\ UNCHANGED <<owner, bound, first, throttled, want, fresh, seen, fails>> /\ UNCHANGED sink

\* teardown of a session that was replaced.
Unpublish(p) ==
    /\ p \in live /\ p + 1 \in live
    /\ live' = live \ {p}
    /\ UNCHANGED <<owner, bound, first, throttled, want, fresh, seen, fails>> /\ UNCHANGED sink

\* adopt: whose packets the subscription carries now.
AdoptFirst(p) == IF owner = None THEN p ELSE owner

Adopt(p) == p

\* writeVideo asks for a keyframe when the subscription is fresh or moved.
Moved(p) == Adopt(p) # owner

\* forwardVideo for one packet: a keyframe if the encoder starts or was asked,
\* subscriptionFor on the first, a forced request when the source is new.
\* Unbound, the packet goes nowhere.
Packet(p) ==
    LET key   == p \in fresh \cup want
        moved == Moved(p)
    IN  /\ p \in live
        /\ p \in fresh \/ p \in want \/ moved \/ seen # p    \* others repeat
        /\ owner' = Adopt(p)
        /\ want' = (want \ {p}) \cup (IF moved THEN {Adopt(p)} ELSE {})
        /\ throttled' = (throttled \/ moved)
        /\ fresh' = fresh \ {p}
        /\ seen' = IF ~bound THEN seen ELSE IF key THEN p ELSE IF seen = p THEN p ELSE None
        /\ UNCHANGED <<live, bound, first, fails>> /\ UNCHANGED sink

\* The packet is lost on the subscriber's leg: it cannot go on decoding.
PacketLost(p) ==
    /\ p \in live /\ owner = p /\ p \notin fresh /\ Fault
    /\ want' = want \ {p} /\ seen' = None
    /\ UNCHANGED <<live, owner, bound, first, throttled, fresh>> /\ UNCHANGED sink

\* subscriptionFor cannot add the track: nothing is recorded, the next
\* packet tries again.
AddFails(p) ==
    /\ p \in live /\ owner = None /\ Fault
    /\ fresh' = fresh \ {p}
    /\ UNCHANGED <<live, owner, bound, first, throttled, want, seen>> /\ UNCHANGED sink

\* The renegotiation for the new track completes (SfuNegotiation).
Bind ==
    /\ owner # None /\ ~bound
    /\ bound' = TRUE
    /\ UNCHANGED <<live, owner, first, throttled, want, fresh, seen, fails>> /\ UNCHANGED sink

\* The owner's own requestKeyframe: a request to a session that is gone is lost.
Reached == {owner} \cap live

\* requestKeyframe: at most one an interval unless forced.
Asked(force) == IF force \/ ~throttled THEN want \cup Reached ELSE want

\* readSubscriberRTCP: the first feedback forces a request.
FirstFeedback ==
    /\ bound /\ ~first
    /\ first' = TRUE /\ want' = Asked(TRUE) /\ throttled' = TRUE
    /\ UNCHANGED <<live, owner, bound, fresh, seen, fails>> /\ UNCHANGED sink

\* PLI or FIR: the subscriber cannot decode.
PictureLoss ==
    /\ bound /\ first /\ seen = None /\ ~throttled
    /\ want' = Asked(FALSE) /\ throttled' = TRUE
    /\ UNCHANGED <<live, owner, bound, first, fresh, seen, fails>> /\ UNCHANGED sink

Interval ==
    /\ throttled /\ throttled' = FALSE
    /\ UNCHANGED <<live, owner, bound, first, want, fresh, seen, fails>> /\ UNCHANGED sink

Next == \/ \E a \in Speakers : SendFrame(a)
        \/ TakeItem \/ WriterEnds \/ TrackFails \/ NewTrack \/ Write \/ Close
        \/ \E p \in Streams : Publish(p) \/ Unpublish(p) \/ Packet(p) \/ PacketLost(p) \/ AddFails(p)
        \/ Bind \/ FirstFeedback \/ PictureLoss \/ Interval

Spec == Init /\ [][Next]_vars

\* A frame that the queue takes.
SendsFrame(a) == SendFrame(a) /\ queue' # queue

\* The writer, the publisher and the subscriber's feedback go on; a
\* replaced session is torn down; every speaker speaks again and the queue
\* has room for them again and again.
Fairness ==
    /\ WF_vars(TakeItem) /\ WF_vars(WriterEnds) /\ WF_vars(NewTrack) /\ WF_vars(Write)
    /\ \A a \in Speakers : SF_vars(SendsFrame(a))
    /\ \A p \in Streams : WF_vars(Packet(p)) /\ WF_vars(Unpublish(p))
    /\ WF_vars(Bind) /\ WF_vars(FirstFeedback) /\ WF_vars(PictureLoss) /\ WF_vars(Interval)

FairSpec == Spec /\ Fairness

----------------------------------------------------------------------------
Heard(a) == a \in heard \/ closed

(***************************************************************************)
(* A speaker who goes on speaking is heard: a track that could not be      *)
(* added for one frame does not silence them for good (Sink.trackFor,      *)
(* TrackFactory).                                                          *)
(***************************************************************************)
EverySpeakerHeard == \A a \in Speakers : <>Heard(a)

Publishing(p) == p \in live
Watching(p) == seen = p

(***************************************************************************)
(* A subscriber comes to see a publisher that stays, though it joined      *)
(* between keyframes, its track was bound after the first ones, packets    *)
(* were lost, requests were throttled and the publisher reconnected        *)
(* (writeVideo, adopt, readSubscriberRTCP, requestKeyframe).               *)
(***************************************************************************)
ViewerRecovers ==
    \A p \in Streams : p + 1 \notin Streams => (Publishing(p) ~> Watching(p))
=============================================================================
