--------------------------- MODULE SfuNegotiation ---------------------------
(* Signalling between one WebRTC session of a huddle and its client
   (huddle/sfu/session.go, with the tracks that huddle/sfu/video.go and
   huddle/rtp/rtp.go add).

   Three goroutines meet here.  The signalling loop handles the client's
   offer, its answers and its candidates, one message at a time.  A goroutine
   that first hears a speaker, or first sees a video publication, adds a track
   to the peer connection and then calls renegotiate.  The gatherer reports
   local candidates.  negotiateMu covers renegotiate and the two places where
   the loop reads pendingTracks; writeMu orders what goes on the socket.  The
   peer connection is pion's: a description carries every track added before
   it was created, and setting one moves the signalling state.  Descriptions pion
   refuses are left out: they are logged and end nothing. *)
EXTENDS Naturals, Sequences, FiniteSets

CONSTANTS Tracks,      \* outbound tracks that get added, one per speaker or video
          Local,       \* local candidates gathered
          Remote,      \* candidates the client trickles
          MaxPending   \* maxPendingCandidates

VARIABLES sig,        \* pion's signalling state: "stable", "remote", "local"
          added,      \* tracks on the peer connection
          offered,    \* tracks in the description last set as local
          agreed,     \* tracks in the description both sides have
          adder,      \* [Tracks -> "none", "adding", "done"]: AddTrack, then renegotiate
          negotiated, pending, \* s.negotiated, s.pendingTracks
          loop,       \* where the signalling loop is
          inbox,      \* messages from the client, oldest first
          outbox,     \* messages to the client, oldest first
          gathered,   \* local candidates reported so far
          sent,       \* s.localSent
          held,       \* s.pendingLocal, as the messages that will carry it
          remote,     \* pion has a remote description
          early,      \* s.pendingRemote
          applied,    \* remote candidates given to pion
          client      \* the client: what it did and saw

vars == <<sig, added, offered, agreed, adder, negotiated, pending, loop, inbox,
          outbox, gathered, sent, held, remote, early, applied, client>>
----------------------------------------------------------------------------
Init ==
  /\ sig = "stable" /\ added = {} /\ offered = {} /\ agreed = {}
  /\ adder = [t \in Tracks |-> "none"]
  /\ negotiated = FALSE /\ pending = FALSE
  /\ loop = "read" /\ inbox = <<>> /\ outbox = <<>>
  /\ gathered = {} /\ sent = FALSE /\ held = <<>> /\ remote = FALSE /\ early = {} /\ applied = {}
  /\ client = [offered |-> FALSE, sent |-> {}, seen |-> FALSE, early |-> {}]

Description(k, ts) == <<[type |-> k, tracks |-> ts]>>
Candidate(c) == [type |-> "candidate", c |-> c]

\* writeDescription puts the description on the socket and then the candidates
\* that were held back for it.
WriteDescription(k, ts) ==
  /\ outbox' = outbox \o Description(k, ts) \o held
  /\ held' = <<>> /\ sent' = TRUE
----------------------------------------------------------------------------
(* renegotiate *)

\* Mutant: a track added while an exchange is in flight is not noted.
RenegotiateForgets ==
  \/ /\ ~negotiated \/ sig # "stable"
     /\ UNCHANGED <<sig, offered, pending, outbox, held, sent>>
  \/ /\ negotiated /\ sig = "stable"
     /\ pending' = FALSE /\ sig' = "local" /\ offered' = added
     /\ WriteDescription("offer", added)

\* Notes the track when nothing can be offered now, else offers everything
\* added so far.
Renegotiate ==
  \/ /\ ~negotiated \/ sig # "stable"
     /\ pending' = TRUE
     /\ UNCHANGED <<sig, offered, outbox, held, sent>>
  \/ /\ negotiated /\ sig = "stable"
     /\ pending' = FALSE /\ sig' = "local" /\ offered' = added
     /\ WriteDescription("offer", added)

\* newSpeakerTrack and subscriptionFor add the track ...
AddTrack(t) ==
  /\ adder[t] = "none"
  /\ adder' = [adder EXCEPT ![t] = "adding"]
  /\ added' = added \cup {t}
  /\ UNCHANGED <<sig, offered, agreed, negotiated, pending, loop, inbox, outbox,
                 gathered, sent, held, early, applied, client, remote>>

\* ... and renegotiate, from the goroutine that added it.
TrackRenegotiate(t) ==
  /\ adder[t] = "adding"
  /\ adder' = [adder EXCEPT ![t] = "done"]
  /\ Renegotiate
  /\ UNCHANGED <<added, agreed, negotiated, loop, inbox, gathered, early, applied, client, remote>>
----------------------------------------------------------------------------
(* The signalling loop *)

Take(k) == /\ loop = "read" /\ inbox # <<>> /\ Head(inbox).type = k
           /\ inbox' = Tail(inbox)

\* flushRemoteCandidates gives pion what came before the description.
FlushRemote == applied' = applied \cup early /\ early' = {}

\* handleOffer: the client's description is set and its early candidates are
\* applied ...
HandleOffer ==
  /\ Take("offer") /\ sig = "stable"
  /\ remote' = TRUE
  /\ sig' = "remote" /\ loop' = "answer"
  /\ FlushRemote
  /\ UNCHANGED <<added, offered, agreed, adder, negotiated, pending, outbox,
                 gathered, sent, held, client>>

\* ... the answer, with the tracks there are, is set and written ...
Answer ==
  /\ loop = "answer"
  /\ sig' = "stable" /\ offered' = added /\ loop' = "write"
  /\ UNCHANGED <<added, agreed, adder, negotiated, pending, inbox, outbox,
                 gathered, sent, held, early, applied, client, remote>>

WriteAnswer ==
  /\ loop = "write"
  /\ WriteDescription("answer", offered)
  /\ agreed' = offered /\ loop' = "settle"
  /\ UNCHANGED <<sig, added, offered, adder, negotiated, pending, inbox,
                 gathered, early, applied, client, remote>>

\* ... and the session counts as negotiated, reading in the same critical
\* section whether a track was added meanwhile.
Settle ==
  /\ loop = "settle"
  /\ negotiated' = TRUE
  /\ loop' = IF pending THEN "offer" ELSE "read"
  /\ UNCHANGED <<sig, added, offered, agreed, adder, pending, inbox, outbox,
                 gathered, sent, held, early, applied, client, remote>>

\* handleAnswer: the exchange the server began is over ...
HandleAnswer ==
  /\ Take("answer") /\ sig = "local"
  /\ sig' = "stable" /\ agreed' = offered
  /\ FlushRemote
  /\ loop' = "answered"
  /\ UNCHANGED <<added, offered, adder, negotiated, pending, outbox, gathered,
                 sent, held, client, remote>>

\* Mutant: nothing looks for tracks added while the exchange was in flight.
AnsweredQuietly ==
  /\ loop = "answered" /\ loop' = "read"
  /\ UNCHANGED <<sig, added, offered, agreed, adder, negotiated, pending, inbox, outbox,
                 gathered, sent, held, early, applied, client, remote>>

\* ... and what was added meanwhile can go out.
Answered ==
  /\ loop = "answered"
  /\ loop' = IF pending THEN "offer" ELSE "read"
  /\ UNCHANGED <<sig, added, offered, agreed, adder, negotiated, pending, inbox, outbox,
                 gathered, sent, held, early, applied, client, remote>>

\* The loop's own renegotiate, after the unlock.
LoopRenegotiate ==
  /\ loop = "offer"
  /\ loop' = "read"
  /\ Renegotiate
  /\ UNCHANGED <<added, agreed, adder, negotiated, inbox, gathered, early, applied, client, remote>>

\* Mutant: a candidate that comes before the offer is handed to pion, which
\* refuses it.
AddRemoteLoses ==
  /\ Take("candidate")
  /\ applied' = IF remote THEN applied \cup {Head(inbox).c} ELSE applied
  /\ UNCHANGED <<sig, added, offered, agreed, adder, negotiated, pending, loop,
                 outbox, gathered, sent, held, early, client, remote>>

\* addRemoteCandidate holds a candidate until there is a remote description.
AddRemote ==
  /\ Take("candidate")
  /\ LET c == Head(inbox).c
     IN  IF ~remote
         THEN /\ early' = IF Cardinality(early) < MaxPending THEN early \cup {c} ELSE early
              /\ applied' = applied
         ELSE applied' = applied \cup {c} /\ early' = early
  /\ UNCHANGED <<sig, added, offered, agreed, adder, negotiated, pending, loop,
                 outbox, gathered, sent, held, client, remote>>
----------------------------------------------------------------------------
(* Local candidates *)

\* Mutant: a gathered candidate goes out at once.
GatherSends(c) ==
  /\ c \in Local \ gathered
  /\ loop \in {"write", "settle"} \/ sent
  /\ gathered' = gathered \cup {c}
  /\ outbox' = Append(outbox, Candidate(c))
  /\ UNCHANGED <<sig, added, offered, agreed, adder, negotiated, pending, loop,
                 inbox, sent, held, early, applied, client, remote>>

\* pion gathers from the moment a local description is set; a candidate waits
\* until that description is on the wire.
Gather(c) ==
  /\ c \in Local \ gathered
  /\ loop \in {"write", "settle"} \/ sent
  /\ gathered' = gathered \cup {c}
  /\ IF sent THEN outbox' = Append(outbox, Candidate(c)) /\ held' = held
     ELSE /\ held' = IF Len(held) < MaxPending THEN Append(held, Candidate(c)) ELSE held
          /\ outbox' = outbox
  /\ UNCHANGED <<sig, added, offered, agreed, adder, negotiated, pending, loop,
                 inbox, sent, early, applied, client, remote>>
----------------------------------------------------------------------------
(* The client: it offers once, trickles candidates and answers offers. *)

ClientOffers ==
  /\ ~client.offered
  /\ client' = [client EXCEPT !.offered = TRUE]
  /\ inbox' = Append(inbox, [type |-> "offer"])
  /\ UNCHANGED <<sig, added, offered, agreed, adder, negotiated, pending, loop,
                 outbox, gathered, sent, held, early, applied, remote>>

ClientTrickles(c) ==
  /\ c \in Remote \ client.sent
  /\ client' = [client EXCEPT !.sent = @ \cup {c}]
  /\ inbox' = Append(inbox, Candidate(c))
  /\ UNCHANGED <<sig, added, offered, agreed, adder, negotiated, pending, loop,
                 outbox, gathered, sent, held, early, applied, remote>>

ClientReads ==
  /\ outbox # <<>>
  /\ outbox' = Tail(outbox)
  /\ LET m == Head(outbox) IN
     /\ client' = IF m.type # "candidate" THEN [client EXCEPT !.seen = TRUE]
                  ELSE IF client.seen THEN client ELSE [client EXCEPT !.early = @ \cup {m.c}]
     /\ inbox' = IF m.type = "offer" THEN Append(inbox, [type |-> "answer"]) ELSE inbox
  /\ UNCHANGED <<sig, added, offered, agreed, adder, negotiated, pending, loop,
                 gathered, sent, held, early, applied, remote>>

Next ==
  \/ \E t \in Tracks : AddTrack(t) \/ TrackRenegotiate(t)
  \/ HandleOffer \/ Answer \/ WriteAnswer \/ Settle \/ HandleAnswer \/ Answered
  \/ LoopRenegotiate \/ AddRemote
  \/ \E c \in Local : Gather(c)
  \/ ClientOffers \/ \E c \in Remote : ClientTrickles(c)
  \/ ClientReads

Spec == Init /\ [][Next]_vars

\* Every goroutine runs on, and the client makes its offer and answers.
Fairness ==
  /\ \A t \in Tracks : WF_vars(TrackRenegotiate(t))
  /\ WF_vars(HandleOffer) /\ WF_vars(Answer) /\ WF_vars(WriteAnswer)
  /\ WF_vars(Settle) /\ WF_vars(HandleAnswer) /\ WF_vars(Answered)
  /\ WF_vars(LoopRenegotiate)
  /\ WF_vars(AddRemote) /\ WF_vars(ClientOffers) /\ WF_vars(ClientReads)

FairSpec == Spec /\ Fairness
----------------------------------------------------------------------------
TypeOK ==
  /\ sig \in {"stable", "remote", "local"} /\ agreed \subseteq added
  /\ loop \in {"read", "answer", "write", "settle", "answered", "offer"}

Added(t) == t \in added
Agreed(t) == t \in agreed

\* A track added at any moment ends up in a description both sides have:
\* renegotiate notes a track it cannot offer yet, and the end of an exchange
\* picks it up.
EveryTrackNegotiated == \A t \in Tracks : Added(t) ~> Agreed(t)

\* The client never sees a candidate before the description it belongs to:
\* queueLocalCandidate holds it until writeDescription has written one.
NoEarlyCandidate == client.early = {}

\* No candidate of the client is lost for having come before its offer: it is
\* held and applied with the description, up to the cap.
RemoteCandidatesApplied ==
  (client.offered /\ inbox = <<>> /\ loop = "read" /\ sent /\ Cardinality(Remote) <= MaxPending)
    => client.sent \subseteq applied
=============================================================================
