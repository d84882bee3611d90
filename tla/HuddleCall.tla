----------------------------- MODULE HuddleCall -----------------------------
(***************************************************************************)
(* The listener's side of a call (cli/huddle, huddle/audio): one loop that *)
(* takes audio frames, folds them into who is speaking, mixes them through *)
(* a decoder per speaker, and on every tick takes over the client's        *)
(* roster.  Mode "board" is the TUI with sound, "headless" the NDJSON      *)
(* stream of the same loop.  The client's roster and its buffered frames   *)
(* change under the loop (HuddleRoom); a frame may be taken long after its *)
(* author left.                                                            *)
(***************************************************************************)
EXTENDS Naturals, Sequences, FiniteSets

CONSTANTS Keys,          \* the other participants
          FrameBuffer    \* the client's frame buffer

VARIABLES mode,          \* "board" or "headless"
          room,          \* Client.Roster
          frames,        \* Client.Frames: [key, loud]
          present,       \* roster.present
          level,         \* keys of roster.lastLevel
          spoke,         \* keys whose lastSpoke is within the hold
          decoders,      \* keys of Mixer.decoders
          mixed,         \* Mixer.mixed: speakers in the mix not drained
          shown,         \* runHeadless: present
          speaking,      \* runHeadless: speaking
          told,          \* [Keys -> what the events emitted so far say of them]
          st             \* "on", "dropped", "left", "interrupted"

vars == <<mode, room, frames, present, level, spoke, decoders, mixed, shown, speaking, told, st>>

reported == <<mode, shown, speaking, told>>

\* NewBoard seeds the roster before the first paint; runHeadless starts
\* from nobody.
Init == /\ mode \in {"board", "headless"}
        /\ room \in SUBSET Keys
        /\ frames = <<>>
        /\ present = IF mode = "board" THEN room ELSE {}
        /\ level = {} /\ spoke = {}
        /\ decoders = {} /\ mixed = {}
        /\ shown = {} /\ speaking = {}
        /\ told = [k \in Keys |-> "out"]
        /\ st = "on"

----------------------------------------------------------------------------
\* The client: a peer enters or leaves, or speaks while the roster has it.
Enter(k) == /\ st = "on" /\ room' = room \cup {k} /\ k \notin room
            /\ UNCHANGED <<frames, present, level, spoke, decoders, mixed, st>> /\ UNCHANGED reported

Exit(k) == /\ st = "on" /\ k \in room /\ room' = room \ {k}
           /\ UNCHANGED <<frames, present, level, spoke, decoders, mixed, st>> /\ UNCHANGED reported

Arrives(k) == /\ st = "on" /\ k \in room /\ Len(frames) < FrameBuffer
              /\ \E loud \in BOOLEAN : frames' = Append(frames, [key |-> k, loud |-> loud])
              /\ UNCHANGED <<room, present, level, spoke, decoders, mixed, st>> /\ UNCHANGED reported

\* audioPump.add with Mixer.Add: the decoder is there even when the payload
\* does not decode.
Mixes(k) == /\ decoders' = decoders \cup {k}
            /\ mixed' = mixed \cup {k} \/ mixed' = mixed

\* heardFrame, and the mix
TakeFrame ==
    LET f == Head(frames)
    IN  /\ st = "on" /\ frames # <<>> /\ frames' = Tail(frames)
        /\ level' = level \cup {f.key}
        /\ spoke' = IF f.loud THEN spoke \cup {f.key} ELSE spoke
        /\ IF mode = "board"
             THEN Mixes(f.key)
             ELSE UNCHANGED <<decoders, mixed>>
        /\ UNCHANGED <<room, present, st>> /\ UNCHANGED reported

\* audioPump.run: the mix is drained to the player every 20 ms.
Drain == /\ st = "on" /\ mixed # {} /\ mixed' = {}
         /\ UNCHANGED <<room, frames, present, level, spoke, decoders, st>> /\ UNCHANGED reported

\* SpeakingHold passes since k's last loud frame.
HoldOver(k) == /\ k \in spoke /\ spoke' = spoke \ {k}
               /\ UNCHANGED <<room, frames, present, level, decoders, mixed, st>> /\ UNCHANGED reported

----------------------------------------------------------------------------
\* roster.sync: whoever has a level and is not in the room is gone.
DepartedOfPresent == present \ room

Departed == level \ room

\* audioPump.forget of each of them (Mixer.Forget)
Forget == decoders' = decoders \ Departed

\* The events a tick emits about k, in order.
LeftEventsOnly(k) == <<"participant_left">>

LeftEvents(k) == IF k \in speaking THEN <<"speaking_stopped", "participant_left">> ELSE <<"participant_left">>

HereEvents(k, talks) ==
    (IF k \in shown THEN <<>> ELSE <<"participant_joined">>)
    \o (IF talks = (k \in speaking) THEN <<>>
        ELSE IF talks THEN <<"speaking_started">> ELSE <<"speaking_stopped">>)

\* What a reader of the stream knows of a participant.
Learn(state, e) ==
    CASE state = "out" /\ e = "participant_joined"  -> "in"
      [] state = "in" /\ e = "speaking_started"     -> "talking"
      [] state = "talking" /\ e = "speaking_stopped" -> "in"
      [] state = "in" /\ e = "participant_left"     -> "out"
      [] OTHER -> "nonsense"

LearnAll(state, es) ==
    LET upto[i \in 0..Len(es)] == IF i = 0 THEN state ELSE Learn(upto[i - 1], es[i])
    IN  upto[Len(es)]

\* runHeadless's tick: the events of who left, came, spoke or fell silent.
Report(now, talks) ==
    /\ shown' = now
    /\ speaking' = talks
    /\ told' = [k \in Keys |->
         LearnAll(told[k], IF k \in now THEN HereEvents(k, k \in talks)
                           ELSE IF k \in shown THEN LeftEvents(k) ELSE <<>>)]

\* roster.participants: who is in the room and within the hold.
Talking == (spoke \ Departed) \cap room

\* Board.Run's tick: sync, forget, participants; headless, the events.
Tick ==
    LET now   == room
        talks == Talking
    IN  /\ st = "on"
        /\ present' = now
        /\ level' = level \ Departed
        /\ spoke' = spoke \ Departed
        /\ Forget
        /\ IF mode = "headless" THEN Report(now, talks) ELSE UNCHANGED <<shown, speaking, told>>
        /\ UNCHANGED <<mode, room, frames, mixed, st>>

\* The frame channel closes; Leave after the dialog or Ctrl+C; ctx or
\* --duration ends.
Ended == /\ st = "on"
         /\ st' \in {"dropped"} \cup (IF mode = "board" THEN {"left"} ELSE {"interrupted"})
         /\ UNCHANGED <<room, frames, present, level, spoke, decoders, mixed>> /\ UNCHANGED reported

Next == \/ \E k \in Keys : Enter(k) \/ Exit(k) \/ Arrives(k) \/ HoldOver(k)
        \/ TakeFrame \/ Drain \/ Tick \/ Ended

Spec == Init /\ [][Next]_vars

----------------------------------------------------------------------------
DecodersFollowRoom ==
    Tick => decoders' \subseteq room

(***************************************************************************)
(* A tick leaves decoders only for people in the room, also when a frame   *)
(* of somebody who had left was mixed after the tick that saw them go      *)
(* (roster.sync's departed, audioPump.forget, Mixer).                      *)
(***************************************************************************)
DecodersLeaveToo == [][DecodersFollowRoom]_vars

(***************************************************************************)
(* The event stream of `space join --json' tells a consistent story of     *)
(* every participant: nobody speaks who has not joined or has left, nobody *)
(* stops who has not started (runHeadless).                                *)
(***************************************************************************)
StoryMakesSense == \A k \in Keys : told[k] # "nonsense"
=============================================================================
