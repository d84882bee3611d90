---------------------------- MODULE DurableProofs ----------------------------
(***************************************************************************)
(* Proofs about three parts that answer for what they wrote to disk, for   *)
(* any sets of callers, events, destinations and workers and any bound on  *)
(* requests, retries and failures.                                         *)
(*                                                                         *)
(* RelayModeration (cli/relay/moderation.go): a ban that was acknowledged  *)
(* holds in memory and on disk, and an event whose ban was acknowledged is *)
(* out of the store, whichever saves and deletions fail.                   *)
(*                                                                         *)
(* StreamRecovery (client/recovery.go): an event handed to recovery is     *)
(* held until it is delivered or dropped.  RecoveryInv adds that the event *)
(* is written before its metadata.                                         *)
(*                                                                         *)
(* StreamLocal (client/stream.go): a deletion written after its target was *)
(* read leaves the target deleted.  LocalInv follows the barrier in read   *)
(* order.                                                                  *)
(***************************************************************************)
EXTENDS RelayModeration, StreamRecovery, TLAPS

-----------------------------------------------------------------------------
(* Moderation *)

\* The mutex is held from the change of the state to its save.
MutexHeld == \A c \in Callers : calls[c].pc = "saving" <=> mu = c

\* Memory and file differ only by the change being saved, and update's copy is
\* what the file still holds.
OneChangeAhead ==
  /\ mu = "free" => mem = disk
  /\ mu # "free" => /\ prev = disk
                    /\ calls[mu].m = "ban" => mem.bans = prev.bans \cup {calls[mu].x}
                    /\ calls[mu].m = "unban" => mem.bans = prev.bans \ {calls[mu].x}
                    /\ calls[mu].m \notin {"ban", "unban"} => mem.bans = prev.bans

InForce(x) == x \in mem.bans /\ x \in disk.bans

\* The request c is past its save, bans x, and nobody lifted the ban since.
Banning(c) == calls[c].m = "ban" /\ calls[c].sure

\* What was answered, or is about to be, is in force.
AnswersInForce ==
  /\ \A x \in acked : InForce(x)
  /\ \A c \in Callers : calls[c].pc \in {"find", "reply"} /\ Banning(c) => InForce(calls[c].x)

\* An event is out of the store before banevent answers, or came in late.
GoneBeforeAnswer ==
  /\ \A e \in stored : e \in acked => e \in late
  /\ \A c \in Callers : calls[c].pc = "reply" /\ Banning(c) /\ calls[c].x \in stored
                        => calls[c].x \in late

\* A request that reads the document again or replaces it is a rename.
RenamesOnly == \A c \in Callers : calls[c].pc \in {"rebuild", "swap"} => calls[c].m = "name"

ModerationInv == TypeOK /\ MutexHeld /\ OneChangeAhead /\ AnswersInForce /\ GoneBeforeAnswer
                 /\ RenamesOnly
-----------------------------------------------------------------------------
(* Operators *)

\* A change of the state yields a state (the methods of registerModerationMethods).
LEMMA ApplyTyped ==
  ASSUME NEW s \in State, NEW r \in Requests
  PROVE  Apply(s, r) \in State
<1>1. CASE r.m = "ban"
  <2>1. r.x \in Targets
    BY <1>1 DEF Requests
  <2>. QED
    BY <1>1, <2>1 DEF Apply, State
<1>2. CASE r.m = "unban"
  BY <1>2 DEF Apply, State
<1>3. CASE r.m = "allowkind"
  <2>1. r.x \in Kinds
    BY <1>3 DEF Requests
  <2>2. Apply(s, r) = [s EXCEPT !.disallowed = @ \ {r.x}, !.allowed = @ \cup {r.x}]
    BY <1>3 DEF Apply
  <2>. QED
    BY <2>1, <2>2 DEF State
<1>4. CASE r.m = "disallowkind"
  <2>1. r.x \in Kinds
    BY <1>4 DEF Requests
  <2>2. Apply(s, r) = [s EXCEPT !.allowed = @ \ {r.x}, !.disallowed = @ \cup {r.x}]
    BY <1>4 DEF Apply
  <2>. QED
    BY <2>1, <2>2 DEF State
<1>5. CASE r.m = "name"
  <2>1. r.x \in Names
    BY <1>5 DEF Requests
  <2>. QED
    BY <1>5, <2>1 DEF Apply, State
<1>. QED
  BY <1>1, <1>2, <1>3, <1>4, <1>5 DEF Requests

\* Only ban and unban touch the bans, and only their own target.
LEMMA ApplyBans ==
  ASSUME NEW s \in State, NEW r \in Requests
  PROVE  /\ r.m = "ban" => Apply(s, r).bans = s.bans \cup {r.x}
         /\ r.m = "unban" => Apply(s, r).bans = s.bans \ {r.x}
         /\ r.m \notin {"ban", "unban"} => Apply(s, r).bans = s.bans
<1>1. r.m = "ban" => Apply(s, r).bans = s.bans \cup {r.x}
  BY DEF Apply, State
<1>2. r.m = "unban" => Apply(s, r).bans = s.bans \ {r.x}
  BY DEF Apply, State
<1>3. CASE r.m = "allowkind"
  <2>2. Apply(s, r) = [s EXCEPT !.disallowed = @ \ {r.x}, !.allowed = @ \cup {r.x}]
    BY <1>3 DEF Apply
  <2>. QED
    BY <1>3, <2>2 DEF State
<1>4. CASE r.m = "disallowkind"
  <2>2. Apply(s, r) = [s EXCEPT !.allowed = @ \ {r.x}, !.disallowed = @ \cup {r.x}]
    BY <1>4 DEF Apply
  <2>. QED
    BY <1>4, <2>2 DEF State
<1>5. CASE r.m = "name"
  BY <1>5 DEF Apply, State
<1>. QED
  BY <1>1, <1>2, <1>3, <1>4, <1>5 DEF Requests
-----------------------------------------------------------------------------
(* One lemma per action *)

\* newRelayModeration starts with an empty state, in memory and on disk.
LEMMA ModerationInit == Init => ModerationInv
<1>. SUFFICES ASSUME Init PROVE ModerationInv
  OBVIOUS
<1>. USE ModerationAssumption
<1>1. Empty \in State /\ Idle \in Call
  BY DEF Empty, State, Idle, Call
<1>2. TypeOK
  BY <1>1 DEF Init, TypeOK
<1>3. \A c \in Callers : calls[c] = Idle
  BY DEF Init
<1>4. MutexHeld
  BY <1>3 DEF Init, MutexHeld, Idle
<1>5. OneChangeAhead
  BY DEF Init, OneChangeAhead
<1>6. AnswersInForce
  BY <1>3 DEF Init, AnswersInForce, Idle
<1>7. GoneBeforeAnswer
  BY <1>3 DEF Init, GoneBeforeAnswer, Idle
<1>8. RenamesOnly
  BY <1>3 DEF RenamesOnly, Idle
<1>. QED
  BY <1>2, <1>4, <1>5, <1>6, <1>7, <1>8 DEF ModerationInv

\* update takes the mutex and changes memory: a ban is added for one target, or
\* lifted for one target, whose pending answers no longer count.
LEMMA BeginStep ==
  ASSUME ModerationInv, NEW c \in Callers, NEW r \in Requests, Begin(c, r)
  PROVE  ModerationInv'
<1>. USE ModerationAssumption DEF ModerationInv
<1>1. /\ calls[c].pc = "idle" /\ mu = "free" /\ mu' = c /\ prev' = mem
      /\ mem' = Apply(mem, r) /\ disk' = disk /\ mem = disk
      /\ stored' = stored /\ late' = late
  BY DEF Begin, OneChangeAhead
<1>2. mem \in State /\ mem' \in State
  BY <1>1, ApplyTyped DEF TypeOK
<1>3. /\ r.m \in {"ban", "unban", "allowkind", "disallowkind", "name"}
      /\ r.x \in Targets \cup Kinds \cup Names
  BY DEF Requests
<1>4. calls'[c] = [pc |-> "saving", m |-> r.m, x |-> r.x, md |-> Name0, sure |-> TRUE]
  BY DEF Begin
<1>5. \A d \in Callers : d # c => calls[d].pc # "saving"
  BY <1>1 DEF MutexHeld
<1>6. \A d \in Callers \ {c} :
         calls'[d] = IF r.m = "unban" /\ calls[d].x = r.x
                     THEN [calls[d] EXCEPT !.sure = FALSE] ELSE calls[d]
  BY DEF Begin
<1>7. \A d \in Callers \ {c} : /\ calls[d] \in Call /\ calls'[d] \in Call
                               /\ calls'[d].pc = calls[d].pc
                               /\ calls'[d].m = calls[d].m /\ calls'[d].x = calls[d].x
                               /\ calls'[d].sure => calls[d].sure /\ (r.m = "unban" => calls[d].x # r.x)
  <2>. SUFFICES ASSUME NEW d \in Callers \ {c}
       PROVE  /\ calls[d] \in Call /\ calls'[d] \in Call
              /\ calls'[d].pc = calls[d].pc
              /\ calls'[d].m = calls[d].m /\ calls'[d].x = calls[d].x
              /\ calls'[d].sure => calls[d].sure /\ (r.m = "unban" => calls[d].x # r.x)
    OBVIOUS
  <2>1. calls[d] \in Call
    BY DEF TypeOK
  <2>2. CASE r.m = "unban" /\ calls[d].x = r.x
    BY <1>6, <2>1, <2>2 DEF Call
  <2>3. CASE ~(r.m = "unban" /\ calls[d].x = r.x)
    BY <1>6, <2>1, <2>3 DEF Call
  <2>. QED
    BY <2>2, <2>3
<1>8. calls'[c] \in Call
  BY <1>3, <1>4 DEF Call
<1>9. acked' = IF r.m = "unban" THEN acked \ {r.x} ELSE acked
  BY DEF Begin
<1>10. TypeOK'
  <2>1. calls' \in [Callers -> Call]
    BY <1>7, <1>8 DEF Begin
  <2>. QED
    BY <1>1, <1>2, <1>9, <2>1 DEF TypeOK, Begin
<1>11. MutexHeld'
  BY <1>1, <1>4, <1>5, <1>7 DEF MutexHeld
<1>12. OneChangeAhead'
  BY <1>1, <1>2, <1>4, ApplyBans DEF OneChangeAhead
<1>13. AnswersInForce'
  <2>1. \A x \in mem.bans : r.m # "unban" \/ x # r.x => x \in mem'.bans
    BY <1>1, <1>2, <1>3, ApplyBans
  <2>2. \A x \in acked' : x \in acked /\ (r.m # "unban" \/ x # r.x)
    BY <1>9
  <2>3. \A x \in acked' : InForce(x)'
    BY <1>1, <2>1, <2>2 DEF AnswersInForce, InForce
  <2>4. ASSUME NEW d \in Callers, calls'[d].pc \in {"find", "reply"}, Banning(d)'
        PROVE  InForce(calls[d].x)'
    <3>1. d # c
      BY <1>4, <2>4
    <3>2. /\ InForce(calls[d].x) /\ calls'[d].x = calls[d].x
          /\ r.m # "unban" \/ calls[d].x # r.x
      BY <1>7, <2>4, <3>1 DEF AnswersInForce, Banning
    <3>. QED
      BY <1>1, <2>1, <3>2 DEF InForce
  <2>. QED
    BY <2>3, <2>4 DEF AnswersInForce
<1>14. GoneBeforeAnswer'
  <2>1. acked' \subseteq acked
    BY <1>9
  <2>2. \A d \in Callers : calls'[d].pc = "reply" /\ Banning(d)'
            => calls[d].pc = "reply" /\ Banning(d) /\ calls'[d].x = calls[d].x
    BY <1>4, <1>7 DEF Banning
  <2>. QED
    BY <1>1, <2>1, <2>2 DEF GoneBeforeAnswer
<1>15. RenamesOnly'
  BY <1>4, <1>7 DEF RenamesOnly
<1>. QED
  BY <1>10, <1>11, <1>12, <1>13, <1>14, <1>15

\* save replaces the file: what memory held is in force, also for its own answer.
LEMMA SaveStep ==
  ASSUME ModerationInv, NEW c \in Callers, Save(c)
  PROVE  ModerationInv'
<1>. USE ModerationAssumption DEF ModerationInv
<1>1. /\ calls[c].pc = "saving" /\ mu = c /\ mu' = "free" /\ disk' = mem
      /\ mem' = mem /\ prev' = prev /\ acked' = acked /\ stored' = stored /\ late' = late
  BY DEF Save, MutexHeld
<1>2. calls[c] \in Call /\ After(calls[c]) \in {"find", "rebuild", "reply"}
  BY DEF TypeOK, After
<1>3. /\ calls'[c].pc = After(calls[c]) /\ calls'[c].m = calls[c].m
      /\ calls'[c].x = calls[c].x /\ calls'[c].sure = calls[c].sure /\ calls'[c] \in Call
  BY <1>2 DEF Save, TypeOK, Call
<1>4. \A d \in Callers \ {c} : calls'[d] = calls[d]
  BY DEF Save, TypeOK
<1>5. TypeOK'
  <2>1. calls' \in [Callers -> Call]
    BY <1>3, <1>4 DEF Save, TypeOK
  <2>. QED
    BY <1>1, <2>1 DEF TypeOK, Save
<1>6. MutexHeld'
  BY <1>1, <1>2, <1>3, <1>4 DEF MutexHeld
<1>7. OneChangeAhead'
  BY <1>1 DEF OneChangeAhead
<1>8. AnswersInForce'
  <2>1. \A x : InForce(x) => InForce(x)'
    BY <1>1 DEF InForce
  <2>2. Banning(c)' => InForce(calls[c].x)'
    <3>1. calls[c].m = "ban" => calls[c].x \in mem.bans
      BY <1>1 DEF OneChangeAhead
    <3>. QED
      BY <1>1, <1>3, <3>1 DEF Banning, InForce
  <2>3. ASSUME NEW d \in Callers, calls'[d].pc \in {"find", "reply"}, Banning(d)'
        PROVE  InForce(calls[d].x)'
    <3>1. CASE d = c
      BY <2>2, <2>3, <3>1
    <3>2. CASE d # c
      <4>1. InForce(calls[d].x)
        BY <1>4, <2>3, <3>2 DEF AnswersInForce, Banning
      <4>. QED
        BY <1>1, <1>4, <3>2, <4>1 DEF InForce
    <3>. QED
      BY <3>1, <3>2
  <2>. QED
    BY <1>1, <2>1, <2>3 DEF AnswersInForce
<1>9. GoneBeforeAnswer'
  <2>1. calls'[c].pc = "reply" /\ Banning(c)' => calls'[c].x \notin stored
    BY <1>3 DEF Banning, After, TypeOK
  <2>2. \A d \in Callers \ {c} : Banning(d)' = Banning(d)
    BY <1>4 DEF Banning
  <2>. QED
    BY <1>1, <1>4, <2>1, <2>2 DEF GoneBeforeAnswer
<1>10. RenamesOnly'
  BY <1>3, <1>4 DEF RenamesOnly, After
<1>. QED
  BY <1>5, <1>6, <1>7, <1>8, <1>9, <1>10

\* A failed save puts back the copy, which is what the file holds.
LEMMA SaveFailsStep ==
  ASSUME ModerationInv, NEW c \in Callers, SaveFails(c)
  PROVE  ModerationInv'
<1>. USE ModerationAssumption DEF ModerationInv
<1>1. /\ mu = c /\ mu' = "free" /\ disk' = disk /\ mem' = prev /\ prev = disk
      /\ prev' = prev /\ acked' = acked /\ stored' = stored /\ late' = late
  BY DEF SaveFails, MutexHeld, OneChangeAhead
<1>2. calls'[c] = Idle /\ Idle \in Call /\ \A d \in Callers \ {c} : calls'[d] = calls[d]
  BY DEF SaveFails, TypeOK, Call, Idle
<1>3. TypeOK'
  <2>1. calls' \in [Callers -> Call]
    BY <1>2 DEF SaveFails, TypeOK
  <2>. QED
    BY <1>1, <2>1 DEF TypeOK, SaveFails
<1>4. MutexHeld'
  BY <1>1, <1>2 DEF MutexHeld, Idle
<1>5. OneChangeAhead'
  BY <1>1 DEF OneChangeAhead
<1>6. \A d \in Callers : /\ d = c => calls'[d].pc = "idle"
                         /\ d # c => calls'[d] = calls[d] /\ Banning(d)' = Banning(d)
  BY <1>2 DEF Banning, Idle
<1>7. AnswersInForce'
  BY <1>1, <1>6 DEF AnswersInForce, InForce
<1>8. GoneBeforeAnswer'
  BY <1>1, <1>6 DEF GoneBeforeAnswer
<1>9. RenamesOnly'
  BY <1>6 DEF RenamesOnly
<1>. QED
  BY <1>3, <1>4, <1>5, <1>7, <1>8, <1>9

\* banevent deletes the event, finds none, or gives up with an error.
LEMMA DeleteBannedStep ==
  ASSUME ModerationInv, NEW c \in Callers, DeleteBanned(c)
  PROVE  ModerationInv'
<1>. USE ModerationAssumption DEF ModerationInv
<1>1. /\ calls[c].pc = "find" /\ mu' = mu /\ disk' = disk /\ mem' = mem
      /\ prev' = prev /\ acked' = acked /\ late' = late
      /\ stored' \subseteq stored
  BY DEF DeleteBanned
<1>2. \A d \in Callers \ {c} : calls'[d] = calls[d]
  BY DEF DeleteBanned, TypeOK
<1>3. calls'[c] \in Call /\ calls'[c].pc \in {"idle", "reply"}
  <2>1. calls[c] \in Call /\ Idle \in Call
    BY DEF TypeOK, Call, Idle
  <2>2. calls'[c] = Idle \/ calls'[c] = [calls[c] EXCEPT !.pc = "reply"]
    BY DEF DeleteBanned, TypeOK
  <2>. QED
    BY <2>1, <2>2 DEF Call, Idle
<1>4. calls'[c].pc = "reply" => /\ calls'[c].m = calls[c].m /\ calls'[c].x = calls[c].x
                                /\ calls'[c].sure = calls[c].sure
                                /\ calls[c].x \notin stored'
  BY DEF DeleteBanned, TypeOK, Call, Idle
<1>5. mu # c
  BY <1>1 DEF MutexHeld
<1>6. TypeOK'
  <2>1. calls' \in [Callers -> Call]
    BY <1>2, <1>3 DEF DeleteBanned, TypeOK
  <2>. QED
    BY <1>1, <2>1 DEF TypeOK, DeleteBanned
<1>7. MutexHeld'
  BY <1>1, <1>2, <1>3, <1>5 DEF MutexHeld
<1>8. OneChangeAhead'
  BY <1>1, <1>2, <1>5 DEF OneChangeAhead, TypeOK
<1>9. AnswersInForce'
  BY <1>1, <1>2, <1>3, <1>4 DEF AnswersInForce, InForce, Banning
<1>10. GoneBeforeAnswer'
  BY <1>1, <1>2, <1>3, <1>4 DEF GoneBeforeAnswer, Banning
<1>11. RenamesOnly'
  BY <1>2, <1>3 DEF RenamesOnly
<1>. QED
  BY <1>6, <1>7, <1>8, <1>9, <1>10, <1>11

\* A rename reads the state and then replaces the document: no ban is involved.
LEMMA RenameStep ==
  ASSUME ModerationInv, NEW c \in Callers, ReadNip11(c) \/ SwapNip11(c)
  PROVE  ModerationInv'
<1>. USE ModerationAssumption DEF ModerationInv
<1>1. /\ calls[c].pc \in {"rebuild", "swap"} /\ mu' = mu /\ disk' = disk /\ mem' = mem
      /\ prev' = prev /\ acked' = acked /\ late' = late /\ stored' = stored
  BY DEF ReadNip11, SwapNip11
<1>2. \A d \in Callers \ {c} : calls'[d] = calls[d]
  BY DEF ReadNip11, SwapNip11, TypeOK
<1>3. /\ calls'[c] \in Call /\ calls'[c].pc \in {"swap", "reply"} /\ calls'[c].m = calls[c].m
      /\ calls'[c].pc = "reply" => calls[c].pc = "swap"
  <2>1. calls[c] \in Call /\ mem.name \in Names \cup {Name0}
    BY DEF TypeOK, State
  <2>2. CASE ReadNip11(c)
    <3>1. calls'[c] = [calls[c] EXCEPT !.pc = "swap", !.md = mem.name]
      BY <2>2 DEF ReadNip11, TypeOK
    <3>. QED
      BY <2>1, <3>1 DEF Call
  <2>3. CASE SwapNip11(c)
    BY <2>1, <2>3 DEF SwapNip11, TypeOK, Call
  <2>. QED
    BY <2>2, <2>3
<1>4. mu # c /\ calls[c].m = "name"
  BY <1>1 DEF MutexHeld, RenamesOnly
<1>5. TypeOK'
  <2>1. calls' \in [Callers -> Call]
    BY <1>2, <1>3 DEF ReadNip11, SwapNip11, TypeOK
  <2>2. served' \in Names \cup {Name0}
    BY DEF ReadNip11, SwapNip11, TypeOK, Call
  <2>. QED
    BY <1>1, <2>1, <2>2 DEF TypeOK, ReadNip11, SwapNip11
<1>6. MutexHeld'
  BY <1>1, <1>2, <1>3, <1>4 DEF MutexHeld
<1>7. OneChangeAhead'
  BY <1>1, <1>2, <1>4 DEF OneChangeAhead, TypeOK
<1>8. \A d \in Callers : Banning(d)' => d # c /\ Banning(d)
  BY <1>2, <1>3, <1>4 DEF Banning
<1>9. AnswersInForce' /\ GoneBeforeAnswer'
  BY <1>1, <1>2, <1>8 DEF AnswersInForce, InForce, GoneBeforeAnswer
<1>10. RenamesOnly'
  BY <1>2, <1>3, <1>4 DEF RenamesOnly
<1>. QED
  BY <1>5, <1>6, <1>7, <1>9, <1>10

\* The admin is told: a ban still wanted was in force, and its event gone.
LEMMA ReplyStep ==
  ASSUME ModerationInv, NEW c \in Callers, Reply(c)
  PROVE  ModerationInv'
<1>. USE ModerationAssumption DEF ModerationInv
<1>1. /\ calls[c].pc = "reply" /\ mu' = mu /\ disk' = disk /\ mem' = mem
      /\ prev' = prev /\ late' = late /\ stored' = stored
  BY DEF Reply
<1>2. calls'[c] = Idle /\ Idle \in Call /\ \A d \in Callers \ {c} : calls'[d] = calls[d]
  BY DEF Reply, TypeOK, Call, Idle
<1>3. acked' = IF Banning(c) THEN acked \cup {calls[c].x} ELSE acked
  BY DEF Reply, Banning
<1>4. Banning(c) => InForce(calls[c].x)
  BY <1>1 DEF AnswersInForce
<1>5. mu # c
  BY <1>1 DEF MutexHeld
<1>6. TypeOK'
  <2>1. calls' \in [Callers -> Call]
    BY <1>2 DEF Reply, TypeOK
  <2>2. acked' \subseteq Targets
    BY <1>3, <1>4 DEF TypeOK, InForce, State
  <2>. QED
    BY <1>1, <2>1, <2>2 DEF TypeOK, Reply
<1>7. MutexHeld' /\ RenamesOnly'
  BY <1>1, <1>2, <1>5 DEF MutexHeld, RenamesOnly, Idle
<1>8. OneChangeAhead'
  BY <1>1, <1>2, <1>5 DEF OneChangeAhead, TypeOK
<1>9. \A d \in Callers : /\ d = c => calls'[d].pc = "idle"
                         /\ d # c => calls'[d] = calls[d] /\ Banning(d)' = Banning(d)
  BY <1>2 DEF Banning, Idle
<1>10. AnswersInForce'
  BY <1>1, <1>3, <1>4, <1>9 DEF AnswersInForce, InForce
<1>11. GoneBeforeAnswer'
  BY <1>1, <1>3, <1>9 DEF GoneBeforeAnswer
<1>. QED
  BY <1>6, <1>7, <1>8, <1>10, <1>11

\* An event past the check is stored: late, if it is banned by now.
LEMMA StoreStep ==
  ASSUME ModerationInv, NEW e \in Events, Store(e)
  PROVE  ModerationInv'
<1>. USE ModerationAssumption DEF ModerationInv
<1>1. /\ mu' = mu /\ disk' = disk /\ mem' = mem /\ prev' = prev /\ acked' = acked
      /\ calls' = calls /\ stored' = stored \cup {e}
      /\ late' = IF e \in mem.bans THEN late \cup {e} ELSE late \ {e}
  BY DEF Store
<1>2. TypeOK'
  BY <1>1 DEF TypeOK, Store
<1>3. \A x : InForce(x)' = InForce(x)
  BY <1>1 DEF InForce
<1>4. \A d \in Callers : Banning(d)' = Banning(d)
  BY <1>1 DEF Banning
<1>5. MutexHeld' /\ RenamesOnly' /\ OneChangeAhead' /\ AnswersInForce'
  BY <1>1, <1>3, <1>4 DEF MutexHeld, RenamesOnly, OneChangeAhead, AnswersInForce, InForce
<1>6. \A x : InForce(x) => x \in mem.bans
  BY DEF InForce
<1>7. GoneBeforeAnswer'
  BY <1>1, <1>4, <1>6 DEF GoneBeforeAnswer, AnswersInForce
<1>. QED
  BY <1>2, <1>5, <1>7

\* The readers, the counters and the publisher change nothing a ban depends on.
LEMMA ReaderStep ==
  ASSUME ModerationInv,
         \/ \E a \in Addrs : Connect(a)
         \/ \E e \in Events : Check(e)
         \/ CountsReady \/ Tick \/ UNCHANGED vars
  PROVE  ModerationInv'
<1>1. /\ mu' = mu /\ disk' = disk /\ mem' = mem /\ prev' = prev /\ acked' = acked
      /\ calls' = calls /\ stored' = stored /\ late' = late /\ served' = served
  BY DEF Connect, Check, CountsReady, Tick, vars
<1>2. open' \subseteq Addrs /\ checked' \subseteq Events
  BY DEF Connect, Check, CountsReady, Tick, vars, ModerationInv, TypeOK
<1>3. TypeOK'
  BY <1>1, <1>2 DEF ModerationInv, TypeOK
<1>4. MutexHeld' /\ RenamesOnly' /\ OneChangeAhead'
  BY <1>1 DEF ModerationInv, MutexHeld, RenamesOnly, OneChangeAhead
<1>5. AnswersInForce' /\ GoneBeforeAnswer'
  BY <1>1 DEF ModerationInv, AnswersInForce, GoneBeforeAnswer, InForce, Banning
<1>. QED
  BY <1>3, <1>4, <1>5 DEF ModerationInv

\* loadModeration brings back what was saved; the requests in progress are gone.
LEMMA RestartStep ==
  ASSUME ModerationInv, Restart
  PROVE  ModerationInv'
<1>. USE ModerationAssumption DEF ModerationInv
<1>1. /\ mu' = "free" /\ disk' = disk /\ mem' = disk /\ prev' = disk /\ acked' = acked
      /\ stored' = stored /\ late' = late
  BY DEF Restart
<1>2. Idle \in Call /\ \A c \in Callers : calls'[c] = Idle
  BY DEF Restart, Idle, Call
<1>3. TypeOK'
  <2>1. calls' \in [Callers -> Call]
    BY <1>2 DEF Restart
  <2>. QED
    BY <1>1, <2>1 DEF TypeOK, State, Restart
<1>4. MutexHeld' /\ RenamesOnly' /\ OneChangeAhead'
  BY <1>1, <1>2 DEF MutexHeld, RenamesOnly, OneChangeAhead, Idle
<1>5. AnswersInForce' /\ GoneBeforeAnswer'
  BY <1>1, <1>2 DEF AnswersInForce, GoneBeforeAnswer, InForce, Banning, Idle
<1>. QED
  BY <1>3, <1>4, <1>5
-----------------------------------------------------------------------------
(* The theorems *)

\* Every step of the relay keeps the invariant.
LEMMA ModerationInductive == ModerationInv /\ [Next]_vars => ModerationInv'
<1>. SUFFICES ASSUME ModerationInv, [Next]_vars PROVE ModerationInv'
  OBVIOUS
<1>1. ASSUME NEW c \in Callers, NEW r \in Requests, Begin(c, r) PROVE ModerationInv'
  BY <1>1, BeginStep
<1>2. ASSUME NEW c \in Callers, Save(c) PROVE ModerationInv'
  BY <1>2, SaveStep
<1>3. ASSUME NEW c \in Callers, SaveFails(c) PROVE ModerationInv'
  BY <1>3, SaveFailsStep
<1>4. ASSUME NEW c \in Callers, DeleteBanned(c) PROVE ModerationInv'
  BY <1>4, DeleteBannedStep
<1>5. ASSUME NEW c \in Callers, ReadNip11(c) \/ SwapNip11(c) PROVE ModerationInv'
  BY <1>5, RenameStep
<1>6. ASSUME NEW c \in Callers, Reply(c) PROVE ModerationInv'
  BY <1>6, ReplyStep
<1>7. ASSUME NEW e \in Events, Store(e) PROVE ModerationInv'
  BY <1>7, StoreStep
<1>8. CASE \/ \E a \in Addrs : Connect(a)
           \/ \E e \in Events : Check(e)
           \/ CountsReady \/ Tick \/ UNCHANGED vars
  BY <1>8, ReaderStep
<1>9. CASE Restart
  BY <1>9, RestartStep
<1>. QED
  BY <1>1, <1>2, <1>3, <1>4, <1>5, <1>6, <1>7, <1>8, <1>9 DEF Next

\* The invariant holds in every reachable state (update, save, loadModeration).
THEOREM ModerationHolds == Spec => []ModerationInv
<1>. QED
  BY ModerationInit, ModerationInductive, PTL DEF Spec

\* The state of the moderation keeps its types.
THEOREM ModerationTyped == Spec => []TypeOK
<1>1. ModerationInv => TypeOK
  BY DEF ModerationInv
<1>. QED
  BY <1>1, ModerationHolds, PTL

\* A ban an admin was told of is in memory and on disk until somebody lifts it,
\* whatever saves fail and whenever the relay dies (update, save, loadModeration).
THEOREM BansKept == Spec => []AckedBansHold
<1>1. ModerationInv => AckedBansHold
  BY DEF ModerationInv, AnswersInForce, InForce, AckedBansHold
<1>. QED
  BY <1>1, ModerationHolds, PTL

\* Once banevent has answered, only an event that had passed the policy check
\* before the ban can still be in the store (banevent, eventPolicy).
THEOREM BannedGone == Spec => []BannedEventsGone
<1>1. ModerationInv => BannedEventsGone
  BY DEF ModerationInv, GoneBeforeAnswer, BannedEventsGone
<1>. QED
  BY <1>1, ModerationHolds, PTL

-----------------------------------------------------------------------------
(* The recovery manager: its inductive invariant *)

\* The save worker has one request in hand.
OneInHand == \A s, t \in saving : s = t

\* The event is written before its metadata, and nothing deletes it: what has
\* metadata, is about to get it or is in a batch is in the store.
EventFirst ==
    /\ Saved \subseteq onDisk
    /\ \A s \in saving : s.step = "meta" => s.entry \in onDisk
    /\ \A d \in Dests : \A m \in batch[d] : m.entry \in onDisk

RecoveryInv == RTypeOK /\ OneInHand /\ EventFirst /\ NothingForgotten
-----------------------------------------------------------------------------
(* The recovery manager: what its steps do *)

\* What a queue of failed events holds after one is added, and after one is taken.
LEMMA AppendAt ==
    ASSUME NEW S, NEW q \in Seq(S), NEW v \in S
    PROVE  /\ Append(q, v) \in Seq(S)
           /\ \A i \in DOMAIN q : i \in DOMAIN Append(q, v) /\ Append(q, v)[i] = q[i]
           /\ \E i \in DOMAIN Append(q, v) : Append(q, v)[i] = v
<1>1. Len(q) + 1 \in DOMAIN Append(q, v) /\ Append(q, v)[Len(q) + 1] = v
  OBVIOUS
<1>. QED
  BY <1>1

\* Taking the first of a queue leaves every other.
LEMMA TailAt ==
    ASSUME NEW S, NEW q \in Seq(S), q # <<>>
    PROVE  /\ Head(q) \in S /\ Tail(q) \in Seq(S)
           /\ \A i \in DOMAIN q : q[i] = Head(q) \/ \E j \in DOMAIN Tail(q) : Tail(q)[j] = q[i]
<1>1. Head(q) \in S /\ Tail(q) \in Seq(S)
  OBVIOUS
<1>2. ASSUME NEW i \in DOMAIN q
      PROVE  q[i] = Head(q) \/ \E j \in DOMAIN Tail(q) : Tail(q)[j] = q[i]
  <2>1. CASE i = 1
    BY <2>1
  <2>2. CASE i # 1
    <3>1. i - 1 \in DOMAIN Tail(q) /\ Tail(q)[i - 1] = q[i]
      BY <2>2
    <3>. QED
      BY <3>1
  <2>. QED
    BY <2>1, <2>2
<1>. QED
  BY <1>1, <1>2

\* saveMeta and the deletion of the metadata touch one entry.
LEMMA PutRemoved ==
    ASSUME Saved \subseteq Entries, meta \in [Saved -> Nat], NEW x \in Entries, NEW n \in Nat
    PROVE  /\ DOMAIN Put(x, n) = Saved \union {x} /\ Put(x, n) \in [Saved \union {x} -> Nat]
           /\ DOMAIN Removed(x) = Saved \ {x} /\ Removed(x) \in [Saved \ {x} -> Nat]
BY DEF Put, Removed

\* collectPending copies entries that have metadata.
LEMMA BatchesTyped ==
    ASSUME Saved \subseteq Entries, meta \in [Saved -> Nat], NEW which, which \subseteq Saved
    PROVE  /\ Batches(which) \in [Dests -> SUBSET Copy]
           /\ \A d \in Dests : \A m \in Batches(which)[d] : m.entry \in Saved
BY DEF Batches, Copy
-----------------------------------------------------------------------------
(* One lemma per action *)

\* A new manager holds nothing and has accepted nothing.
LEMMA RecoveryInit == RInit => RecoveryInv
<1>. SUFFICES ASSUME RInit PROVE RecoveryInv
  OBVIOUS
<1>1. Saved = {} /\ meta \in [Saved -> Nat]
  BY DEF RInit, Saved
<1>2. RTypeOK
  BY <1>1 DEF RInit, RTypeOK
<1>3. OneInHand /\ EventFirst /\ NothingForgotten
  BY <1>1 DEF RInit, OneInHand, EventFirst, NothingForgotten
<1>. QED
  BY <1>2, <1>3 DEF RecoveryInv

\* SaveFailedEvent accepts what the queue takes.
LEMMA SaveFailedEventStep ==
    ASSUME RecoveryInv, NEW x \in Entries, SaveFailedEvent(x)
    PROVE  RecoveryInv'
<1>. USE DEF RecoveryInv
<1>1. /\ saving' = saving /\ onDisk' = onDisk /\ meta' = meta /\ Saved' = Saved
      /\ due' = due /\ batch' = batch /\ conns' = conns /\ relay' = relay /\ phase' = phase
  BY DEF SaveFailedEvent, Saved
<1>2. OneInHand' /\ EventFirst'
  BY <1>1 DEF OneInHand, EventFirst
<1>3. CASE Len(queue) < QueueCap
  <2>1. queue' = Append(queue, x) /\ fate' = [fate EXCEPT ![x] = "accepted"]
    BY <1>3 DEF SaveFailedEvent, Becomes
  <2>2. queue' \in Seq(Entries) /\ InQueue(x)' /\ \A y \in Entries : InQueue(y) => InQueue(y)'
    BY <2>1, AppendAt DEF RTypeOK, InQueue
  <2>3. RTypeOK'
    BY <1>1, <2>1, <2>2 DEF RTypeOK
  <2>4. NothingForgotten'
    BY <1>1, <2>1, <2>2 DEF NothingForgotten, InHand, RTypeOK
  <2>. QED
    BY <1>2, <2>3, <2>4
<1>4. CASE ~(Len(queue) < QueueCap)
  <2>1. queue' = queue /\ fate' = fate
    BY <1>4 DEF SaveFailedEvent
  <2>. QED
    BY <1>1, <1>2, <2>1 DEF RTypeOK, NothingForgotten, InQueue, InHand
<1>. QED
  BY <1>3, <1>4

\* saveWorker has in hand what leaves the queue.
LEMMA SaveTakesStep ==
    ASSUME RecoveryInv, SaveTakes
    PROVE  RecoveryInv'
<1>. USE DEF RecoveryInv
<1>1. /\ onDisk' = onDisk /\ meta' = meta /\ Saved' = Saved /\ phase' = phase
      /\ due' = due /\ batch' = batch /\ conns' = conns /\ relay' = relay /\ fate' = fate
      /\ saving = {} /\ queue # <<>> /\ queue' = Tail(queue)
      /\ saving' = {[entry |-> Head(queue), step |-> "insert"]}
  BY DEF SaveTakes, Saved
<1>2. Head(queue) \in Entries /\ queue' \in Seq(Entries)
  BY <1>1, TailAt DEF RTypeOK
<1>3. \A y \in Entries : InQueue(y) => InQueue(y)' \/ InHand(y)'
  BY <1>1, TailAt DEF RTypeOK, InQueue, InHand
<1>4. RTypeOK'
  BY <1>1, <1>2 DEF RTypeOK
<1>5. OneInHand' /\ EventFirst'
  BY <1>1 DEF OneInHand, EventFirst
<1>6. NothingForgotten'
  BY <1>1, <1>3 DEF NothingForgotten, InHand
<1>. QED
  BY <1>4, <1>5, <1>6

\* saveEventSync writes the event while it keeps the request.
LEMMA SaveInsertsStep ==
    ASSUME RecoveryInv, SaveInserts
    PROVE  RecoveryInv'
<1>. USE DEF RecoveryInv
<1>1. PICK s \in saving : /\ s.step = "insert"
                          /\ onDisk' = onDisk \union {s.entry}
                          /\ saving' = {[s EXCEPT !.step = "meta"]}
                          /\ UNCHANGED <<phase, queue, meta, due, batch, conns, relay, fate, count>>
  BY DEF SaveInserts
<1>2. s.entry \in Entries /\ [s EXCEPT !.step = "meta"] = [entry |-> s.entry, step |-> "meta"]
  BY DEF RTypeOK
<1>3. Saved' = Saved
  BY <1>1 DEF Saved
<1>4. RTypeOK'
  BY <1>1, <1>2, <1>3 DEF RTypeOK
<1>5. OneInHand' /\ EventFirst'
  BY <1>1, <1>2, <1>3 DEF OneInHand, EventFirst
<1>6. \A y \in Entries : (InHand(y) => InHand(y)') /\ InQueue(y)' = InQueue(y)
  BY <1>1, <1>2 DEF InHand, InQueue, OneInHand
<1>7. NothingForgotten'
  BY <1>1, <1>3, <1>6 DEF NothingForgotten
<1>. QED
  BY <1>4, <1>5, <1>7

\* saveMeta ends the request with the entry on disk and its metadata.
LEMMA SaveMetaStep ==
    ASSUME RecoveryInv, SaveMeta
    PROVE  RecoveryInv'
<1>. USE DEF RecoveryInv
<1>1. PICK s \in saving : /\ s.step = "meta"
                          /\ meta' = Put(s.entry, 0)
                          /\ due' = due \ {s.entry}
                          /\ saving' = {}
                          /\ UNCHANGED <<phase, queue, onDisk, batch, conns, relay, fate, count>>
  BY DEF SaveMeta
<1>2. s.entry \in Entries /\ s.entry \in onDisk
  BY <1>1 DEF RTypeOK, EventFirst
<1>3. Saved' = Saved \union {s.entry} /\ meta' \in [Saved' -> Nat]
  <2>1. Saved' = DOMAIN Put(s.entry, 0)
    BY <1>1 DEF Saved
  <2>. QED
    BY <1>1, <1>2, <2>1, PutRemoved DEF RTypeOK
<1>4. RTypeOK'
  BY <1>1, <1>2, <1>3 DEF RTypeOK
<1>5. OneInHand' /\ EventFirst'
  BY <1>1, <1>2, <1>3 DEF OneInHand, EventFirst
<1>6. \A y \in Entries : (InHand(y) => y = s.entry) /\ InQueue(y)' = InQueue(y)
  BY <1>1 DEF InHand, InQueue, OneInHand
<1>7. NothingForgotten'
  BY <1>1, <1>2, <1>3, <1>6 DEF NothingForgotten
<1>. QED
  BY <1>4, <1>5, <1>7

\* What a message of a batch leaves behind: its metadata with one attempt more,
\* or a fate of its own.
LEMMA AttemptStep ==
    ASSUME RecoveryInv, NEW d \in Dests, NEW m \in batch[d],
           batch' = [batch EXCEPT ![d] = @ \ {m}], conns' \in [Dests -> {"none", "open", "dead"}],
           due' = due \ {m.entry},
           \/ meta' = Removed(m.entry) /\ \E f \in {"dropped", "delivered"} : Becomes(m.entry, f)
           \/ meta' = Put(m.entry, m.attempts + 1) /\ UNCHANGED fate,
           UNCHANGED <<phase, queue, saving, onDisk, relay>>
    PROVE  RecoveryInv'
<1>. USE DEF RecoveryInv
<1>1. /\ m.entry \in Entries /\ m.attempts \in Nat /\ m.entry \in onDisk
      /\ \A e \in Dests : batch'[e] \subseteq batch[e]
      /\ batch' \in [Dests -> SUBSET Copy]
  BY DEF RTypeOK, Copy, EventFirst
<1>2. \A y \in Entries : InHand(y)' = InHand(y) /\ InQueue(y)' = InQueue(y)
  BY DEF InHand, InQueue
<1>3. CASE meta' = Removed(m.entry) /\ \E f \in {"dropped", "delivered"} : Becomes(m.entry, f)
  <2>1. Saved' = Saved \ {m.entry} /\ meta' \in [Saved' -> Nat]
    <3>1. Saved' = DOMAIN Removed(m.entry)
      BY <1>3 DEF Saved
    <3>. QED
      BY <1>1, <1>3, <3>1, PutRemoved DEF RTypeOK
  <2>2. /\ fate' \in [Entries -> {"new", "accepted", "delivered", "dropped", "crashed"}]
        /\ \A y \in Entries : fate'[y] = "accepted" => y # m.entry /\ fate[y] = "accepted"
    BY <1>1, <1>3 DEF Becomes, RTypeOK
  <2>3. RTypeOK'
    BY <1>1, <2>1, <2>2 DEF RTypeOK
  <2>4. OneInHand' /\ EventFirst'
    BY <1>1, <2>1 DEF OneInHand, EventFirst
  <2>5. NothingForgotten'
    BY <1>2, <2>1, <2>2 DEF NothingForgotten
  <2>. QED
    BY <2>3, <2>4, <2>5
<1>4. CASE meta' = Put(m.entry, m.attempts + 1) /\ UNCHANGED fate
  <2>1. Saved' = Saved \union {m.entry} /\ meta' \in [Saved' -> Nat]
    <3>1. Saved' = DOMAIN Put(m.entry, m.attempts + 1) /\ m.attempts + 1 \in Nat
      BY <1>1, <1>4 DEF Saved
    <3>. QED
      BY <1>1, <1>4, <3>1, PutRemoved DEF RTypeOK
  <2>2. RTypeOK'
    BY <1>1, <1>4, <2>1 DEF RTypeOK
  <2>3. OneInHand' /\ EventFirst'
    BY <1>1, <2>1 DEF OneInHand, EventFirst
  <2>4. NothingForgotten'
    BY <1>2, <1>4, <2>1 DEF NothingForgotten
  <2>. QED
    BY <2>2, <2>3, <2>4
<1>. QED
  BY <1>3, <1>4

\* A message that is delivered or fails, on the dial or on the connection, does that.
LEMMA BatchStepKeeps ==
    ASSUME RecoveryInv, NEW d \in Dests, NEW m \in batch[d],
           DialFails(d, m) \/ Delivered(d, m) \/ PublishFails(d, m)
    PROVE  RecoveryInv'
<1>1. /\ batch' = [batch EXCEPT ![d] = @ \ {m}]
      /\ UNCHANGED <<phase, queue, saving, onDisk, relay>>
      /\ due' = due \ {m.entry}
  BY DEF DialFails, Delivered, PublishFails, RetryFailure
<1>2. conns' \in [Dests -> {"none", "open", "dead"}]
  BY DEF DialFails, Delivered, PublishFails, RecoveryInv, RTypeOK
<1>3. \/ meta' = Removed(m.entry) /\ \E f \in {"dropped", "delivered"} : Becomes(m.entry, f)
      \/ meta' = Put(m.entry, m.attempts + 1) /\ UNCHANGED fate
  BY DEF DialFails, Delivered, PublishFails, RetryFailure
<1>. QED
  BY <1>1, <1>2, <1>3, AttemptStep

\* Ticks, dials, outages, the steps of Stop and the restart move no entry: they
\* make batches of copies or empty them.
LEMMA MovesNothing ==
    ASSUME RecoveryInv, UNCHANGED <<queue, saving, onDisk, meta, fate>>,
           phase' \in {"running", "cancelled", "flushing", "stopped", "crashed"},
           conns' \in [Dests -> {"none", "open", "dead"}],
           relay' \in [Dests -> {"up", "down"}],
           due' \subseteq Saved,
           \/ batch' = batch
           \/ batch' = [d \in Dests |-> {}]
           \/ \E which \in SUBSET Saved : batch' = Batches(which)
    PROVE  RecoveryInv'
<1>. USE DEF RecoveryInv
<1>1. Saved' = Saved
  BY DEF Saved
<1>2. /\ batch' \in [Dests -> SUBSET Copy]
      /\ \A d \in Dests : \A m \in batch'[d] : m.entry \in onDisk
  <2>1. CASE batch' = batch
    BY <2>1 DEF RTypeOK, EventFirst
  <2>2. CASE batch' = [d \in Dests |-> {}]
    BY <2>2
  <2>3. ASSUME NEW which \in SUBSET Saved, batch' = Batches(which)
        PROVE  /\ batch' \in [Dests -> SUBSET Copy]
               /\ \A d \in Dests : \A m \in batch'[d] : m.entry \in onDisk
    BY <2>3, BatchesTyped DEF RTypeOK, EventFirst
  <2>. QED
    BY <2>1, <2>2, <2>3
<1>3. RTypeOK'
  BY <1>1, <1>2 DEF RTypeOK
<1>4. OneInHand' /\ EventFirst'
  BY <1>1, <1>2 DEF OneInHand, EventFirst
<1>5. NothingForgotten'
  BY <1>1 DEF NothingForgotten, InHand, InQueue
<1>. QED
  BY <1>3, <1>4, <1>5

\* The ticker, the pool, Stop and Start do just that.
LEMMA QuietStep ==
    ASSUME RecoveryInv,
           \/ \E x \in Entries : Due(x)
           \/ \E d \in Dests : Dial(d) \/ Outage(d) \/ Returns(d)
           \/ ProcessRetries \/ Cancel \/ Flush \/ Stopped \/ StartAgain \/ UNCHANGED rvars
    PROVE  RecoveryInv'
<1>. USE DEF RecoveryInv
<1>1. UNCHANGED <<queue, saving, onDisk, meta, fate>>
  BY DEF Due, Dial, Outage, Returns, ProcessRetries, Cancel, Flush, Stopped, StartAgain, rvars
<1>2. phase' \in {"running", "cancelled", "flushing", "stopped", "crashed"}
  BY DEF Due, Dial, Outage, Returns, ProcessRetries, Cancel, Flush, Stopped, StartAgain, rvars, RTypeOK
<1>3. conns' \in [Dests -> {"none", "open", "dead"}]
  BY DEF Due, Dial, Outage, Returns, ProcessRetries, Cancel, Flush, Stopped, StartAgain, rvars, RTypeOK
<1>4. relay' \in [Dests -> {"up", "down"}]
  BY DEF Due, Dial, Outage, Returns, ProcessRetries, Cancel, Flush, Stopped, StartAgain, rvars, RTypeOK
<1>5. due' \subseteq Saved
  BY DEF Due, Dial, Outage, Returns, ProcessRetries, Cancel, Flush, Stopped, StartAgain, rvars, RTypeOK
<1>6. \/ batch' = batch
      \/ batch' = [d \in Dests |-> {}]
      \/ \E which \in SUBSET Saved : batch' = Batches(which)
  BY DEF Due, Dial, Outage, Returns, ProcessRetries, Cancel, Flush, Stopped, StartAgain, rvars, RTypeOK
<1>. QED
  BY <1>1, <1>2, <1>3, <1>4, <1>5, <1>6, MovesNothing

\* A crash forgets the queue and the request in hand, and nothing else.
LEMMA CrashStep ==
    ASSUME RecoveryInv, Crash
    PROVE  RecoveryInv'
<1>. USE DEF RecoveryInv
<1>1. /\ queue' = <<>> /\ saving' = {} /\ phase' = "crashed"
      /\ batch' = [d \in Dests |-> {}] /\ conns' = [d \in Dests |-> "none"]
      /\ onDisk' = onDisk /\ meta' = meta /\ Saved' = Saved /\ due' = due /\ relay' = relay
  BY DEF Crash, Saved
<1>2. /\ fate' \in [Entries -> {"new", "accepted", "delivered", "dropped", "crashed"}]
      /\ \A x \in Entries : fate'[x] = "accepted" => fate[x] = "accepted" /\ ~InQueue(x) /\ ~InHand(x)
  BY DEF Crash, RTypeOK, InQueue, InHand
<1>3. RTypeOK'
  BY <1>1, <1>2 DEF RTypeOK
<1>4. OneInHand' /\ EventFirst'
  BY <1>1 DEF OneInHand, EventFirst
<1>5. NothingForgotten'
  BY <1>1, <1>2 DEF NothingForgotten
<1>. QED
  BY <1>3, <1>4, <1>5
-----------------------------------------------------------------------------
(* The theorems *)

\* Every step of the recovery manager keeps the invariant.
LEMMA RecoveryInductive == RecoveryInv /\ [RNext]_rvars => RecoveryInv'
<1>. SUFFICES ASSUME RecoveryInv, [RNext]_rvars PROVE RecoveryInv'
  OBVIOUS
<1>1. ASSUME NEW x \in Entries, SaveFailedEvent(x) PROVE RecoveryInv'
  BY <1>1, SaveFailedEventStep
<1>2. CASE SaveTakes
  BY <1>2, SaveTakesStep
<1>3. CASE SaveInserts
  BY <1>3, SaveInsertsStep
<1>4. CASE SaveMeta
  BY <1>4, SaveMetaStep
<1>5. ASSUME NEW d \in Dests, NEW m \in batch[d],
             DialFails(d, m) \/ Delivered(d, m) \/ PublishFails(d, m)
      PROVE  RecoveryInv'
  BY <1>5, BatchStepKeeps
<1>6. CASE \/ \E x \in Entries : Due(x)
           \/ \E d \in Dests : Dial(d) \/ Outage(d) \/ Returns(d)
           \/ ProcessRetries \/ Cancel \/ Flush \/ Stopped \/ StartAgain \/ UNCHANGED rvars
  BY <1>6, QuietStep
<1>7. CASE Crash
  BY <1>7, CrashStep
<1>. QED
  BY <1>1, <1>2, <1>3, <1>4, <1>5, <1>6, <1>7 DEF RNext

\* The invariant holds in every reachable state (client/recovery.go).
THEOREM RecoveryHolds == RSpec => []RecoveryInv
<1>. QED
  BY RecoveryInit, RecoveryInductive, PTL DEF RSpec

\* An event handed to recovery is delivered, dropped after its attempts or still
\* held, in the queue, in hand or on disk with its metadata, whatever Stop, outages
\* and restarts do; only a crash before its save forgets it (saveWorker,
\* saveEventSync, handleRetryFailure, flushPending).
THEOREM NeverForgotten == RSpec => []NothingForgotten
<1>1. RecoveryInv => NothingForgotten
  BY DEF RecoveryInv
<1>. QED
  BY <1>1, RecoveryHolds, PTL

-----------------------------------------------------------------------------
(* A local destination of a stream *)

CONSTANTS Input, TargetOf, Workers, MaxLocalFaults
VARIABLES taken, disp, shared, excl, work, kept, reported, failed, broken

L == INSTANCE StreamLocal WITH MaxFaults <- MaxLocalFaults, store <- kept, acked <- reported

\* The dispatch loop has taken the barrier for event number i.
Past(i) == i < taken \/ (i = taken /\ disp # "lock")

\* Nothing is worked on, locked or stored but what is delivered, a worker holds
\* the barrier, and so does the event about to get one.
LocalTypes ==
    /\ taken \in 0..Len(Input) /\ disp \in {"select", "lock", "spawn", "wait", "retry", "closed"}
    /\ L!Busy \union shared \union excl \union kept \subseteq L!Events
    /\ L!Busy \subseteq shared \union excl
    /\ disp = "spawn" => taken \in DOMAIN Input /\ L!Current \in (shared \union excl) \ L!Busy
    /\ disp = "lock" => taken \in DOMAIN Input

\* What is under way or stored is past the barrier.
BarrierFirst ==
    \A i \in DOMAIN Input : Input[i] \in L!Busy \union shared \union excl \union kept => Past(i)

\* Once a deletion is past the barrier, the workers of all events before it are done.
DeletesAlone ==
    \A i, j \in DOMAIN Input : L!IsDelete(Input[i]) /\ Past(i) /\ j < i => Input[j] \notin L!Busy

\* A stored deletion has removed its target, if it was read before.
TargetGone ==
    \A i, j \in DOMAIN Input :
        L!IsDelete(Input[i]) /\ Input[i] \in kept /\ TargetOf[Input[i]] = Input[j] /\ j < i =>
              Input[j] \notin kept

LocalInv == LocalTypes /\ BarrierFirst /\ DeletesAlone /\ TargetGone

\* The loop's own steps: only Lock takes an event past the barrier, a deletion
\* when no worker is left.
LEMMA LoopStep ==
    ASSUME L!LocalAssumption, LocalInv, L!Take \/ L!Lock \/ L!Spawn \/ L!Leave \/ L!Wait \/ L!Retry \/ L!Close
    PROVE  LocalInv'
<1>. USE DEF LocalInv
<1>1. Len(Input) \in Nat /\ DOMAIN Input = 1..Len(Input) /\ taken \in Nat /\ \A i \in DOMAIN Input : Input[i] \in L!Events
  BY DEF L!LocalAssumption, L!Events, LocalTypes
<1>2. \A i, j \in DOMAIN Input : Input[i] = Input[j] => i = j
  BY DEF L!LocalAssumption
<1>3. CASE L!Take
  <2>1. \A i \in DOMAIN Input : Past(i)' <=> Past(i)
    BY <1>1, <1>3 DEF L!Take, Past
  <2>2. LocalTypes'
    BY <1>1, <1>3 DEF L!Take, LocalTypes, L!Busy
  <2>3. BarrierFirst' /\ DeletesAlone' /\ TargetGone'
    BY <1>3, <2>1 DEF L!Take, BarrierFirst, DeletesAlone, TargetGone, L!Busy
  <2>. QED
    BY <2>2, <2>3
<1>4. CASE L!Lock
  <2>1. L!Current \in L!Events /\ taken \in DOMAIN Input /\ \A i \in DOMAIN Input : Past(i)' <=> Past(i) \/ i = taken
    BY <1>1, <1>4 DEF L!Lock, Past, LocalTypes, L!Current
  <2>2. ~Past(taken) /\ L!Current \notin L!Busy \union shared \union excl \union kept
    BY <1>1, <1>4, <2>1 DEF L!Lock, Past, BarrierFirst, L!Current
  <2>3. LocalTypes'
    BY <1>4, <2>1, <2>2 DEF L!Lock, LocalTypes, L!Busy, L!Current
  <2>4. BarrierFirst'
    BY <1>2, <1>4, <2>1 DEF L!Lock, BarrierFirst, L!Busy, L!Current
  <2>5. DeletesAlone'
    <3>1. ASSUME L!IsDelete(L!Current) PROVE L!Busy = {}
      BY <1>4, <3>1 DEF L!Lock, LocalTypes
    <3>. QED
      BY <1>4, <2>1, <3>1 DEF L!Lock, DeletesAlone, L!Busy, L!Current
  <2>6. TargetGone'
    BY <1>4 DEF L!Lock, TargetGone
  <2>. QED
    BY <2>3, <2>4, <2>5, <2>6
<1>5. CASE L!Spawn
  <2>1. /\ L!Busy' = L!Busy \union {L!Current} /\ L!Current' = L!Current /\ L!Current \in shared \union excl /\ taken \in DOMAIN Input
        /\ disp' = "select" /\ UNCHANGED <<taken, shared, excl, kept>>
    BY <1>5 DEF L!Spawn, LocalTypes, L!Busy, L!Current
  <2>2. \A i \in DOMAIN Input : Past(i)' <=> Past(i)
    BY <1>5 DEF L!Spawn, Past
  <2>3. LocalTypes'
    BY <2>1 DEF LocalTypes
  <2>4. BarrierFirst' /\ TargetGone'
    BY <2>1, <2>2 DEF BarrierFirst, TargetGone
  <2>5. DeletesAlone'
    <3>1. \A i \in DOMAIN Input : Past(i) => i \leq taken
      BY <1>1 DEF Past
    <3>2. \A i, j \in DOMAIN Input : Past(i) /\ j < i => Input[j] # L!Current
      BY <1>1, <1>2, <2>1, <3>1 DEF L!Current
    <3>. QED
      BY <2>1, <2>2, <3>2 DEF DeletesAlone
  <2>. QED
    BY <2>3, <2>4, <2>5
<1>6. CASE L!Leave \/ L!Wait \/ L!Retry
  <2>1. /\ disp \notin {"lock", "spawn"} /\ disp' \in {"wait", "retry", "select"}
        /\ UNCHANGED <<taken, shared, excl, work, kept>>
    BY <1>6 DEF L!Leave, L!Wait, L!Retry
  <2>2. \A i \in DOMAIN Input : Past(i)' <=> Past(i)
    BY <2>1 DEF Past
  <2>. QED
    BY <2>1, <2>2 DEF LocalTypes, BarrierFirst, DeletesAlone, TargetGone, L!Busy
<1>7. CASE L!Close
  <2>1. L!Busy' = {} /\ shared' = {} /\ excl' = {} /\ disp \in {"select", "retry"} /\ disp' = "closed" /\ UNCHANGED <<taken, kept>>
    BY <1>7 DEF L!Close, L!Busy
  <2>2. \A i \in DOMAIN Input : Past(i)' <=> Past(i)
    BY <2>1 DEF Past
  <2>. QED
    BY <2>1, <2>2 DEF LocalTypes, BarrierFirst, DeletesAlone, TargetGone
<1>. QED
  BY <1>3, <1>4, <1>5, <1>6, <1>7

\* A worker's steps: what it stores is of an event no stored deletion awaits.
LEMMA WorkerStep ==
    ASSUME L!LocalAssumption, LocalInv, NEW e \in L!Events, L!Insert(e) \/ L!Report(e) \/ L!Fail(e)
    PROVE  LocalInv'
<1>. USE DEF LocalInv
<1>1. CASE L!Insert(e)
  <2>1. /\ L!Busy' = L!Busy /\ e \in L!Busy /\ UNCHANGED <<taken, disp, shared, excl>>
        /\ kept' = (kept \ (IF L!IsDelete(e) THEN {TargetOf[e]} ELSE {})) \union {e}
    BY <1>1 DEF L!Insert, L!Busy
  <2>2. \A i \in DOMAIN Input : Past(i)' <=> Past(i)
    BY <2>1 DEF Past
  <2>3. LocalTypes'
    BY <2>1 DEF LocalTypes, L!Current
  <2>4. BarrierFirst' /\ DeletesAlone'
    BY <2>1, <2>2 DEF BarrierFirst, DeletesAlone
  <2>5. ASSUME NEW i \in DOMAIN Input, NEW j \in DOMAIN Input, L!IsDelete(Input[i]), Input[i] \in kept',
               TargetOf[Input[i]] = Input[j], j < i
        PROVE  Input[j] \notin kept'
    <3>1. i # j /\ Input[i] # Input[j]
      BY <2>5 DEF L!LocalAssumption
    <3>2. CASE Input[i] = e
      BY <2>1, <2>5, <3>1, <3>2
    <3>3. CASE Input[i] # e
      <4>1. Input[i] \in kept
        BY <2>1, <2>5, <3>3
      <4>2. Input[j] \notin kept
        BY <2>5, <4>1 DEF TargetGone
      <4>3. Input[j] \notin L!Busy
        BY <2>5, <4>1 DEF BarrierFirst, DeletesAlone
      <4>. QED
        BY <2>1, <4>2, <4>3
    <3>. QED
      BY <3>2, <3>3
  <2>6. TargetGone'
    BY <2>5 DEF TargetGone
  <2>. QED
    BY <2>3, <2>4, <2>6
<1>2. CASE L!Report(e) \/ L!Fail(e)
  <2>1. /\ L!Busy' = L!Busy \ {e} /\ e \in L!Busy /\ shared' = shared \ {e} /\ excl' = excl \ {e}
        /\ UNCHANGED <<taken, disp, kept>>
    BY <1>2 DEF L!Report, L!Fail, L!Done, L!Busy
  <2>2. \A i \in DOMAIN Input : Past(i)' <=> Past(i)
    BY <2>1 DEF Past
  <2>3. LocalTypes'
    BY <2>1 DEF LocalTypes, L!Current
  <2>. QED
    BY <2>1, <2>2, <2>3 DEF BarrierFirst, DeletesAlone, TargetGone
<1>. QED
  BY <1>1, <1>2

\* A deletion that was read after its target and is stored has removed it, and
\* no worker puts it back (Write, writeOneSafe, deleteBarrier).
THEOREM LocalDeletions ==
    ASSUME L!LocalAssumption
    PROVE  L!Spec => []L!DeletionTakesEffect
<1>1. L!Init => LocalInv
  <2>. SUFFICES ASSUME L!Init PROVE LocalInv
    OBVIOUS
  <2>1. Len(Input) \in Nat
    BY DEF L!LocalAssumption
  <2>2. L!Busy = {}
    BY DEF L!Init, L!Busy
  <2>. QED
    BY <2>1, <2>2 DEF L!Init, LocalInv, LocalTypes, BarrierFirst, DeletesAlone, TargetGone
<1>2. LocalInv /\ [L!Next]_(L!vars) => LocalInv'
  <2>1. LocalInv /\ UNCHANGED L!vars => LocalInv'
    BY DEF LocalInv, LocalTypes, BarrierFirst, DeletesAlone, TargetGone, L!vars, L!Busy, L!Current, Past
  <2>. QED
    BY <2>1, LoopStep, WorkerStep DEF L!Next
<1>3. LocalInv => L!DeletionTakesEffect
  <2>1. \A i \in DOMAIN Input : L!Position(Input[i]) = i
    BY DEF L!Position, L!LocalAssumption
  <2>2. \A e \in L!Events : \E i \in DOMAIN Input : Input[i] = e
    BY DEF L!Events
  <2>3. LocalTypes => kept \subseteq L!Events
    BY DEF LocalTypes
  <2>. QED
    BY <2>1, <2>2, <2>3 DEF LocalInv, TargetGone, L!DeletionTakesEffect
<1>. QED
  BY <1>1, <1>2, <1>3, PTL DEF L!Spec
=============================================================================
