---------------------------- MODULE MetricsTokens ----------------------------
(***************************************************************************)
(* The tokens that may scrape a relay's metrics                            *)
(* (cli/relay/adminplane/tokens.go).  The relay holds the hashes of a      *)
(* tokens file and rereads the file when its modification time or size     *)
(* changed, at most once a second; `ncli relay metrics token' adds and     *)
(* removes lines from other processes, and an operator may edit, restore   *)
(* or chmod the file.  Every write gives the file a new modification time; *)
(* restoring a kept copy gives it the copy's.                              *)
(***************************************************************************)
EXTENDS Naturals, FiniteSets

CONSTANTS Tokens,      \* tokens, each under a name of its own
          MaxWrites,   \* bound: writes to the file
          Faults       \* subset of {"edit", "chmod", "restore"}

VARIABLES file,        \* [toks, well (parses), private (mode 0600), mtime, size]
          backup,      \* a kept copy of the file
          writes,      \* writes so far
          hashes, mtime, size,  \* tokenSet
          due,         \* recheckEvery passed since checked
          rm,          \* RemoveToken under way: [tok, kept] or Idle
          accepted     \* token the last request presented and was let in with

vars == <<file, backup, writes, hashes, mtime, size, due, rm, accepted>>

loaded == <<hashes, mtime, size>>
NoTok == "none"
Idle == [tok |-> NoTok, kept |-> {}]

Contents(toks, well, n) ==
    [toks |-> toks, well |-> well, private |-> TRUE, mtime |-> n,
     size |-> Cardinality(toks) + IF well THEN 0 ELSE 1]

\* newTokenSet: the file loads, or the relay does not start.
Init == /\ \E toks \in SUBSET Tokens : file = Contents(toks, TRUE, 1)
        /\ backup = file
        /\ writes = 1
        /\ hashes = file.toks /\ mtime = file.mtime /\ size = file.size
        /\ due = TRUE
        /\ rm = Idle
        /\ accepted = NoTok

----------------------------------------------------------------------------
Loads == file.well /\ file.private

Writes(toks, well) == /\ writes < MaxWrites /\ writes' = writes + 1
                      /\ file' = [Contents(toks, well, writes + 1) EXCEPT !.private = file.private]

\* AddToken: the name is not taken, and a line is appended.
Add(t) == /\ Loads /\ t \notin file.toks
          /\ Writes(file.toks \cup {t}, TRUE)
          /\ UNCHANGED <<backup, hashes, mtime, size, due, rm, accepted>>

\* RemoveToken reads the file, and renames a copy without the line over it;
\* the copy is mode 0600.
RemoveReads(t) == /\ rm = Idle /\ Loads /\ t \in file.toks
                  /\ rm' = [tok |-> t, kept |-> file.toks \ {t}]
                  /\ UNCHANGED <<file, backup, writes, hashes, mtime, size, due, accepted>>

RemoveRenames == /\ rm # Idle /\ writes < MaxWrites /\ writes' = writes + 1
                 /\ file' = Contents(rm.kept, TRUE, writes + 1)
                 /\ rm' = Idle
                 /\ UNCHANGED <<backup, hashes, mtime, size, due, accepted>>

\* The operator: a line that does not parse, a mode others can read, the
\* kept copy put back.
Edit == /\ "edit" \in Faults /\ file.well /\ Writes(file.toks, FALSE)
        /\ UNCHANGED <<backup, hashes, mtime, size, due, rm, accepted>>

Repair == /\ ~file.well /\ Writes(file.toks, TRUE)
          /\ UNCHANGED <<backup, hashes, mtime, size, due, rm, accepted>>

Chmod == /\ "chmod" \in Faults /\ file' = [file EXCEPT !.private = ~@]
         /\ UNCHANGED <<backup, writes, hashes, mtime, size, due, rm, accepted>>

Restore == /\ "restore" \in Faults /\ file # backup /\ file' = backup
           /\ UNCHANGED <<backup, writes, hashes, mtime, size, due, rm, accepted>>

----------------------------------------------------------------------------
SecondPasses == /\ ~due /\ due' = TRUE
                /\ UNCHANGED <<file, backup, writes, hashes, mtime, size, rm, accepted>>

\* tokenSet.valid's recheck: nothing is accepted from a file that is not
\* private, and its mtime is forgotten; a changed one is reread, and
\* refuses everything when it does not load.
ChangedBySize == file.size # size

Changed == file.mtime # mtime \/ file.size # size

Recheck == \/ /\ ~file.private
              /\ hashes' = {} /\ mtime' = 0 /\ UNCHANGED size
           \/ /\ file.private /\ Changed
              /\ IF Loads THEN hashes' = file.toks /\ mtime' = file.mtime /\ size' = file.size
                 ELSE hashes' = {} /\ UNCHANGED <<mtime, size>>
           \/ file.private /\ ~Changed /\ UNCHANGED loaded

\* A scrape with token t.
Scrape(t) == /\ IF due THEN Recheck /\ due' = FALSE ELSE UNCHANGED <<hashes, mtime, size, due>>
             /\ accepted' = IF t \in hashes' THEN t ELSE NoTok
             /\ UNCHANGED <<file, backup, writes, rm>>

Next == \/ \E t \in Tokens : Add(t) \/ RemoveReads(t) \/ Scrape(t)
        \/ RemoveRenames \/ Edit \/ Repair \/ Chmod \/ Restore \/ SecondPasses

Spec == Init /\ [][Next]_vars

----------------------------------------------------------------------------
AcceptsListed ==
    \A t \in Tokens : due /\ Scrape(t) /\ accepted' = t => Loads /\ t \in file.toks

(***************************************************************************)
(* A scrape that rechecks the file is let in only with a token the file    *)
(* lists at that moment, and only if the file loads: a removed token dies  *)
(* within a second, whatever writers do around the reread                  *)
(* (tokenSet.valid).                                                       *)
(***************************************************************************)
AcceptedIsListed == [][AcceptsListed]_vars

(***************************************************************************)
(* A file that turned invalid "rejects everything until fixed"             *)
(* (tokenSet.valid): a recheck of a fixed file serves its tokens.  It does *)
(* not when the fix puts the last good file back, modification time and    *)
(* all: the failed reload dropped the hashes and kept the time.            *)
(***************************************************************************)
FixedIsServed ==
    [][\A t \in Tokens : due /\ Scrape(t) /\ Loads /\ t \in file.toks => accepted' = t]_vars
=============================================================================
