--------------------------- MODULE BunkerDecisions ---------------------------
(***************************************************************************)
(* What the approval queue promises its callers (cli/bunker/queue.go),     *)
(* without locks, callbacks, channels or sweeps: a request joins a         *)
(* decision, each decision is taken once, and a caller returns the decision*)
(* it joined.  A decision is named by the call that opened it.             *)
(***************************************************************************)
CONSTANTS IDs, Calls, Resolution, None

VARIABLES
    joined,    \* the decision each call takes part in
    about,     \* the request id each call carries
    decision,  \* what was decided, None while open
    returned   \* what each call returned

vars == <<joined, about, decision, returned>>

Init ==
    /\ joined = [c \in Calls |-> None]
    /\ about = [c \in Calls |-> None]
    /\ decision = [c \in Calls |-> None]
    /\ returned = [c \in Calls |-> None]

\* A call opens a decision of its own or joins one about the same request.
Join(c, id, d) ==
    /\ about[c] = None
    /\ d = c \/ (joined[d] = d /\ about[d] = id)
    /\ joined' = [joined EXCEPT ![c] = d]
    /\ about' = [about EXCEPT ![c] = id]
    /\ UNCHANGED <<decision, returned>>

\* A call is turned away without a decision.
TurnAway(c, id) ==
    /\ about[c] = None
    /\ about' = [about EXCEPT ![c] = id]
    /\ UNCHANGED <<joined, decision, returned>>

Decide(d, res) ==
    /\ joined[d] = d
    /\ decision[d] = None
    /\ decision' = [decision EXCEPT ![d] = res]
    /\ UNCHANGED <<joined, about, returned>>

Return(c) ==
    /\ joined[c] # None
    /\ returned[c] = None
    /\ decision[joined[c]] # None
    /\ returned' = [returned EXCEPT ![c] = decision[joined[c]]]
    /\ UNCHANGED <<joined, about, decision>>

Next ==
    \/ \E c \in Calls, id \in IDs :
          TurnAway(c, id) \/ \E d \in Calls : Join(c, id, d)
    \/ \E d \in Calls, res \in Resolution : Decide(d, res)
    \/ \E c \in Calls : Return(c)

Spec == Init /\ [][Next]_vars
=============================================================================
