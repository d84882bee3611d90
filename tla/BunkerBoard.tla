---------------------------- MODULE BunkerBoard ----------------------------
(***************************************************************************)
(* The bunker TUI (cli/bunker/board.go) on the page stack of TuiApp: the   *)
(* Auto-Prompt chain that opens one approval dialog after another, the     *)
(* pairing overlays, the grants editor, and the follow-ups that dialogs    *)
(* hand to the UI loop.  One UI goroutine runs every handler; the daemon,  *)
(* the tickers and the network reach it through QueueUpdateDraw, so the    *)
(* steps below are whole handlers in any order.                            *)
(*                                                                         *)
(* A page body is <<what, request>>.                                       *)
(***************************************************************************)
EXTENDS Naturals, Sequences, Bags, TuiApp

CONSTANTS
  Requests,    \* what apps may ask for while the board is up
  KeyOf,       \* the page its approval opens on: "dialog" or an overlay of its own
  Connects,    \* the requests that are a connect
  Panels,      \* what the operator uses besides Pending: "pair", "grants", "names", "history"
  Faults,      \* "daemon": a call to the daemon fails; "pair": a pairing fails
  MaxLater     \* bound: follow-ups waiting for the UI loop

VARIABLES
  scr,         \* the page stack
  fresh,       \* requests no app has made yet
  pend,        \* the daemon's pending requests, oldest first
  rendered,    \* PendingTable.rendered: the rows on screen
  auto,        \* PendingTable.autoPrompt
  prompted,    \* PendingTable.promptedID
  later,       \* functions given to deferFollowUpDialog / QueueUpdateDraw, not run yet
  watch,       \* a watchForPairing goroutine polls
  conn,        \* a nostrconnect pairing waits on the network
  up           \* the TUI runs

vars == <<scr, fresh, pend, rendered, auto, prompted, later, watch, conn, up>>

None == "-"
Elems(q) == {q[i] : i \in 1..Len(q)}
Fails(kind) == IF kind \in Faults THEN {TRUE, FALSE} ELSE {FALSE}

Init ==
  /\ scr = Started
  /\ fresh = Requests
  /\ pend = <<>> /\ rendered = <<>>
  /\ auto = TRUE /\ prompted = None
  /\ later = EmptyBag
  /\ watch = FALSE /\ conn = FALSE /\ up = TRUE

Defer(f) == later' = later (+) SetToBag({f})
CanDefer == BagCardinality(later) < MaxLater
Pane(keepsAuto, keepsPair) ==
  /\ UNCHANGED <<fresh, pend, rendered, up>>
  /\ keepsAuto => UNCHANGED auto
  /\ keepsPair => UNCHANGED <<watch, conn>>

(* ---- Approvals ----                                                     *)

OpenApproval(s, p) == AddPage(s, KeyOf[p], <<"ask", p>>)

(* tryPromptNext: asks the daemon again and opens the oldest request,      *)
(* unless Auto-Prompt is off or something is already being shown.          *)
Prompting(on, who) == on /\ who = None /\ pend # <<>>

TryPromptNext(s, on) ==
  \/ /\ Prompting(on, prompted)
     /\ scr' = OpenApproval(s, pend[1]) /\ prompted' = pend[1]
  \/ /\ ~Prompting(on, prompted) \/ "daemon" \in Faults
     /\ scr' = s /\ UNCHANGED prompted

Cleared(p) == IF prompted = p THEN None ELSE prompted

(* resolve: one call to the daemon, which refuses what is no longer        *)
(* pending; then the next prompt, or the error, on a later turn.           *)
Resolve(p) == \E down \in Fails("daemon") :
  LET ok == ~down /\ p \in Elems(pend)
  IN /\ CanDefer
     /\ pend' = IF ok THEN SelectSeq(pend, LAMBDA q : q # p) ELSE pend
     /\ prompted' = Cleared(p)
     /\ Defer(<<IF ok THEN "next" ELSE "error", None>>)

(* Update: the table takes the daemon's list; maybeAutoPrompt claims the   *)
(* oldest request now and opens it on a later turn.                        *)
Update ==
  /\ up /\ rendered' = pend
  /\ IF auto /\ prompted = None /\ pend # <<>>
     THEN CanDefer /\ prompted' = pend[1] /\ Defer(<<"ask", pend[1]>>)
     ELSE UNCHANGED <<prompted, later>>
  /\ UNCHANGED <<scr, fresh, pend, auto, watch, conn, up>>

(* Enter on a pending row.                                                 *)
SelectRow ==
  /\ up /\ scr.focus = "main"
  /\ \E p \in Elems(rendered) : scr' = OpenApproval(scr, p) /\ prompted' = p
  /\ UNCHANGED later /\ Pane(TRUE, TRUE)

(* quickResolve: 'a' and 'r' on a pending row.                             *)
QuickResolve ==
  /\ up /\ scr.focus = "main"
  /\ \E p \in Elems(rendered) : Resolve(p)
  /\ UNCHANGED <<scr, fresh, rendered, auto, watch, conn, up>>

(* toggleAutoPrompt: 'p'.                                                  *)
ToggleAutoPrompt ==
  /\ up /\ scr.focus = "main"
  /\ auto' = ~auto
  /\ TryPromptNext(scr, ~auto)
  /\ UNCHANGED later /\ Pane(FALSE, TRUE)

(* How a button leaves the page it is on: an overlay goes before the       *)
(* button's function runs, a dialog after it, and the dialog's way out     *)
(* hides every page but the board.                                         *)
Leave(key) == IF key = "dialog" THEN CloseDialog(scr) ELSE DismissOverlay(scr, key)

(* The page that has the keys is the approval (or duration) page of p.     *)
Asked(what, p) ==
  /\ up /\ scr.focus \in Elems([i \in 1..Len(scr.pages) |-> scr.pages[i].key])
  /\ Body(scr, scr.focus) = <<what, p>>

(* Approve Once, Reject Once, Reject Always, and every duration.           *)
AnswerResolves == \E what \in {"ask", "duration"}, p \in Requests :
  /\ Asked(what, p)
  /\ scr' = Leave(scr.focus)
  /\ Resolve(p)
  /\ UNCHANGED <<fresh, rendered, auto, watch, conn, up>>

(* Always ...: the duration comes next.  Its Cancel goes back to p.        *)
AnswerOther == \E p \in Requests :
  /\ CanDefer
  /\ \/ Asked("ask", p) /\ Defer(<<"duration", p>>)
     \/ Asked("duration", p) /\ Defer(<<"ask", p>>)
  /\ scr' = Leave(scr.focus)
  /\ UNCHANGED prompted /\ Pane(TRUE, TRUE)

(* deferDecision: Decide Later, and Esc.                                   *)
DecideLater == \E p \in Requests :
  /\ Asked("ask", p)
  /\ scr' = Leave(scr.focus)
  /\ prompted' = Cleared(p)
  /\ auto' = FALSE
  /\ UNCHANGED later /\ Pane(FALSE, TRUE)

(* ---- Dialogs and overlays beside the approvals ----                     *)

(* A key of the board opens a page: 'c', 'b', Sessions' Enter, 'r', 'n',   *)
(* History's Enter.                                                        *)
BoardPages ==
  {<<"dialog", "quit">>}
  \cup (IF "pair" \in Panels THEN {<<"dialog", "connect">>} ELSE {})
  \cup (IF "grants" \in Panels THEN {<<"sessionGrants", "grants">>, <<"dialog", "revokeAll">>} ELSE {})
  \cup (IF "names" \in Panels THEN {<<"sessionRenameInput", "rename">>} ELSE {})
  \cup (IF "history" \in Panels THEN {<<"historyEventDetail", "event">>} ELSE {})

BoardKey ==
  /\ up /\ scr.focus = "main"
  /\ \E page \in BoardPages : scr' = AddPage(scr, page[1], <<page[2], None>>)
  /\ UNCHANGED <<prompted, later>> /\ Pane(TRUE, TRUE)

(* A button that only closes its page: Cancel, OK, Close, Esc.             *)
CancelButton ==
  /\ \E what \in {"quit", "connect", "revokeAll", "error", "alert",
                  "input", "connecting", "grants", "rename", "event"} : Asked(what, None)
  /\ scr' = Leave(scr.focus)
  /\ UNCHANGED <<prompted, later>> /\ Pane(TRUE, TRUE)

(* The rename overlay: a name the daemon refuses is reported afterwards.   *)
RenameFollowUp == IF "daemon" \in Faults THEN {"error"} ELSE {}

(* A button that hands a follow-up to a later turn.                        *)
FollowUp(what) ==
  CASE what = "connect"     -> {"uri", "input"}
    [] what = "revokeGrant" -> {"grants"} \cup (IF "daemon" \in Faults THEN {"error"} ELSE {})
    [] what = "extend"      -> {"grants"} \cup (IF "daemon" \in Faults THEN {"error"} ELSE {})
    [] what = "revokeAll"   -> IF "daemon" \in Faults THEN {"error"} ELSE {}
    [] what = "rename"      -> RenameFollowUp

FollowUpButton ==
  \E what \in {"connect", "revokeGrant", "extend", "revokeAll", "rename"} :
    /\ Asked(what, None) /\ CanDefer
    /\ \E f \in FollowUp(what) : Defer(<<f, None>>)
    /\ scr' = Leave(scr.focus)
    /\ UNCHANGED prompted /\ Pane(TRUE, TRUE)

(* 'x' and 'e' in the grants overlay: the overlay goes, a dialog comes.    *)
GrantsKey ==
  /\ Asked("grants", None)
  /\ \E what \in {"revokeGrant", "extend", "alert"} :
       scr' = ShowDialog(DismissOverlay(scr, "sessionGrants"), <<what, None>>)
  /\ UNCHANGED <<prompted, later>> /\ Pane(TRUE, TRUE)

(* ---- Pairing ----                                                       *)

(* The URI overlay's Close stops its watcher.                              *)
CloseUri ==
  /\ Asked("uri", None)
  /\ scr' = DismissOverlay(scr, "bunkerShowURI")
  /\ watch' = FALSE
  /\ UNCHANGED <<prompted, later, conn>> /\ Pane(TRUE, FALSE)

(* watchForPairing: a connect request ends it, and so does the deadline.   *)
WatchPairing ==
  /\ up /\ watch /\ watch' = FALSE
  /\ \/ Connects \cap Elems(pend) # {} /\ CanDefer /\ Defer(<<"paired", None>>)
     \/ UNCHANGED later
  /\ UNCHANGED <<scr, prompted, conn>> /\ Pane(TRUE, FALSE)

(* The input's submit: showConnecting, and a goroutine that waits.         *)
SubmitUri ==
  /\ Asked("input", None) /\ ~conn
  /\ scr' = ShowOverlay(DismissOverlay(scr, "bunkerConnectInput"), "bunkerConnecting", <<"connecting", None>>)
  /\ conn' = TRUE
  /\ UNCHANGED <<prompted, later, watch>> /\ Pane(TRUE, FALSE)

Connected ==
  /\ up /\ conn /\ CanDefer /\ conn' = FALSE
  /\ \E bad \in Fails("pair") : Defer(<<IF bad THEN "unpaired" ELSE "connected", None>>)
  /\ UNCHANGED <<scr, prompted, watch>> /\ Pane(TRUE, FALSE)

(* ---- The UI loop runs a follow-up ----                                  *)

(* What is on the screen when the pairing wait ends, before what follows.  *)
ConnectingDoneDialog(s) == CloseDialog(s)

ConnectingDone(s) == DismissOverlay(s, "bunkerConnecting")

RunLater == \E f \in DOMAIN later :
  /\ up /\ later' = later (-) SetToBag({f})
  /\ LET base == CASE f[1] = "paired" -> DismissOverlay(scr, "bunkerShowURI")
                   [] f[1] \in {"connected", "unpaired"} -> ConnectingDone(scr)
                   [] OTHER -> scr
     IN \/ /\ f[1] = "ask"
           /\ scr' = OpenApproval(base, f[2]) /\ prompted' = f[2]
        \/ /\ f[1] \in {"next", "paired", "connected"}
           /\ TryPromptNext(base, auto)
        \/ /\ f[1] = "duration"
           /\ scr' = ShowDialog(base, f) /\ UNCHANGED prompted
        \/ /\ f[1] \in {"error", "unpaired"} \cup (IF "pair" \in Faults THEN {"uri"} ELSE {})
           /\ scr' = ShowDialog(base, <<"error", None>>) /\ UNCHANGED prompted
        \/ /\ f[1] \in {"uri", "input", "grants"}
           /\ scr' = ShowOverlay(base, CASE f[1] = "uri" -> "bunkerShowURI"
                                         [] f[1] = "input" -> "bunkerConnectInput"
                                         [] f[1] = "grants" -> "sessionGrants", f)
           /\ UNCHANGED prompted
        \/ /\ f[1] = "grants"     \* the session is gone by now
           /\ scr' = base /\ UNCHANGED prompted
  /\ watch' = (f[1] # "paired" /\ (watch \/ (f[1] = "uri" /\ Holding(scr', f))))
  /\ UNCHANGED conn /\ Pane(TRUE, FALSE)

(* ---- The daemon, and the way out ----                                   *)

Arrive == \E p \in fresh :
  /\ up /\ fresh' = fresh \ {p} /\ pend' = Append(pend, p)
  /\ UNCHANGED <<scr, rendered, auto, prompted, later, watch, conn, up>>

(* The queue's sweep, or another client's decision.                        *)
Gone == \E p \in Elems(pend) :
  /\ up /\ pend' = SelectSeq(pend, LAMBDA q : q # p)
  /\ UNCHANGED <<scr, fresh, rendered, auto, prompted, later, watch, conn, up>>

(* stopDaemon: the quit dialog's Stop, or Ctrl+C on any page; Detach and a *)
(* lost daemon end the TUI too.                                            *)
StopDaemon ==
  /\ up
  /\ \E down \in Fails("daemon") :
       IF down THEN CanDefer /\ Defer(<<"error", None>>) /\ UNCHANGED up
               ELSE up' = FALSE /\ UNCHANGED later
  /\ scr' = scr \/ (Asked("quit", None) /\ scr' = CloseDialog(scr))
  /\ UNCHANGED <<fresh, pend, rendered, auto, prompted, watch, conn>>

Next ==
  \/ Update \/ SelectRow \/ QuickResolve \/ ToggleAutoPrompt
  \/ AnswerResolves \/ AnswerOther \/ DecideLater
  \/ BoardKey \/ CancelButton \/ FollowUpButton \/ GrantsKey
  \/ CloseUri \/ WatchPairing \/ SubmitUri \/ Connected
  \/ RunLater \/ Arrive \/ Gone \/ StopDaemon

Spec == Init /\ [][Next]_vars

(* ---- Properties ----                                                    *)

(* The page in front is the page that gets the keys: no dialog is ever     *)
(* visible and dead, whatever overlay an asynchronous completion dismissed *)
(* under it (client/tui/app.go DismissOverlay).                            *)
KeyboardAlive == scr.focus = FrontPage(scr)

FollowUpReplaces ==
    RunLater =>
    \A p \in Requests, what \in {"ask", "duration"} :
      Holding(scr, <<what, p>>) =>
        \/ Holding(scr', <<what, p>>)
        \/ Body(scr', FrontPage(scr'))[1] \in {"ask", "duration", "error"}

(* A follow-up that takes an approval off the screen puts another dialog   *)
(* in its place: the end of a pairing, however late, never closes the      *)
(* decision the operator is looking at (cli/bunker/board.go                *)
(* showConnecting).                                                        *)
FollowUpsReplace == [][FollowUpReplaces]_vars

(* promptedID names a request whose dialog is on the screen, or about to   *)
(* be: otherwise Auto-Prompt waits for an answer nobody can give and never *)
(* prompts again (cli/bunker/board.go, promptedID and showConnecting).     *)
(* It fails: an error dialog replaces the prompt and leaves promptedID     *)
(* set.                                                                    *)
PromptedIsShown ==
  prompted # None =>
    \E what \in {"ask", "duration"} :
      Holding(scr, <<what, prompted>>) \/ <<what, prompted>> \in DOMAIN later
=============================================================================
