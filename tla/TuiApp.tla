------------------------------- MODULE TuiApp -------------------------------
(***************************************************************************)
(* The page stack every ncli board is drawn on (client/tui/app.go): one    *)
(* board page, one page shared by every dialog, and one page per overlay.  *)
(* A screen is [pages, focus]: pages in drawing order, the last shown one  *)
(* in front, each with what it holds (body); focus is the page that gets   *)
(* the next key.  TuiBoards and BunkerBoard are written with these         *)
(* operators.                                                              *)
(***************************************************************************)
LOCAL INSTANCE Naturals
LOCAL INSTANCE Sequences
LOCAL INSTANCE SequencesExt

Page(key, shown, body) == [key |-> key, shown |-> shown, body |-> body]

IsShown(s, key) == \E i \in 1..Len(s.pages) : s.pages[i].key = key /\ s.pages[i].shown

Body(s, key) == LET i == SelectInSeq(s.pages, LAMBDA p : p.key = key) IN s.pages[i].body

Holding(s, body) == \E i \in 1..Len(s.pages) : s.pages[i].shown /\ s.pages[i].body = body

FrontPage(s) == s.pages[SelectLastInSeq(s.pages, LAMBDA p : p.shown)].key

(* tview.Pages, as app.go uses it: each call hands the focus to the page   *)
(* that is then in front.                                                  *)
Refocus(pages) == [pages |-> pages, focus |-> FrontPage([pages |-> pages])]

Without(s, key) == SelectSeq(s.pages, LAMBDA p : p.key # key)

AddPage(s, key, body) == Refocus(Append(Without(s, key), Page(key, TRUE, body)))

(* At least one page stays shown: the last one is when no other is.        *)
RemovePage(s, key) ==
  LET rest == Without(s, key)
      some == \E i \in 1..Len(rest) : rest[i].shown
  IN Refocus(IF some THEN rest ELSE [rest EXCEPT ![Len(rest)].shown = TRUE])

(* Every other page is hidden.  A hidden dialog or overlay is never shown  *)
(* again, since whatever opens one adds a new page, so it leaves the stack.*)
SwitchToPage(s, key) ==
  LET kept == SelectSeq(s.pages, LAMBDA p : p.key \in {key, "main", "reloading"})
  IN Refocus([i \in 1..Len(kept) |-> [kept[i] EXCEPT !.shown = (kept[i].key = key)]])

(* Focus: the board panel that last had it takes the keys again, whatever  *)
(* page is in front.                                                       *)
FocusBoard(s) == [s EXCEPT !.focus = "main"]

(* showDialog: every dialog is the one page "dialog", and a new one takes  *)
(* the place of the one before it.                                         *)
ShowDialog(s, body) == AddPage(s, "dialog", body)

(* The end of every button of a dialog: the board is the only page shown.  *)
CloseDialog(s) == FocusBoard(SwitchToPage(s, "main"))

ShowOverlay(s, key, body) == AddPage(s, key, body)

DismissOverlayAlways(s, key) == FocusBoard(RemovePage(s, key))

DismissOverlay(s, key) ==
  LET rest == RemovePage(s, key)
  IN IF FrontPage(rest) = "main" THEN FocusBoard(rest) ELSE rest

(* The Restart and Reload buttons leave only the reloading page.           *)
Reloading(s) ==
  SwitchToPage([s EXCEPT !.pages = <<Page("main", FALSE, <<"board", "-">>)>> \o Without(s, "main")],
               "reloading")

(* Load: a fresh board becomes the only page shown.                        *)
LoadBoard(s) == SwitchToPage(AddPage(s, "main", <<"board", "-">>), "main")

Started == LoadBoard([pages |-> <<Page("reloading", FALSE, <<"reloading", "-">>)>>, focus |-> "reloading"])
=============================================================================
