------------------------------ MODULE PageTabs ------------------------------
(***************************************************************************)
(* The pages in the middle of the main screen: the tabs                    *)
(* (qml/screen/Screen_Main.qml, qml/extra/TabViewEx.qml) and the page that *)
(* the router shows under them (rely/FluentUI/Controls/PageRouterView.qml).*)
(* Both follow Global.displayMidTop, each on its own: an assignment of the *)
(* value it has signals nothing, a page without a route leaves the router  *)
(* as it is, and a page without a title gets no tab.  The signal handlers  *)
(* of one user action run to their end before the next one.                *)
(*                                                                         *)
(* Tabs are counted from 1 here; current = 0 is the index -1 of a ListView *)
(* without items.                                                          *)
(***************************************************************************)
EXTENDS Integers, Sequences, SequencesExt

CONSTANTS
  Page,      \* the keys of body_midtop_info_model: pages with a title
  Blank,     \* /page/blank, the page the screen starts with
  NullPage,  \* /page/null, which has a route and no title
  Unrouted,  \* keys that buttons assign and no router knows
  Opens      \* what the buttons of the navigation bar assign, one after
             \* the other

ASSUME PageAssumption ==
  /\ Blank \in Page
  /\ NullPage \notin Page
  /\ Unrouted \cap (Page \cup {NullPage}) = {}
  /\ Opens \subseteq Seq(Page \cup Unrouted)

VARIABLES
  tabs,      \* tab_model
  current,   \* tab_nav.currentIndex
  displayed, \* Global.displayMidTop
  shown      \* path of the current item of midtop_panne

tabVars == <<tabs, current, displayed, shown>>

Routes == Page \cup {NullPage}

TabsInit ==
  /\ tabs = <<Blank>>
  /\ current = 1
  /\ displayed = Blank
  /\ shown = Blank

Tabbing == [tabs : Seq(Page), current : Nat,
           displayed : Routes \cup Unrouted, shown : Routes]

Tabs == [tabs |-> tabs, current |-> current, displayed |-> displayed, shown |-> shown]

TabsBecome(s) ==
  /\ tabs' = s.tabs
  /\ current' = s.current
  /\ displayed' = s.displayed
  /\ shown' = s.shown

-----------------------------------------------------------------------------
(* Mutant: a page that has a tab gets another one. *)
AlwaysAppended(s, k) ==
  IF k \in Page
  THEN [s EXCEPT !.tabs = Append(@, k), !.current = Len(s.tabs) + 1]
  ELSE s

(* Mutant: the index of a new tab is its count. *)
SelectedPastEnd(s, k) ==
  IF k \in Page /\ ~Contains(s.tabs, k)
  THEN [s EXCEPT !.tabs = Append(@, k), !.current = Len(s.tabs) + 2]
  ELSE s

(* onDisplayMidTopChanged of the tabs: the tab of the page becomes the     *)
(* current one; a page with a title and no tab gets one.                   *)
TabSelected(s, k) ==
  CASE \E i \in DOMAIN s.tabs : s.tabs[i] = k ->
         [s EXCEPT !.current = CHOOSE i \in DOMAIN s.tabs :
            s.tabs[i] = k /\ \A j \in 1 .. i - 1 : s.tabs[j] # k]
    [] k \in Page /\ ~Contains(s.tabs, k) ->
         [s EXCEPT !.tabs = Append(@, k), !.current = Len(s.tabs) + 1]
    [] OTHER -> s

(* Mutant: only the router follows. *)
OnlyRouted(s, k) ==
  IF k \in Routes THEN [s EXCEPT !.displayed = k, !.shown = k] ELSE [s EXCEPT !.displayed = k]

(* Global.displayMidTop = k *)
Displayed(s, k) ==
  IF k = s.displayed THEN s
  ELSE [TabSelected(s, k) EXCEPT
          !.displayed = k,
          !.shown = IF k \in Routes THEN k ELSE @]

(* tab_model.remove(i): the current tab keeps its index or is the one      *)
(* that comes to its place, the last one if none does.                     *)
Removed(s, i) ==
  LET left == Len(s.tabs) - 1 IN
  [s EXCEPT
     !.tabs = RemoveAt(@, i),
     !.current = CASE s.current > i -> @ - 1
                   [] s.current = i /\ i > left -> left
                   [] OTHER -> @]

(* A button of the navigation bar, pressed. *)
Open(keys) == TabsBecome(FoldLeft(Displayed, Tabs, keys))

ClickTab(i) == TabsBecome(Displayed(Tabs, tabs[i]))

(* onTab_close_clicked: the current tab hands over to the one before it.   *)
HandedOver(s, i) ==
  CASE s.current # i -> s
    [] s.current = i /\ i = 1 -> Displayed(s, NullPage)
    [] s.current = i /\ i > 1 -> Displayed(s, s.tabs[i - 1])

(* The signal is emitted before the tab is removed. *)
CloseTab(i) == TabsBecome(Removed(HandedOver(Tabs, i), i))

(* tab_model.move(i, j, 1), when tab i is dragged over tab j: the current  *)
(* tab stays the current one.                                              *)
DragTab(i, j) ==
  /\ i # j
  /\ tabs' = InsertAt(RemoveAt(tabs, i), j, tabs[i])
  /\ current' = CASE current = i -> j
                  [] i < current /\ current <= j -> current - 1
                  [] j <= current /\ current < i -> current + 1
                  [] OTHER -> current
  /\ UNCHANGED <<displayed, shown>>

(* What the user does with tab i. *)
UseTab(i) ==
  \/ ClickTab(i)
  \/ CloseTab(i)
  \/ \E j \in DOMAIN tabs : DragTab(i, j)

-----------------------------------------------------------------------------
(* Properties *)

(* Type invariant. *)
TabsTypeOK ==
  /\ Tabs \in Tabbing
  /\ current \in IF tabs = <<>> THEN {0} ELSE DOMAIN tabs

(* The tab that is drawn as the current one is the tab of the page on      *)
(* show, unless the null page is.  Two handlers and the list view reach    *)
(* this separately, and a closed tab shifts the indices between them.      *)
CurrentTabIsShown ==
  shown # NullPage => current \in DOMAIN tabs /\ tabs[current] = shown

(* A page has one tab at most, in whatever order tabs are opened, closed,  *)
(* dragged and opened again.                                               *)
OneTabPerPage == IsInjective(tabs)
=============================================================================
