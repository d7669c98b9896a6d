----------------------------- MODULE MainScreen -----------------------------
(***************************************************************************)
(* The main screen (qml/screen/Screen_Main.qml): the tabs of its middle    *)
(* and the panels around them.  They meet where one makes the other        *)
(* reachable: tabs can be clicked while the middle is visible, the buttons *)
(* that open pages are on a ribbon of the header, and the rows of a table  *)
(* can be clicked, and another table chosen, while the page that holds     *)
(* them is on show.                                                        *)
(***************************************************************************)
EXTENDS PageTabs, SidePanels, TableView

CONSTANT Table  \* the page that holds the tables

ASSUME TableAssumption == Table \in Page

vars == <<tabVars, panelVars, listVars>>

Init == TabsInit /\ PanelsInit /\ ListsInit

MiddleVisible == groups["mid"] /\ panels["mid"]["top"]

RibbonReachable == headerExtra /\ ribbon = "other"

TablesReachable == MiddleVisible /\ shown = Table

(* The page that holds the tables is created when it is first routed to. *)
FollowTables == IF shown' = Table THEN ShowLists ELSE UNCHANGED listVars

OpenPage ==
  /\ RibbonReachable
  /\ \E keys \in Opens : Open(keys)
  /\ FollowTables
  /\ UNCHANGED panelVars

(* The buttons of the tables show the page and name one. *)
OpenTable ==
  /\ RibbonReachable
  /\ Open(<<Table>>)
  /\ \E t \in List : NameList(t)
  /\ UNCHANGED panelVars

UseTabs ==
  /\ MiddleVisible
  /\ \E i \in DOMAIN tabs : UseTab(i)
  /\ FollowTables
  /\ UNCHANGED panelVars

UseRow ==
  /\ TablesReachable
  /\ ClickRow
  /\ UNCHANGED <<tabVars, listVars>>

ChooseTable ==
  /\ TablesReachable
  /\ \E t \in List : TapList(t)
  /\ UNCHANGED <<tabVars, panelVars>>

UsePanels == PanelsNext /\ UNCHANGED <<tabVars, listVars>>

Next == OpenPage \/ OpenTable \/ UseTabs \/ UseRow \/ ChooseTable \/ UsePanels

Spec == Init /\ [][Next]_vars

(* Type invariant. *)
TypeOK == TabsTypeOK /\ PanelsTypeOK /\ ListsTypeOK
=============================================================================
