----------------------------- MODULE TableView -----------------------------
(***************************************************************************)
(* The lists of the resource view (qml/page/Page_Table.qml), which show    *)
(* one at a time.  A button of the ribbon names a list through             *)
(* Global.displayTablePage and the page follows when that changes; an item *)
(* at the side of the page asks the router for a list and leaves the       *)
(* property as it is.  The page is created when it is first shown and kept *)
(* from then on.                                                           *)
(***************************************************************************)
CONSTANTS
  List,      \* the lists of the resource view
  FirstList, \* /page/table/station
  NoList     \* shown before the page is created

ASSUME ListAssumption == FirstList \in List /\ NoList \notin List

VARIABLES
  listNamed, \* Global.displayTablePage
  listShown  \* the current item of the page's router

listVars == <<listNamed, listShown>>

ListsInit == listNamed = FirstList /\ listShown = NoList

(* The resource view comes on show, for the first time or again. *)
ShowLists ==
  /\ listShown' = IF listShown = NoList THEN listNamed ELSE listShown
  /\ UNCHANGED listNamed

(* Mutant: the router is asked before the property changes. *)
NameListAfter(t) ==
  /\ listNamed' = t
  /\ listShown' = IF listShown = NoList \/ t # listNamed THEN listNamed ELSE listShown

(* Global.displayTablePage = t, with the resource view on show since the   *)
(* line before: a value that is assigned again signals nothing.            *)
NameList(t) ==
  /\ listNamed' = t
  /\ listShown' = IF t = listNamed /\ listShown # NoList THEN listShown ELSE t

(* onTap of the NavigationView *)
TapList(t) == listShown' = t /\ UNCHANGED listNamed

-----------------------------------------------------------------------------
(* Type invariant. *)
ListsTypeOK == listNamed \in List /\ listShown \in List \cup {NoList}

(* The list that was last asked for by a button is the one on show. *)
NamedIsShown == listShown \in {NoList, listNamed}

(* Only a tap at the side of the page parts the list on show from the one  *)
(* the ribbon named, so that until then each button leads to its list.     *)
(* After one, the button of the list that was named last does nothing.     *)
OnlyTapsPart ==
  [][NamedIsShown => NamedIsShown' \/ \E t \in List : TapList(t)]_listVars
=============================================================================
