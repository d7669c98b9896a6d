----------------------------- MODULE SidePanels -----------------------------
(***************************************************************************)
(* What is visible on the main screen: a sidebar or the middle is a group  *)
(* of two panels, one above the other, and each group and each panel has a *)
(* flag in qml/Global.qml.  update_visable derives the groups from the     *)
(* panels.  The menus and the fold buttons at the bottom of                *)
(* qml/screen/Screen_Main.qml set flags of both kinds, and only some of    *)
(* them call update_visable.  The ribbon of qml/component/NavBar_View.qml  *)
(* binds a button to each panel's flag and calls update_visable whenever   *)
(* one changes, as long as it is on the screen: the same click has another *)
(* effect then.                                                            *)
(***************************************************************************)
CONSTANTS
  Side,         \* the sidebars: left, right
  PropertySide  \* the sidebar that opens when the row of a table is clicked

ASSUME SideAssumption == PropertySide \in Side /\ "mid" \notin Side

Group == Side \cup {"mid"}
Half == {"top", "bottom"}

VARIABLES
  groups,      \* visable_left_side, visable_mid_side, visable_right_side
  panels,      \* visable_left_top_side and its like
  saved,       \* pre_left_top_visible and its like, of the fold buttons
  header,      \* visable_header
  headerExtra, \* visable_header_extra
  ribbon       \* the ribbon that navbar_router shows in the extra header

layoutVars == <<groups, panels, saved>>
headerVars == <<header, headerExtra, ribbon>>
panelVars == <<layoutVars, headerVars>>

Layout == [groups : [Group -> BOOLEAN], panels : [Group -> [Half -> BOOLEAN]]]

Seen == [groups |-> groups, panels |-> panels]

PanelsInit ==
  /\ groups = [g \in Group |-> g = "mid"]
  /\ panels = [g \in Group |-> [h \in Half |-> g = "mid" /\ h = "top"]]
  /\ saved = [g \in Side |-> [h \in Half |-> FALSE]]
  /\ header = TRUE
  /\ headerExtra = TRUE
  /\ ribbon = "other"

-----------------------------------------------------------------------------
(* Assignments to the flags *)

AnyPanel(layout, g) == \E h \in Half : layout.panels[g][h]

(* Mutant: the lower panel of a group is forgotten. *)
UpdatedFromTops(layout) ==
  [layout EXCEPT !.groups = [g \in Group |-> layout.panels[g]["top"]]]

(* update_visable *)
Updated(layout) ==
  [layout EXCEPT !.groups = [g \in Group |-> AnyPanel(layout, g)]]

(* The view ribbon is loaded while it is visible. *)
ViewRibbon == headerExtra /\ ribbon = "view"

(* A flag that changes changes the button bound to it, and the handler of  *)
(* the button updates the groups before the assignment returns.            *)
SetPanel(layout, g, h, value) ==
  LET set == [layout EXCEPT !.panels[g][h] = value] IN
  IF ViewRibbon /\ layout.panels[g][h] # value THEN Updated(set) ELSE set

SetPanels(layout, g, half) ==
  SetPanel(SetPanel(layout, g, "top", half["top"]), g, "bottom", half["bottom"])

Become(layout) ==
  /\ groups' = layout.groups
  /\ panels' = layout.panels

-----------------------------------------------------------------------------
(* What the user does *)

(* A menu or a ribbon switches a panel. *)
TogglePanel(g, h) ==
  /\ Become(Updated(SetPanel(Seen, g, h, ~panels[g][h])))
  /\ UNCHANGED <<saved, headerVars>>

(* The row of a table opens the panel that shows its properties. *)
ClickRow ==
  /\ Become(Updated(SetPanel(Seen, PropertySide, "top", TRUE)))
  /\ UNCHANGED <<saved, headerVars>>

(* Hide or show a sidebar, in the menu of the footer. *)
ToggleSide(g) ==
  /\ groups' = [groups EXCEPT ![g] = ~@]
  /\ UNCHANGED <<panels, saved, headerVars>>

(* Hide or show the bottom bar, in the same menu. *)
ToggleBottomBar ==
  /\ Become(SetPanel(Seen, "mid", "bottom", ~panels["mid"]["bottom"]))
  /\ UNCHANGED <<saved, headerVars>>

(* The fold button of a sidebar that is there: its panels are remembered   *)
(* and switched off.                                                       *)
FoldSide(g) ==
  /\ groups[g]
  /\ saved' = [saved EXCEPT ![g] = panels[g]]
  /\ Become(SetPanels([Seen EXCEPT !.groups[g] = FALSE], g, [h \in Half |-> FALSE]))
  /\ UNCHANGED headerVars

(* The fold button of a sidebar that is not: the panels that were          *)
(* remembered come back, unless one is on already.                         *)
UnfoldSide(g) ==
  /\ ~groups[g]
  /\ LET there == [Seen EXCEPT !.groups[g] = TRUE]
     IN  Become(IF AnyPanel(there, g) THEN there ELSE SetPanels(there, g, saved[g]))
  /\ UNCHANGED <<saved, headerVars>>

(* The fold button of the middle switches the lower panel; the upper one   *)
(* comes back when the middle is visible without it.                       *)
FoldMiddle ==
  /\ LET switched == SetPanel(Seen, "mid", "bottom", ~panels["mid"]["bottom"])
     IN  Become(IF switched.groups["mid"]
                THEN SetPanel(switched, "mid", "top", TRUE)
                ELSE switched)
  /\ UNCHANGED <<saved, headerVars>>

(* The view ribbon is created: the button of each panel that is on tells   *)
(* that it is checked.                                                     *)
LoadRibbon == Become(IF \E g \in Group : AnyPanel(Seen, g) THEN Updated(Seen) ELSE Seen)

LoadRibbonIfNew == IF ViewRibbon' /\ ~ViewRibbon THEN LoadRibbon ELSE Become(Seen)

SelectRibbon(r) ==
  /\ header
  /\ ribbon' = r
  /\ UNCHANGED <<header, headerExtra, saved>>
  /\ LoadRibbonIfNew

(* The file screen and back: what is not visible is unloaded meanwhile. *)
VisitFileScreen ==
  /\ header
  /\ UNCHANGED <<saved, headerVars>>
  /\ IF ViewRibbon THEN LoadRibbon ELSE Become(Seen)

ToggleHeaderExtra ==
  /\ headerExtra' = ~headerExtra
  /\ UNCHANGED <<header, ribbon, saved>>
  /\ LoadRibbonIfNew

ToggleHeader ==
  /\ header' = ~header
  /\ headerExtra' = (header' /\ headerExtra)
  /\ UNCHANGED <<ribbon, layoutVars>>

PanelsNext ==
  \/ \E g \in Group, h \in Half : TogglePanel(g, h)
  \/ \E g \in Side : ToggleSide(g) \/ FoldSide(g) \/ UnfoldSide(g)
  \/ ToggleBottomBar
  \/ FoldMiddle
  \/ \E r \in {"view", "other"} : SelectRibbon(r)
  \/ VisitFileScreen
  \/ ToggleHeaderExtra
  \/ ToggleHeader

-----------------------------------------------------------------------------
(* Properties *)

(* Type invariant. *)
PanelsTypeOK ==
  /\ Seen \in Layout
  /\ saved \in [Side -> [Half -> BOOLEAN]]
  /\ header \in BOOLEAN
  /\ headerExtra \in BOOLEAN
  /\ ribbon \in {"view", "other"}

(* A group is visible when one of its panels is: the comment in            *)
(* update_visable.                                                         *)
Follows(g) == groups[g] = AnyPanel(Seen, g)

(* Between a group and its panels only the shortcuts of the footer that    *)
(* bypass update_visable can come: hiding a sidebar, unfolding one that    *)
(* was folded without a panel, and the two switches of the bottom bar.  No *)
(* order of folds, ribbons and row clicks parts them otherwise.            *)
OnlyShortcutsPart ==
  [][\A g \in Group :
       \/ Follows(g) => Follows(g)'
       \/ g \in Side /\ ToggleSide(g)
       \/ g \in Side /\ UnfoldSide(g) /\ \A h \in Half : ~saved[g][h]
       \/ g = "mid" /\ ~ViewRibbon /\ (ToggleBottomBar \/ FoldMiddle)]_panelVars
=============================================================================
