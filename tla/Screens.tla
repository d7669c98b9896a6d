------------------------------ MODULE Screens ------------------------------
(***************************************************************************)
(* The screens of the window (qml/screen/Screen_Root.qml): the one the     *)
(* program starts with, the main screen and the file screen.  The first    *)
(* and the last have pages; they are made anew each time they come, with   *)
(* their start page, while the main screen is kept.  A screen is asked for *)
(* through Global.displayScreen; the numbers that the Undo and Redo        *)
(* buttons assign have no route and leave the screen as it is.             *)
(***************************************************************************)
VARIABLES
  screen,  \* the screen on show
  page     \* the page on it, as far as it matters what it offers

screenVars == <<screen, page>>

InitScreens == screen = "init" /\ page = "project"

(* Displayed on a screen of its own: its first page. *)
GoTo(s) == screen' = s /\ page' = "project"

(* Start and New lead to a project or back to the first screen. *)
OpenProject == screen # "main" /\ page = "project" /\ GoTo("main")

GoBack == screen = "file" /\ page = "project" /\ GoTo("init")

(* The tab of the ribbon, and the arrow that leads back. *)
OpenFileScreen == screen = "main" /\ GoTo("file")

LeaveFileScreen == screen = "file" /\ GoTo("main")

(* An item of the NavigationView. *)
TapPage(p) == screen # "main" /\ page' = p /\ UNCHANGED screen

UseScreens ==
  \/ OpenProject \/ GoBack \/ OpenFileScreen \/ LeaveFileScreen
  \/ \E p \in {"project", "settings"} : TapPage(p)

(* Type invariant. *)
ScreensTypeOK ==
  /\ screen \in {"init", "main", "file"}
  /\ page \in {"project", "settings"}
=============================================================================
