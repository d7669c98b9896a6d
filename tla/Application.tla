----------------------------- MODULE Application -----------------------------
(***************************************************************************)
(* The application from its start to its end: the processes, of which one  *)
(* runs, what that one shows and saves, and the screens that lead to the   *)
(* settings.  A step of the running process is one of its event handlers.  *)
(***************************************************************************)
EXTENDS SingleInstance, Appearance, Screens

uiVars == <<appearanceVars, screenVars>>
vars == <<instanceVars, uiVars>>

InitApplication == Init /\ InitAppearance /\ InitScreens

-----------------------------------------------------------------------------
Launch(p) == (Start(p) \/ Proceeds(p)) /\ UNCHANGED uiVars

(* checkApplication returns, App.qml loads the settings and shows the      *)
(* window.                                                                 *)
Begin(p) == WriteFirst(p) /\ Load /\ screen' = "init" /\ page' = "project"

(* onActiveApplicationChanged: the window that is there comes back. *)
Activate(p) == Notice(p) /\ ShowWindow /\ UNCHANGED screenVars

(* Ok in the dialog that closes, Exit in the menu of the tray. *)
Leave(p) == Exit(p, FALSE) /\ Quit /\ UNCHANGED screenVars

(* Yes to the restart. *)
Restart(p) == "restart" \in dialogs /\ shown /\ Exit(p, TRUE) /\ Quit /\ UNCHANGED screenVars

Break(p) == Crash(p) /\ Lose /\ UNCHANGED screenVars

(* Pages are out of reach under a modal dialog. *)
Reachable == shown /\ dialogs = {}

UsePages ==
  \/ /\ UseScreens
     /\ UNCHANGED appearanceVars
  \/ /\ page = "settings"
     /\ \/ \E theme \in Theme : ChooseTheme(theme)
        \/ \E name \in Locale : ChooseLocale(name)
     /\ UNCHANGED screenVars

UseWindow ==
  /\ \/ PressDark \/ CloseWindow \/ Minimise \/ ShowWindow
     \/ \E dialog \in {"close", "restart"} : Decline(dialog)
  /\ UNCHANGED screenVars

(* What the event loop does by itself. *)
Animate == (Grab \/ FinishReveal) /\ UNCHANGED screenVars

SaveSettings == Sync /\ UNCHANGED screenVars

Interact ==
  /\ Running # {}
  /\ \/ Reachable /\ UsePages
     \/ UseWindow \/ Animate \/ SaveSettings
  /\ UNCHANGED instanceVars

SystemChanges == SystemTurns /\ UNCHANGED <<instanceVars, screenVars>>

NextApplication ==
  \/ \E p \in Process : Launch(p) \/ Begin(p) \/ Activate(p) \/ Leave(p) \/ Restart(p) \/ Break(p)
  \/ Interact
  \/ SystemChanges

ApplicationSpec == InitApplication /\ [][NextApplication]_vars

-----------------------------------------------------------------------------
(* A process that has been started goes on; who waits for the lock gets    *)
(* it; the timer ticks; frames and animations come while the window is     *)
(* shown.  Nobody has to start, use or leave the program.                  *)
Fairness ==
  /\ \A p \in Process : SF_vars(Proceeds(p) /\ UNCHANGED uiVars)
  /\ \A p \in Process : SF_vars(Begin(p))
  /\ \A p \in Process : WF_vars(Activate(p))
  /\ WF_vars(Running # {} /\ Animate /\ UNCHANGED instanceVars)

FairSpec == ApplicationSpec /\ Fairness

-----------------------------------------------------------------------------
(* Properties *)

(* Type invariant. *)
ApplicationTypeOK == TypeOK /\ AppearanceTypeOK /\ ScreensTypeOK

(* A start of the program while it runs is not lost: the note that is left *)
(* for the running process brings its window back, also when the process   *)
(* has looked at the memory while the note was written.  Only the next     *)
(* start may write over it first, or the process end.                      *)
StartIsNoticed ==
  note = "new" /\ Running # {}
    ~> (note = "seen" /\ shown) \/ note = "zeros" \/ Running = {}

(* A restart that the user has asked for brings the program back, unless   *)
(* a process gets to checkApplication before the old one has ended: it     *)
(* takes the segment of the old one for that of a running program.         *)
RestartBringsBack ==
  (\E p \in Process : stage[p] = "restarting")
    ~> Running # {} \/ \E p \in Process : stage[p] = "found"

(* The button that switches the theme is not blocked for good: the reveal  *)
(* ends, and whatever happens meanwhile only a hidden window keeps it.     *)
RevealEnds == reveal # "none" ~> reveal = "none" \/ ~shown

(* The program starts with the theme it had when it last ran, whether that *)
(* was chosen, switched or followed the system, and however that run       *)
(* ended, unless it broke before the settings reached the file.            *)
ThemeSurvives ==
  [][Running = {} /\ Running' # {} /\ file.theme # Unset
       => darkMode' = darkMode \/ file # settings]_vars

(* What page/Page_Setting.qml says of the language: it takes effect with   *)
(* the restart.                                                            *)
LanguageTakesEffect ==
  [][Running = {} /\ Running' # {} => settings'.locale \in {Unset, locale'}]_vars
=============================================================================
