----------------------------- MODULE Appearance -----------------------------
(***************************************************************************)
(* What the running process shows and what it keeps of it: the window and  *)
(* its dialogs (qml/window/MainWindow.qml), the theme and the reveal that  *)
(* hides its change (CircularReveal.cpp), the language (AppInfo.cpp), and  *)
(* the settings (SettingsHelper.cpp), which a QSettings holds in memory    *)
(* and writes to its file from the event loop.                             *)
(***************************************************************************)
CONSTANTS
  Locale,       \* AppInfo.locales
  SystemLocale, \* QLocale::system().name()
  Unset         \* a setting that was never saved

ASSUME LocaleAssumption == Unset \notin Locale \cup {"light", "dark", "system"}

VARIABLES
  shown,      \* the window is visible
  dialogs,    \* the modal dialogs that are open
  darkMode,   \* Theme.darkMode
  systemDark, \* R.systemDark
  reveal,     \* loader_reveal: nothing, waiting for the image, or moving
  locale,     \* AppInfo.locale
  settings,   \* the settings in memory
  file        \* the settings on disk

windowVars == <<shown, dialogs>>
themeVars == <<darkMode, systemDark, reveal>>
storeVars == <<locale, settings, file>>
appearanceVars == <<windowVars, themeVars, storeVars>>

Theme == {"light", "dark", "system"}
Settings == [theme : Theme \cup {Unset}, locale : Locale \cup {Unset}]

InitAppearance ==
  /\ shown = FALSE
  /\ dialogs = {}
  /\ darkMode = "system"
  /\ systemDark \in BOOLEAN
  /\ reveal = "none"
  /\ locale = SystemLocale
  /\ settings = [theme |-> Unset, locale |-> Unset]
  /\ file = settings

-----------------------------------------------------------------------------
(* Start and end of the process *)

(* Mutant: there is no default. *)
ThemeInFile == file.theme

(* getDarkMode *)
SavedTheme == IF file.theme = Unset THEN "light" ELSE file.theme

(* The constructor of AppInfo and App.qml.  The theme that is loaded is    *)
(* saved again when it differs from the one Theme starts with.             *)
Load ==
  /\ shown' = TRUE
  /\ dialogs' = {}
  /\ darkMode' = SavedTheme
  /\ reveal' = "none"
  /\ locale' = SystemLocale
  /\ settings' = IF SavedTheme = "system" THEN file ELSE [file EXCEPT !.theme = SavedTheme]
  /\ UNCHANGED <<systemDark, file>>

(* The windows are gone; what the process knew is not looked at again. *)
Vanish ==
  /\ shown' = FALSE
  /\ dialogs' = {}
  /\ reveal' = "none"
  /\ UNCHANGED <<darkMode, systemDark, locale, settings>>

(* The event loop writes the settings before it gets to the exit. *)
Quit == Vanish /\ file' = settings

Lose == Vanish /\ UNCHANGED file

(* QSettings writes what has changed. *)
Sync ==
  /\ file # settings
  /\ file' = settings
  /\ UNCHANGED <<windowVars, themeVars, locale, settings>>

-----------------------------------------------------------------------------
(* Theme *)

Dark == darkMode = "dark" \/ (darkMode = "system" /\ systemDark)

(* Mutant: the theme is not saved. *)
SetThemeOnly(theme) ==
  /\ darkMode' = theme
  /\ UNCHANGED <<locale, settings, file>>

(* An assignment to Theme.darkMode, saved by App.qml when it changes. *)
SetTheme(theme) ==
  /\ darkMode' = theme
  /\ settings' = IF theme = darkMode THEN settings ELSE [settings EXCEPT !.theme = theme]
  /\ UNCHANGED <<locale, file>>

(* handleDarkChanged: one reveal at a time. *)
PressDark ==
  /\ shown /\ dialogs = {}
  /\ reveal = "none"
  /\ reveal' = "waiting"
  /\ UNCHANGED <<windowVars, darkMode, systemDark, storeVars>>

(* handleGrabResult: an image comes with a frame, and there are frames     *)
(* while the window is shown.                                              *)
Grab ==
  /\ shown
  /\ reveal = "waiting"
  /\ reveal' = "moving"
  /\ SetTheme(IF Dark THEN "light" ELSE "dark")
  /\ UNCHANGED <<windowVars, systemDark>>

(* Mutant: the loader keeps the reveal. *)
RevealStays ==
  /\ reveal = "moving"
  /\ UNCHANGED appearanceVars

(* animationFinished *)
FinishReveal ==
  /\ reveal = "moving"
  /\ reveal' = "none"
  /\ UNCHANGED <<windowVars, darkMode, systemDark, storeVars>>

ChooseTheme(theme) == SetTheme(theme) /\ UNCHANGED <<windowVars, systemDark, reveal>>

(* The palette of the system changes: systemDarkChanged. *)
SystemTurns ==
  /\ systemDark' = ~systemDark
  /\ UNCHANGED <<windowVars, darkMode, reveal, storeVars>>

-----------------------------------------------------------------------------
(* Window, dialogs and language *)

Answer(dialog) == dialog \in dialogs /\ dialogs' = dialogs \ {dialog}

(* onCloseListener: the event is refused and the user asked. *)
CloseWindow ==
  /\ shown
  /\ dialogs' = dialogs \cup {"close"}
  /\ UNCHANGED <<shown, themeVars, storeVars>>

(* No to closing or to the restart. *)
Decline(dialog) ==
  /\ shown
  /\ Answer(dialog)
  /\ UNCHANGED <<shown, themeVars, storeVars>>

Minimise ==
  /\ shown
  /\ Answer("close")
  /\ shown' = FALSE
  /\ UNCHANGED <<themeVars, storeVars>>

(* The icon in the tray, or the note of another start. *)
ShowWindow ==
  /\ shown' = TRUE
  /\ UNCHANGED <<dialogs, themeVars, storeVars>>

(* The language takes effect in AppInfo and, after a restart, nowhere. *)
ChooseLocale(name) ==
  /\ locale' = name
  /\ settings' = [settings EXCEPT !.locale = name]
  /\ dialogs' = dialogs \cup {"restart"}
  /\ UNCHANGED <<shown, themeVars, file>>

-----------------------------------------------------------------------------
(* Type invariant. *)
AppearanceTypeOK ==
  /\ shown \in BOOLEAN
  /\ dialogs \subseteq {"close", "restart"}
  /\ darkMode \in Theme
  /\ systemDark \in BOOLEAN
  /\ reveal \in {"none", "waiting", "moving"}
  /\ locale \in Locale \cup {SystemLocale}
  /\ {settings, file} \subseteq Settings
=============================================================================
