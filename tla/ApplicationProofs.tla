-------------------------- MODULE ApplicationProofs --------------------------
(***************************************************************************)
(* The theorems of SingleInstance and of Application, for any number of    *)
(* processes and both kinds of system.                                     *)
(*                                                                         *)
(* That one process owns the segment is not inductive: a process may only  *)
(* create it while it is not there, so the segment has to be there for as  *)
(* long as anybody is attached to it.  What is proved of the processes     *)
(* alone carries over to the application, since the window and the         *)
(* settings only restrict what a process does.  That the theme survives    *)
(* rests on one invariant: the theme in memory is the one on show, or was  *)
(* never saved.                                                            *)
(***************************************************************************)
EXTENDS Application, TLAPS

-----------------------------------------------------------------------------
(* The processes *)

AtMostOneOwner == \A p, q \in Owners : p = q

HeldWhileAttached == Attached # {} => segment

IInv == TypeOK /\ AtMostOneOwner /\ HeldWhileAttached

LEMMA InitType == Init => TypeOK
  BY DeathAssumption DEF Init, TypeOK, Stage

LEMMA TypeStep == TypeOK /\ [Next]_instanceVars => TypeOK'
<1> SUFFICES ASSUME TypeOK, [Next]_instanceVars PROVE TypeOK'
  OBVIOUS
<1> USE DEF TypeOK, Stage
<1>1. CASE UNCHANGED instanceVars
  BY <1>1 DEF instanceVars
<1>2. ASSUME NEW p \in Process,
             Start(p) \/ WriteFirst(p) \/ Notice(p) \/ Exit(p, FALSE) \/ Exit(p, TRUE)
      PROVE  TypeOK'
  BY <1>2 DEF Start, WriteFirst, Notice, Exit, Enters
<1>3. ASSUME NEW p \in Process,
             \/ Create(p) \/ Find(p) \/ BeginNote(p) \/ FailNote(p) \/ FinishNote(p)
             \/ End(p) \/ Crash(p)
      PROVE  TypeOK'
  BY <1>3 DEF Create, Find, BeginNote, FailNote, FinishNote, End, Crash, Dies, Enters
<1>4. ASSUME NEW p \in Process, NEW q \in Process, Respawn(p, q)
      PROVE  TypeOK'
  BY <1>4 DEF Respawn
<1> QED
  BY <1>1, <1>2, <1>3, <1>4 DEF Next, Proceeds

(* The type invariant: whatever the processes do, each has a stage and the *)
(* memory holds one of the three things handleData tells apart.            *)
THEOREM TypeCorrect == Spec => []TypeOK
  BY InitType, TypeStep, PTL DEF Spec

-----------------------------------------------------------------------------
(* What a step does to the owners and to those that write a note. *)

(* A process enters the segment's life by creating it. *)
LEMMA CreateOwns ==
  ASSUME TypeOK, NEW p \in Process, Create(p)
  PROVE  Owners' = Owners \cup {p} /\ Noting' = Noting
  BY DEF TypeOK, Create, Enters, Owners, Noting

(* What the owner does until main has ended leaves it the owner, and a     *)
(* process that is not attached is none.                                   *)
LEMMA OwnersStay ==
  ASSUME TypeOK, NEW p \in Process,
         \/ Start(p) \/ Find(p) \/ WriteFirst(p) \/ FailNote(p) \/ Notice(p)
         \/ Exit(p, FALSE) \/ Exit(p, TRUE) \/ \E q \in Process : Respawn(p, q)
  PROVE  Owners' = Owners /\ Noting' = Noting /\ segment' = segment
<1>1. CASE Notice(p)
  BY <1>1 DEF Notice, Owners, Noting
<1>2. CASE Start(p) \/ Find(p) \/ FailNote(p)
  BY <1>2 DEF TypeOK, Start, Find, FailNote, Enters, Owners, Noting
<1>3. CASE WriteFirst(p)
  BY <1>3 DEF TypeOK, WriteFirst, Enters, Owners, Noting
<1>4. CASE Exit(p, FALSE) \/ Exit(p, TRUE)
  BY <1>4 DEF TypeOK, Exit, Enters, Owners, Noting
<1>5. ASSUME NEW q \in Process, Respawn(p, q)
      PROVE  Owners' = Owners /\ Noting' = Noting /\ segment' = segment
  BY <1>5 DEF TypeOK, Respawn, Owners, Noting
<1> QED
  BY <1>1, <1>2, <1>3, <1>4, <1>5

LEMMA NoteAttaches ==
  ASSUME TypeOK, NEW p \in Process, BeginNote(p)
  PROVE  Owners' = Owners /\ segment /\ segment'
  BY DEF TypeOK, BeginNote, Enters, Owners

(* One that was writing a note is no owner and goes. *)
LEMMA NoterGoes ==
  ASSUME TypeOK, NEW p \in Process, FinishNote(p)
  PROVE  Owners' = Owners /\ Attached' = Attached \ {p}
  BY DEF TypeOK, FinishNote, Dies, Owners, Noting, Attached

(* The owner goes, by returning from main or by a crash. *)
LEMMA OwnerGoes ==
  ASSUME TypeOK, NEW p \in Process, End(p) \/ Crash(p)
  PROVE  /\ p \in Owners
         /\ Owners' = Owners \ {p}
         /\ Attached' = Attached \ {p}
<1>1. stage[p] \in {"leaving", "running"} /\ stage' = [stage EXCEPT ![p] = "off"]
  BY DEF End, Crash, Dies, Enters
<1> QED
  BY <1>1 DEF TypeOK, Owners, Noting, Attached

(* The segment outlives whoever is attached to it. *)
LEMMA SegmentOutlives ==
  ASSUME IInv, NEW p \in Process, End(p) \/ Crash(p) \/ FinishNote(p)
  PROVE  HeldWhileAttached'
<1>1. Attached' = Attached \ {p}
  BY NoterGoes, OwnerGoes DEF IInv
<1>2. CASE End(p)
  BY <1>1, <1>2 DEF End, HeldWhileAttached
<1>3. CASE Crash(p) \/ FinishNote(p)
  <2>1. segment' = (segment /\ (FreedOnDeath => Attached \ {p} # {}))
    BY <1>3 DEF Crash, FinishNote, Dies
  <2> QED
    BY <1>1, <2>1 DEF IInv, HeldWhileAttached
<1> QED
  BY <1>2, <1>3

LEMMA IInvStep == IInv /\ [Next]_instanceVars => IInv'
<1> SUFFICES ASSUME IInv, [Next]_instanceVars PROVE IInv'
  OBVIOUS
<1>0. TypeOK /\ TypeOK'
  BY TypeStep DEF IInv
<1>1. CASE UNCHANGED instanceVars
  BY <1>0, <1>1 DEF instanceVars, IInv, AtMostOneOwner, HeldWhileAttached, Owners, Noting, Attached
<1>2. ASSUME NEW p \in Process,
             \/ Start(p) \/ Find(p) \/ WriteFirst(p) \/ FailNote(p) \/ Notice(p)
             \/ Exit(p, FALSE) \/ Exit(p, TRUE) \/ \E q \in Process : Respawn(p, q)
      PROVE  IInv'
  BY <1>0, <1>2, OwnersStay DEF IInv, AtMostOneOwner, HeldWhileAttached, Attached
<1>3. ASSUME NEW p \in Process, Create(p) PROVE IInv'
  <2>1. Attached = {} /\ segment'
    BY <1>3 DEF Create, IInv, HeldWhileAttached, TypeOK
  <2> QED
    BY <1>0, <1>3, <2>1, CreateOwns DEF IInv, AtMostOneOwner, HeldWhileAttached, Attached
<1>4. ASSUME NEW p \in Process, BeginNote(p) PROVE IInv'
  BY <1>0, <1>4, NoteAttaches DEF IInv, AtMostOneOwner, HeldWhileAttached
<1>5. ASSUME NEW p \in Process, FinishNote(p) PROVE IInv'
  BY <1>0, <1>5, NoterGoes, SegmentOutlives DEF IInv, AtMostOneOwner
<1>6. ASSUME NEW p \in Process, End(p) \/ Crash(p) PROVE IInv'
  BY <1>0, <1>6, OwnerGoes, SegmentOutlives DEF IInv, AtMostOneOwner
<1> QED
  BY <1>1, <1>2, <1>3, <1>4, <1>5, <1>6 DEF Next, Proceeds

LEMMA InvariantHolds == Spec => []IInv
<1>1. Init => IInv
  BY InitType DEF Init, IInv, AtMostOneOwner, HeldWhileAttached, Owners, Noting, Attached
<1> QED
  BY <1>1, IInvStep, PTL DEF Spec

-----------------------------------------------------------------------------
(* The processes implement one instance: creating the segment takes the    *)
(* program, the end of main or a crash gives it up, and no other step      *)
(* changes who has it, whatever the system does with the memory of the     *)
(* dead.                                                                   *)
THEOREM SingleInstanceIsOne == Spec => IsOneInstance
<1>1. Init => One!Init
  BY DEF Init, One!Init, Owners
<1>2. IInv /\ [Next]_instanceVars => [One!Next]_Owners
  <2> SUFFICES ASSUME IInv, [Next]_instanceVars PROVE [One!Next]_Owners
    OBVIOUS
  <2>0. TypeOK
    BY DEF IInv
  <2>1. CASE UNCHANGED instanceVars
    BY <2>1 DEF instanceVars, Owners
  <2>2. ASSUME NEW p \in Process,
               \/ Start(p) \/ Find(p) \/ WriteFirst(p) \/ FailNote(p) \/ Notice(p)
               \/ Exit(p, FALSE) \/ Exit(p, TRUE) \/ \E q \in Process : Respawn(p, q)
        PROVE  Owners' = Owners
    BY <2>0, <2>2, OwnersStay
  <2>3. ASSUME NEW p \in Process, Create(p) PROVE One!Take(p)
    <3>1. Owners = {}
      BY <2>3 DEF Create, IInv, HeldWhileAttached, Attached, TypeOK
    <3> QED
      BY <2>0, <2>3, <3>1, CreateOwns DEF One!Take
  <2>4. ASSUME NEW p \in Process, BeginNote(p) \/ FinishNote(p) PROVE Owners' = Owners
    BY <2>0, <2>4, NoteAttaches, NoterGoes
  <2>5. ASSUME NEW p \in Process, End(p) \/ Crash(p) PROVE One!GiveUp(p)
    <3>1. Owners = {p}
      BY <2>0, <2>5, OwnerGoes DEF IInv, AtMostOneOwner
    <3> QED
      BY <2>0, <2>5, <3>1, OwnerGoes DEF One!GiveUp
  <2> QED
    BY <2>1, <2>2, <2>3, <2>4, <2>5 DEF Next, Proceeds, One!Next
<1> QED
  BY <1>1, <1>2, InvariantHolds, PTL DEF Spec, IsOneInstance, One!Spec

-----------------------------------------------------------------------------
(* The application *)

ThemeKept == settings.theme \in {Unset, darkMode}

Shows == AppearanceTypeOK /\ ThemeKept

AInv == ApplicationTypeOK /\ ThemeKept

-----------------------------------------------------------------------------
(* What the window and the settings do, apart from the processes. *)

LEMMA SetThemeKeeps ==
  ASSUME Shows, NEW theme \in Theme, SetTheme(theme)
  PROVE  /\ darkMode' \in Theme
         /\ {settings', file'} \subseteq Settings
         /\ locale' = locale
         /\ ThemeKept'
  BY DEF Shows, AppearanceTypeOK, ThemeKept, SetTheme, Settings, Theme

LEMMA LoadShows == ASSUME Shows, Load PROVE Shows'
<1>1. SavedTheme \in Theme /\ (SavedTheme = "system" => file.theme = "system")
  BY DEF Shows, AppearanceTypeOK, SavedTheme, Settings, Theme
<1> QED
  BY <1>1 DEF Shows, AppearanceTypeOK, ThemeKept, Load, Settings, Theme

LEMMA EndShows == ASSUME Shows, Quit \/ Lose PROVE Shows'
  BY DEF Shows, AppearanceTypeOK, ThemeKept, Quit, Lose, Vanish

LEMMA PagesShow ==
  ASSUME Shows, UsePages
  PROVE  Shows'
<1>1. ASSUME NEW theme \in Theme, ChooseTheme(theme) PROVE Shows'
  <2>1. SetTheme(theme) /\ UNCHANGED <<windowVars, systemDark, reveal>>
    BY <1>1 DEF ChooseTheme
  <2> QED
    BY <2>1, SetThemeKeeps DEF Shows, AppearanceTypeOK, windowVars
<1>2. ASSUME NEW name \in Locale, ChooseLocale(name) PROVE Shows'
  BY <1>2 DEF ChooseLocale, Shows, AppearanceTypeOK, ThemeKept, Settings, themeVars
<1>3. CASE UNCHANGED appearanceVars
  BY <1>3 DEF Shows, AppearanceTypeOK, ThemeKept, appearanceVars, windowVars, themeVars, storeVars
<1> QED
  BY <1>1, <1>2, <1>3 DEF UsePages

LEMMA WindowShows ==
  ASSUME Shows, UseWindow
  PROVE  Shows'
<1> USE DEF Shows, AppearanceTypeOK, ThemeKept, windowVars, themeVars, storeVars
<1>1. CASE PressDark \/ CloseWindow \/ ShowWindow
  BY <1>1 DEF PressDark, CloseWindow, ShowWindow
<1>2. CASE Minimise \/ \E dialog \in {"close", "restart"} : Decline(dialog)
  BY <1>2 DEF Minimise, Decline, Answer
<1> QED
  BY <1>1, <1>2 DEF UseWindow

LEMMA LoopShows ==
  ASSUME Shows, Animate \/ SaveSettings \/ SystemChanges
  PROVE  Shows'
<1>1. CASE Grab
  <2>1. PICK theme \in Theme : SetTheme(theme)
    BY <1>1 DEF Grab, Theme
  <2>2. UNCHANGED <<windowVars, systemDark>> /\ reveal' = "moving"
    BY <1>1 DEF Grab
  <2> QED
    BY <2>1, <2>2, SetThemeKeeps DEF Shows, AppearanceTypeOK, windowVars
<1>2. CASE FinishReveal \/ Sync \/ SystemTurns
  BY <1>2 DEF FinishReveal, Sync, SystemTurns, Shows, AppearanceTypeOK, ThemeKept,
     windowVars, themeVars, storeVars
<1> QED
  BY <1>1, <1>2 DEF Animate, SaveSettings, SystemChanges

-----------------------------------------------------------------------------
(* Every step of the application is one of the processes or leaves them    *)
(* alone.                                                                  *)
LEMMA StepOfProcesses == [NextApplication]_vars => [Next]_instanceVars
<1>1. UNCHANGED vars => UNCHANGED instanceVars
  BY DEF vars
<1>2. Interact \/ SystemChanges => UNCHANGED instanceVars
  BY DEF Interact, SystemChanges
<1>3. ASSUME NEW p \in Process, Launch(p) \/ Begin(p) \/ Activate(p) \/ Leave(p) \/ Restart(p) \/ Break(p)
      PROVE  Next
  BY <1>3 DEF Launch, Begin, Activate, Leave, Restart, Break, Next
<1> QED
  BY <1>1, <1>2, <1>3 DEF NextApplication

LEMMA ApplicationImplementsProcesses == ApplicationSpec => Spec
<1>1. InitApplication => Init
  BY DEF InitApplication
<1> QED
  BY <1>1, StepOfProcesses, PTL DEF ApplicationSpec, Spec

(* The application is one process at a time, whatever its window does.     *)
THEOREM ApplicationIsOneInstance == ApplicationSpec => IsOneInstance
  BY ApplicationImplementsProcesses, SingleInstanceIsOne, PTL

-----------------------------------------------------------------------------
LEMMA StepShows ==
  ASSUME Shows, [NextApplication]_vars
  PROVE  Shows'
<1>1. CASE UNCHANGED vars
  BY <1>1 DEF vars, uiVars, appearanceVars, windowVars, themeVars, storeVars,
     Shows, AppearanceTypeOK, ThemeKept
<1>2. ASSUME NEW p \in Process, Launch(p) PROVE Shows'
  BY <1>2 DEF Launch, uiVars, appearanceVars, windowVars, themeVars, storeVars,
     Shows, AppearanceTypeOK, ThemeKept
<1>3. ASSUME NEW p \in Process, Begin(p) PROVE Shows'
  BY <1>3, LoadShows DEF Begin
<1>4. ASSUME NEW p \in Process, Activate(p) PROVE Shows'
  BY <1>4 DEF Activate, ShowWindow, Shows, AppearanceTypeOK, ThemeKept, themeVars, storeVars
<1>5. ASSUME NEW p \in Process, Leave(p) \/ Restart(p) \/ Break(p) PROVE Shows'
  BY <1>5, EndShows DEF Leave, Restart, Break
<1>6. CASE Interact \/ SystemChanges
  BY <1>6, PagesShow, WindowShows, LoopShows DEF Interact
<1> QED
  BY <1>1, <1>2, <1>3, <1>4, <1>5, <1>6 DEF NextApplication

LEMMA StepOnScreens ==
  ASSUME ScreensTypeOK, [NextApplication]_vars
  PROVE  ScreensTypeOK'
<1> USE DEF ScreensTypeOK, screenVars
<1>1. CASE UNCHANGED screenVars
  BY <1>1
<1>2. CASE UseScreens
  BY <1>2 DEF UseScreens, OpenProject, GoBack, OpenFileScreen, LeaveFileScreen, TapPage, GoTo
<1>3. ASSUME NEW p \in Process, Begin(p) PROVE ScreensTypeOK'
  BY <1>3 DEF Begin
<1>4. [NextApplication]_vars =>
        UNCHANGED screenVars \/ UseScreens \/ \E p \in Process : Begin(p)
  BY DEF NextApplication, vars, uiVars, Launch, Activate, Leave, Restart, Break, Interact,
     SystemChanges, UsePages, UseWindow, Animate, SaveSettings
<1> QED
  BY <1>1, <1>2, <1>3, <1>4

LEMMA AInvHolds == ApplicationSpec => []AInv
<1>1. InitApplication => AInv
  <2> SUFFICES ASSUME InitApplication PROVE AInv
    OBVIOUS
  <2>1. TypeOK /\ ScreensTypeOK
    BY InitType DEF InitApplication, InitScreens, ScreensTypeOK
  <2>2. settings \in Settings /\ file = settings /\ settings.theme = Unset
    BY DEF InitApplication, InitAppearance, Settings
  <2>3. /\ shown \in BOOLEAN /\ dialogs = {} /\ darkMode \in Theme /\ systemDark \in BOOLEAN
        /\ reveal \in {"none", "waiting", "moving"} /\ locale = SystemLocale
    BY DEF InitApplication, InitAppearance, Theme
  <2> QED
    BY <2>1, <2>2, <2>3 DEF AInv, ApplicationTypeOK, AppearanceTypeOK, ThemeKept
<1>2. AInv /\ [NextApplication]_vars => AInv'
  <2> SUFFICES ASSUME AInv, [NextApplication]_vars PROVE AInv'
    OBVIOUS
  <2>1. TypeOK'
    BY TypeStep, StepOfProcesses DEF AInv, ApplicationTypeOK
  <2> QED
    BY <2>1, StepShows, StepOnScreens DEF AInv, ApplicationTypeOK, Shows
<1> QED
  BY <1>1, <1>2, PTL DEF ApplicationSpec

(* The type invariant: for any locales and processes, no handler leaves a  *)
(* setting, a dialog or a screen that the program does not know.           *)
THEOREM ApplicationTypeCorrect == ApplicationSpec => []ApplicationTypeOK
<1>1. AInv => ApplicationTypeOK
  BY DEF AInv
<1> QED
  BY <1>1, AInvHolds, PTL

-----------------------------------------------------------------------------
(* Only Begin makes a process run. *)
LEMMA OnlyBeginRuns ==
  ASSUME ApplicationTypeOK, [NextApplication]_vars, Running = {}, Running' # {}
  PROVE  \E p \in Process : Begin(p)
<1> USE DEF ApplicationTypeOK, TypeOK, Running
<1>1. ASSUME UNCHANGED stage PROVE FALSE
  BY <1>1
<1>2. ASSUME NEW p \in Process, NEW to \in Stage \ {"running"}, stage' = [stage EXCEPT ![p] = to]
      PROVE  FALSE
  BY <1>2
<1>3. ASSUME NEW p \in Process, Start(p) \/ Proceeds(p) \/ Crash(p) PROVE FALSE
  <2>1. ASSUME NEW q \in Process, Respawn(p, q) PROVE FALSE
    BY <2>1 DEF Respawn
  <2>2. CASE Start(p)
    BY <2>2, <1>2 DEF Start, Enters, Stage
  <2>3. CASE Create(p) \/ Find(p) \/ BeginNote(p)
    BY <2>3, <1>2 DEF Create, Find, BeginNote, Enters, Stage
  <2>4. CASE FailNote(p) \/ FinishNote(p) \/ End(p) \/ Crash(p)
    BY <2>4, <1>2 DEF FailNote, FinishNote, End, Crash, Dies, Enters, Stage
  <2> QED
    BY <1>3, <2>1, <2>2, <2>3, <2>4 DEF Proceeds
<1>4. ASSUME NEW p \in Process, Activate(p) \/ Leave(p) \/ Restart(p) PROVE FALSE
  BY <1>4 DEF Activate, Notice, Leave, Restart, Exit, Enters
<1> QED
  BY <1>1, <1>3, <1>4 DEF NextApplication, vars, instanceVars, Launch, Break, Interact, SystemChanges

(* The program starts with the theme it had when it last ran, for any      *)
(* number of processes that race for the start.                            *)
THEOREM ThemeIsKept == ApplicationSpec => ThemeSurvives
<1>1. AInv /\ [NextApplication]_vars =>
        [Running = {} /\ Running' # {} /\ file.theme # Unset
           => darkMode' = darkMode \/ file # settings]_vars
  <2> SUFFICES ASSUME AInv, [NextApplication]_vars, Running = {}, Running' # {},
                      file.theme # Unset, file = settings
               PROVE  darkMode' = darkMode
    OBVIOUS
  <2>1. PICK p \in Process : Begin(p)
    BY OnlyBeginRuns DEF AInv
  <2>2. darkMode' = file.theme
    BY <2>1 DEF Begin, Load, SavedTheme
  <2> QED
    BY <2>2 DEF AInv, ThemeKept
<1> QED
  BY <1>1, AInvHolds, PTL DEF ApplicationSpec, ThemeSurvives
=============================================================================
