--------------------------- MODULE SingleInstance ---------------------------
(***************************************************************************)
(* The processes of the program: rely/FluentUI/impl/StarterImpl.cpp keeps  *)
(* one of them running, with a segment of shared memory that the first one *)
(* creates.  A process that finds the segment leaves a note in it and      *)
(* exits; the first one looks at the note with every tick of a timer and   *)
(* shows its window.  A process that is told to restart starts the next    *)
(* one when its event loop has returned (app/NavPost/src/main.cpp).        *)
(*                                                                         *)
(* Qt: creating the segment is atomic; lock is a semaphore that is kept    *)
(* with it; a segment is removed when the last process detaches from it.   *)
(* On Unix only an orderly end detaches so: std::exit and a crash leave    *)
(* the segment behind, where Windows frees it with the last handle.        *)
(***************************************************************************)
CONSTANTS
  Process,     \* the processes that are there at a time
  FreedOnDeath \* the system frees the segment with the last process

ASSUME DeathAssumption == FreedOnDeath \in BOOLEAN

VARIABLES
  stage,    \* how far each process has come
  segment,  \* the shared memory is there
  note,     \* what it holds: zeros, what the first one has seen, or news
  sawZeros  \* m_data of the first one is empty: what it saw last was no note

instanceVars == <<stage, segment, note, sawZeros>>

Stage == {"off", "starting", "created", "running", "restarting", "leaving",
          "found", "noting"}

Init ==
  /\ stage = [p \in Process |-> "off"]
  /\ segment = FALSE
  /\ note = "zeros"
  /\ sawZeros = FALSE

-----------------------------------------------------------------------------
(* The process that created the segment, until it has ended. *)
Owners == {p \in Process : stage[p] \in {"created", "running", "restarting", "leaving"}}

Running == {p \in Process : stage[p] = "running"}

(* A note is written with the lock held. *)
Noting == {p \in Process : stage[p] = "noting"}

Attached == Owners \cup Noting

Enters(p, from, to) == stage[p] = from /\ stage' = [stage EXCEPT ![p] = to]

(* A process that does not end main: the system closes what it has open. *)
Dies(p) ==
  /\ stage' = [stage EXCEPT ![p] = "off"]
  /\ segment' = (segment /\ (FreedOnDeath => Attached \ {p} # {}))

-----------------------------------------------------------------------------
(* Starting *)

Start(p) == Enters(p, "off", "starting") /\ UNCHANGED <<segment, note, sawZeros>>

(* Mutant: the segment is looked for before it is created. *)
CreateUnlessFirstRuns(p) ==
  /\ Running = {}
  /\ Enters(p, "starting", "created")
  /\ segment' = TRUE
  /\ note' = "zeros"
  /\ UNCHANGED sawZeros

(* m_sharedMemory.create(1024) *)
Create(p) ==
  /\ ~segment
  /\ Enters(p, "starting", "created")
  /\ segment' = TRUE
  /\ note' = "zeros"
  /\ UNCHANGED sawZeros

Find(p) ==
  /\ segment
  /\ Enters(p, "starting", "found")
  /\ UNCHANGED <<segment, note, sawZeros>>

(* writeData of the first process, and its timer.  What another one has    *)
(* noted since the segment was created is overwritten.                     *)
WriteFirst(p) ==
  /\ Noting = {}
  /\ Enters(p, "created", "running")
  /\ note' = "seen"
  /\ sawZeros' = FALSE
  /\ UNCHANGED segment

(* writeData of another process: it has the lock and has zeroed the memory. *)
BeginNote(p) ==
  /\ segment /\ Noting = {}
  /\ Enters(p, "found", "noting")
  /\ note' = "zeros"
  /\ UNCHANGED <<segment, sawZeros>>

(* The segment has gone since: attach and lock fail, data() is null. *)
FailNote(p) ==
  /\ ~segment
  /\ Enters(p, "found", "off")
  /\ UNCHANGED <<segment, note, sawZeros>>

(* The note is complete, the lock released; std::exit(0). *)
FinishNote(p) ==
  /\ stage[p] = "noting"
  /\ note' = "new"
  /\ Dies(p)
  /\ UNCHANGED sawZeros

-----------------------------------------------------------------------------
(* Running *)

(* Mutant: nothing is compared with an m_data that is empty. *)
NewsAfterNote == ~sawZeros /\ note # "seen"

(* The timestamp of what is there differs from that of m_data. *)
News == note = "new" \/ (note = "zeros" /\ ~sawZeros)

(* handleData finds news.  It takes the lock to get the address and has    *)
(* released it when it reads, so that a note may be half-way written.      *)
Notice(p) ==
  /\ stage[p] = "running"
  /\ News
  /\ note' = IF note = "new" THEN "seen" ELSE note
  /\ sawZeros' = (note = "zeros")
  /\ UNCHANGED <<stage, segment>>

(* WindowRouter.exit, and exec returns: with 931 the program is to come    *)
(* back.                                                                   *)
Exit(p, restart) ==
  /\ Enters(p, "running", IF restart THEN "restarting" ELSE "leaving")
  /\ UNCHANGED <<segment, note, sawZeros>>

(* Mutant: main returns without starting the next process. *)
LeaveOnly(p, q) ==
  /\ stage[q] = "off"
  /\ Enters(p, "restarting", "leaving")
  /\ UNCHANGED <<segment, note, sawZeros>>

(* QProcess::startDetached *)
Respawn(p, q) ==
  /\ stage[p] = "restarting" /\ stage[q] = "off"
  /\ stage' = [stage EXCEPT ![p] = "leaving", ![q] = "starting"]
  /\ UNCHANGED <<segment, note, sawZeros>>

(* The end of main: the engine and what it owns are destroyed. *)
End(p) ==
  /\ Enters(p, "leaving", "off")
  /\ segment' = (Attached \ {p} # {})
  /\ UNCHANGED <<note, sawZeros>>

Crash(p) ==
  /\ stage[p] = "running"
  /\ Dies(p)
  /\ UNCHANGED <<note, sawZeros>>

-----------------------------------------------------------------------------
(* What a process does by itself, running apart. *)
Proceeds(p) ==
  \/ Create(p) \/ Find(p)
  \/ BeginNote(p) \/ FailNote(p) \/ FinishNote(p)
  \/ \E q \in Process : Respawn(p, q)
  \/ End(p)

Next == \E p \in Process :
  \/ Start(p) \/ Proceeds(p) \/ WriteFirst(p)
  \/ Notice(p) \/ Exit(p, FALSE) \/ Exit(p, TRUE) \/ Crash(p)

Spec == Init /\ [][Next]_instanceVars

-----------------------------------------------------------------------------
(* Properties *)

(* Type invariant. *)
TypeOK ==
  /\ stage \in [Process -> Stage]
  /\ segment \in BOOLEAN
  /\ note \in {"zeros", "seen", "new"}
  /\ sawZeros \in BOOLEAN

One == INSTANCE OneInstance WITH owners <- Owners

(* However starts, restarts, ends and crashes interleave, the program is   *)
(* one process, from the creation of the segment to the end of main: what  *)
(* checkApplication is for.                                                *)
IsOneInstance == One!Spec
=============================================================================
