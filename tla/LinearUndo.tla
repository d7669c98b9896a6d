----------------------------- MODULE LinearUndo -----------------------------
(***************************************************************************)
(* What the Invoker of NavCore (Command_Pattern.h) promises: the states    *)
(* of the document form a line.  A commit cuts off what lies ahead and     *)
(* adds a state, undo and redo walk back and forth over the states that    *)
(* were really there.  A command that throws out of undo or redo breaks    *)
(* the line, and nothing is promised from then on.                         *)
(***************************************************************************)
EXTENDS Sequences, SequencesExt

CONSTANTS Document, EmptyDocument

VARIABLES
  past,     \* the documents that undo goes back to, the next one last
  present,  \* the document
  future,   \* the documents that redo goes forward to, the next one last
  broken    \* an undo or redo has thrown

vars == <<past, present, future, broken>>

Init ==
  /\ past = <<>>
  /\ present = EmptyDocument
  /\ future = <<>>
  /\ broken = FALSE

Commit ==
  /\ past' = Append(past, present)
  /\ present' \in Document
  /\ future' = <<>>
  /\ broken' = broken

Undo ==
  /\ past # <<>>
  /\ past' = Front(past)
  /\ present' = Last(past)
  /\ future' = Append(future, present)
  /\ broken' = broken

Redo ==
  /\ future # <<>>
  /\ past' = Append(past, present)
  /\ present' = Last(future)
  /\ future' = Front(future)
  /\ broken' = broken

(* Also every step after the first break. *)
Break == broken' = TRUE

Next == Commit \/ Undo \/ Redo \/ Break

Spec == Init /\ [][Next]_vars
=============================================================================
