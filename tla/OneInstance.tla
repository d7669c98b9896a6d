---------------------------- MODULE OneInstance ----------------------------
(***************************************************************************)
(* What a program that is a single instance promises: of all processes     *)
(* that are started, one at a time has it, and it has to be given up       *)
(* before the next one gets it.                                            *)
(***************************************************************************)
CONSTANT Process

VARIABLE owners  \* the processes that have the program

Init == owners = {}

Take(p) == owners = {} /\ owners' = {p}

GiveUp(p) == owners = {p} /\ owners' = {}

Next == \E p \in Process : Take(p) \/ GiveUp(p)

Spec == Init /\ [][Next]_owners
=============================================================================
