-------------------------- MODULE MCCommandPattern --------------------------
(***************************************************************************)
(* Instance of CommandPattern for TLC.  The document is a permutation of   *)
(* three elements and a command permutes it further: the smallest group    *)
(* in which the order of two commands matters, so that a command undone    *)
(* twice, not at all or out of order shows in the document.                *)
(***************************************************************************)
EXTENDS CommandPattern, TLC

MCDocument == Permutations(1 .. 3)

Compose(f, g) == [i \in 1 .. 3 |-> f[g[i]]]

Identity == [i \in 1 .. 3 |-> i]

Swap == [i \in 1 .. 3 |-> IF i = 3 THEN 3 ELSE 3 - i]
Rotate == [i \in 1 .. 3 |-> (i % 3) + 1]

MCCommand == {Swap, Rotate}

MCExecuteOn(c, d) == Compose(c, d)
MCUndoOn(c, d) == CHOOSE e \in MCDocument : Compose(c, e) = d

Nothing == {}
OnlySwap == {Swap}
=============================================================================
