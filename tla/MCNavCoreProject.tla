-------------------------- MODULE MCNavCoreProject --------------------------
(***************************************************************************)
(* Instance of NavCoreProject: two complete projects, an object that names *)
(* only a UID and one that names nothing, as the demo program of the       *)
(* repository passes.  Only directory d2 has a project.json.               *)
(***************************************************************************)
EXTENDS NavCoreProject

CONSTANTS u1, u2, n1, n2, d1, d2

MCUid == {u1, u2}
MCName == {n1, n2}
MCPath == {d1, d2}

First == [UID |-> u1, name |-> n1, path |-> d1]
Second == [UID |-> u2, name |-> n2, path |-> d2]
OnlyUid == [UID |-> u2, name |-> Missing, path |-> Missing]
NoKeys == [UID |-> Missing, name |-> Missing, path |-> Missing]

MCInfo == {First, Second, OnlyUid, NoKeys}
MCProjectJson == [p \in MCPath |-> IF p = d2 THEN Second ELSE Nothing]
SecondFails == {d2}
=============================================================================
