--------------------------- MODULE MCApplication ---------------------------
(* Two processes, on a system that frees the segment of a process that     *)
(* dies.                                                                   *)
EXTENDS Application

CONSTANTS p1, p2, en_US, zh_CN
Processes == {p1, p2}
=============================================================================
