---------------------------- MODULE MCImportObs ----------------------------
(* Two files and two stations.  Six keys are enough to list two files, or  *)
(* one file and three new stations, and few enough to run out.             *)
EXTENDS ImportObs, TLC

CONSTANTS fileA, fileB, siteA, siteB

Keys == 1 .. 6
Files == {fileA, fileB}
Sites == {siteA, siteB}
Suggested(f) == IF f = fileA THEN siteA ELSE siteB
=============================================================================
