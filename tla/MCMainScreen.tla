---------------------------- MODULE MCMainScreen ----------------------------
(* Three pages, the buttons of NavBar_Start.qml and NavBar_NET.qml that    *)
(* open them, one of the two sidebars, which are alike, and two tables.    *)
EXTENDS MainScreen

CONSTANTS blank, map, main, baseline, station, obsfile

Pages == {blank, map, Table}
Unknown == {main, baseline}
Buttons == {<<map>>, <<Table>>, <<main, baseline>>}
Lists == {station, obsfile}
Sides == {"right"}
Right == "right"
=============================================================================
