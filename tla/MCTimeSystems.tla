--------------------------- MODULE MCTimeSystems ---------------------------
(***************************************************************************)
(* The tables of x_time.h, and windows around every place where a leap     *)
(* second, a day, a week or the epoch of GPS begins.                       *)
(***************************************************************************)
EXTENDS TimeSystems

Table == <<
    46828800, 78364801, 109900802, 173059203, 252028804, 315187205,
    346723206, 393984007, 425520008, 457056009, 504489610, 551750411,
    599184012, 820108813, 914803214, 1025136015, 1119744016, 1167264017>>

Offsets == [GPS |-> 315964800, BDS |-> 1356000000, Galileo |-> 315964800, GLONASS |-> 10800]

Dates == {
    362793600, 394329600, 425865600, 489024000, 567993600, 631152000,
    662688000, 709948800, 741484800, 773020800, 820454400, 867715200,
    915148800, 1136073600, 1230768000, 1341100800, 1435708800, 1483228800}

Around(t, d) == t - d .. t + d

Windows ==
  {Around(t, 20) : t \in {Table[i] : i \in DOMAIN Table} \cup {LastDate}}
  \cup {Around(t, 2) : t \in Dates \ {LastDate}}
  \cup {Around(t, 20) : t \in {Epoch, Epoch - 86400 * 2, Epoch + 604800, Epoch + 86400 * 1000, 1735689600, 1735948800}}

Zones == {-5, 0, 8}
=============================================================================
