---------------------------- MODULE TimeSystems ----------------------------
(***************************************************************************)
(* The time systems of src/core/NavCore/include/basic/x_time.h: leap       *)
(* seconds, the conversions between UTC and the time of a GNSS, and what   *)
(* class XTime makes of them.  Times are whole seconds; the fraction that  *)
(* XTime carries beside them takes no part in a conversion.                *)
(*                                                                         *)
(* The functions have no state.  The specification is a clock: an instant  *)
(* that goes on second by second inside a window, so that a step compares  *)
(* the conversions of one second with those of the next.                   *)
(***************************************************************************)
EXTENDS Integers, Sequences, FiniteSets

CONSTANTS
  LeapSeconds,  \* leapSeconds, the table
  TimeOffset,   \* timeOffsets, a function from the systems it has
  LeapDates,    \* the dates beside the table: the UTC seconds at which each
                \* leap second has just been inserted
  Window,       \* bound: the intervals of seconds that are looked at
  Zone          \* bound: offsets of time zones, in hours

Total == Len(LeapSeconds)

(* Leap seconds are further apart than there are any, on either scale. *)
ASSUME LeapSecondsAssumption ==
  /\ LeapSeconds \in Seq(Int)
  /\ Total > 0
  /\ \A i, j \in 1 .. Total : i < j => LeapSeconds[j] - LeapSeconds[i] > Total

ASSUME OffsetAssumption ==
  /\ TimeOffset \in [DOMAIN TimeOffset -> Int]
  /\ DOMAIN TimeOffset \cap {"TimeZone", "UTC", "NIL"} = {}
  /\ Zone \subseteq Int

(* The seconds of 1980-01-06, where GPS weeks start, a Sunday.  It is the   *)
(* offset of GPS and of Galileo.                                           *)
Epoch == 3657 * 86400

ASSUME EpochAssumption ==
  \A s \in {"GPS", "Galileo"} : s \in DOMAIN TimeOffset /\ TimeOffset[s] = Epoch

(* There is one date for each entry, and the last is past every entry.     *)
ASSUME DatesAssumption ==
  /\ Cardinality(LeapDates) = Total
  /\ \E d \in LeapDates : /\ d \in Int /\ d >= LeapSeconds[Total]
                          /\ \A e \in LeapDates \ {d} : e \in Int /\ e < d

LastDate == CHOOSE d \in LeapDates : \A e \in LeapDates : e <= d

ASSUME WindowAssumption == \A w \in Window : w \subseteq Int

GnssSystem == DOMAIN TimeOffset
TimeSystem == GnssSystem \cup {"TimeZone", "UTC", "NIL"}

VARIABLES
  instant,  \* a count of seconds, UTC or of a system without leap seconds
  window,   \* the interval it moves in
  system,   \* the time system asked for
  zone      \* the time zone asked for

vars == <<instant, window, system, zone>>

-----------------------------------------------------------------------------
(* calculateLeapSeconds; lastLeapSecond is the last entry of the table. *)
CalculateLeapSeconds(t) ==
  IF t > LeapSeconds[Total] THEN Total
  ELSE Cardinality({i \in 1 .. Total : LeapSeconds[i] <= t})

(* Mutant: the leap seconds are counted before the offset is applied. *)
CountedBeforeOffset(t, s, z) ==
  IF s \in GnssSystem THEN t + TimeOffset[s] - CalculateLeapSeconds(t)
  ELSE IF s = "TimeZone" THEN t - z * 3600
  ELSE t

(* Mutant: only the offset is applied. *)
LeapForgotten(t, s, z) ==
  IF s \in GnssSystem THEN t + TimeOffset[s]
  ELSE IF s = "TimeZone" THEN t - z * 3600
  ELSE t

(* time2utc *)
Time2Utc(t, s, z) ==
  IF s \in GnssSystem
    THEN LET utc == t + TimeOffset[s] IN utc - CalculateLeapSeconds(utc)
  ELSE IF s = "TimeZone" THEN t - z * 3600
  ELSE t

(* Mutant: the leap seconds are subtracted in both directions. *)
LeapSubtracted(utc, s, z) ==
  IF s \in GnssSystem THEN utc - TimeOffset[s] - CalculateLeapSeconds(utc)
  ELSE IF s = "TimeZone" THEN utc + z * 3600
  ELSE utc

(* utc2time *)
Utc2Time(utc, s, z) ==
  IF s \in GnssSystem THEN utc - TimeOffset[s] + CalculateLeapSeconds(utc)
  ELSE IF s = "TimeZone" THEN utc + z * 3600
  ELSE utc

-----------------------------------------------------------------------------
(* Class XTime.  Its constructor passes no time zone on. *)

XTime(t, s) == [utc |-> Time2Utc(t, s, 0), invalid |-> s = "NIL"]

(* GNSS: whatever the system is, the value is labelled UTC. *)
Gnss(x, s) ==
  IF x.invalid THEN [type |-> "NIL", time |-> 0]
  ELSE [type |-> "UTC", time |-> Utc2Time(x.utc, s, 0)]

(* Division in C++ truncates towards zero. *)
Quotient(a, b) == IF a >= 0 THEN a \div b ELSE -((-a) \div b)

(* The last week whose seconds fit an int, it ends in 2048. *)
LastWeek == 2147483647 \div 604800

(* time.week * 86400 * 7, an int: no one knows what an overflow gives. *)
SecondsOf(week) ==
  IF week \in -LastWeek .. LastWeek THEN week * 86400 * 7 ELSE CHOOSE n : n \in Int

(* Mutant: the weeks and seconds of UTC. *)
WeekOfUtc(x) ==
  LET t == x.utc - TimeOffset["GPS"]
      week == Quotient(t, 86400 * 7)
      sec == t - SecondsOf(week)
      day == Quotient(sec, 86400)
  IN  [week |-> week, sec |-> sec, day |-> IF day \in 0 .. 6 THEN day ELSE 7]

(* Mutant: no day is Invalid. *)
WeekUnchecked(x) ==
  LET t == Utc2Time(x.utc, "GPS", 0)
      week == Quotient(t, 86400 * 7)
      sec == t - SecondsOf(week)
  IN  [week |-> week, sec |-> sec, day |-> Quotient(sec, 86400)]

(* Week, of a valid object: the day is an enumerator, Sunday = 0, or       *)
(* Invalid = 7.                                                            *)
Week(x) ==
  LET t == Utc2Time(x.utc, "GPS", 0)
      week == Quotient(t, 86400 * 7)
      sec == t - SecondsOf(week)
      day == Quotient(sec, 86400)
  IN  [week |-> week, sec |-> sec, day |-> IF day \in 0 .. 6 THEN day ELSE 7]

-----------------------------------------------------------------------------
Init ==
  /\ window \in Window
  /\ instant \in {t \in window : t - 1 \notin window}
  /\ system \in TimeSystem
  /\ zone \in IF system = "TimeZone" THEN Zone ELSE {0}

Next ==
  /\ instant + 1 \in window
  /\ instant' = instant + 1
  /\ UNCHANGED <<window, system, zone>>

Spec == Init /\ [][Next]_vars

-----------------------------------------------------------------------------
(* Properties *)

(* Type invariant; the day of the week is an enumerator at any time. *)
TypeOK ==
  /\ window \in Window
  /\ instant \in window
  /\ system \in TimeSystem
  /\ zone \in Zone \cup {0}
  /\ Week(XTime(instant, "UTC")) \in [week : Int, sec : Int, day : 0 .. 7]

(* The instant as a clock of the system shows it that knows no leap        *)
(* seconds, and as UTC from such a clock.                                  *)
Shift == IF system \in GnssSystem THEN -TimeOffset[system]
         ELSE IF system = "TimeZone" THEN zone * 3600
         ELSE 0

FromUtc(utc) == Utc2Time(utc, system, zone)
ToUtc(t) == Time2Utc(t, system, zone)

(* A leap second is inserted within the Total seconds on either side. *)
NearLeap(t) == \E i \in 1 .. Total : t - Total < LeapSeconds[i] /\ LeapSeconds[i] <= t + Total

(* The two conversions count the leap seconds at different places: one on  *)
(* a time that has them still in it.  They are inverse to one another all  *)
(* the same, but for a second next to an insertion.                        *)
ConversionsInvert ==
  LET there == FromUtc(ToUtc(instant + Shift)) - (instant + Shift)
      back == ToUtc(FromUtc(instant)) - instant
  IN  /\ there \in {-1, 0}
      /\ back \in {-1, 0}
      /\ ~NearLeap(instant) => there = 0 /\ back = 0

(* A second later is a second later in every system, but for a leap second *)
(* in between, which is one more second of the system and one less of UTC. *)
(* No later time is converted into an earlier one.                         *)
OrderIsKept ==
  [][/\ FromUtc(instant') - FromUtc(instant) \in {1, 2}
     /\ ToUtc(instant' + Shift) - ToUtc(instant + Shift) \in {0, 1}
     /\ ~NearLeap(instant) => /\ FromUtc(instant') - FromUtc(instant) = 1
                              /\ ToUtc(instant' + Shift) - ToUtc(instant + Shift) = 1]_vars

(* calculateLeapSeconds counts the leap seconds before a time: it is       *)
(* called with UTC, and the table says at which UTC date each was.         *)
LeapSecondsAreCounted ==
  CalculateLeapSeconds(instant) = Cardinality({d \in LeapDates : d <= instant})

(* From the last leap second on, GPS time is what its definition says:     *)
(* the seconds since its epoch and the leap seconds inserted by then.      *)
GpsIsRightSinceLastDate ==
  instant >= LastDate /\ system \in {"GPS", "Galileo"} =>
    /\ Gnss(XTime(instant, "UTC"), system).time = instant - Epoch + Cardinality(LeapDates)
    /\ XTime(instant - Epoch + Cardinality(LeapDates), system) = XTime(instant, "UTC")

(* Week and day of the week together count the days since the epoch, for   *)
(* every time from the epoch to the end of LastWeek; before it no day of   *)
(* the week is promised, after it the seconds overflow.                    *)
WeekCountsDays ==
  LET w == Week(XTime(instant, "UTC"))
      days == (instant + CalculateLeapSeconds(instant)) \div 86400
  IN  instant >= Epoch /\ days - 3657 < 7 * (LastWeek + 1) =>
        /\ 7 * w.week + w.day = days - 3657
        /\ w.day = (days + 4) % 7
        /\ w.sec \in 86400 * w.day .. 86400 * w.day + 86399
=============================================================================
