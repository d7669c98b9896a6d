------------------------- MODULE TimeSystemsProofs -------------------------
(***************************************************************************)
(* What the conversions of x_time.h do for every table of leap seconds     *)
(* that are further apart than there are any, for every offset and at      *)
(* every instant.                                                          *)
(*                                                                         *)
(* That the conversions are inverse and monotonic needs nothing of where   *)
(* the table counts from.  Weeks need the offset of GPS to be a Sunday     *)
(* (EpochAssumption), and the time of GPS is right from the last date on   *)
(* because every entry of the table is before it (DatesAssumption).        *)
(***************************************************************************)
EXTENDS TimeSystems, FiniteSetTheorems, TLAPS

-----------------------------------------------------------------------------
(* Counting leap seconds *)

Counted(t) == {i \in 1 .. Total : LeapSeconds[i] <= t}

LEMMA TableFacts ==
  /\ Total \in Nat \ {0}
  /\ \A i \in 1 .. Total : LeapSeconds[i] \in Int
  /\ \A i \in 1 .. Total : LeapSeconds[i] <= LeapSeconds[Total]
<1>1. /\ Total \in Nat \ {0}
      /\ \A i \in 1 .. Total : LeapSeconds[i] \in Int
  BY LeapSecondsAssumption DEF Total
<1>2. ASSUME NEW i \in 1 .. Total
      PROVE  LeapSeconds[i] <= LeapSeconds[Total]
  <2>1. CASE i = Total
    BY <2>1, <1>1
  <2>2. CASE i < Total
    <3>1. LeapSeconds[Total] - LeapSeconds[i] > Total
      BY <2>2, <1>1, LeapSecondsAssumption
    <3> QED
      BY <3>1, <1>1
  <2> QED
    BY <2>1, <2>2, <1>1
<1> QED
  BY <1>1, <1>2

LEMMA CountedIsFinite ==
  ASSUME NEW t \in Int
  PROVE  IsFiniteSet(Counted(t)) /\ Cardinality(Counted(t)) \in 0 .. Total
<1>1. IsFiniteSet(1 .. Total) /\ Cardinality(1 .. Total) = Total
  BY FS_Interval, TableFacts
<1>2. Counted(t) \in SUBSET (1 .. Total)
  BY DEF Counted
<1>3. IsFiniteSet(Counted(t)) /\ Cardinality(Counted(t)) <= Total
  BY <1>1, <1>2, FS_Subset
<1> QED
  BY <1>3, FS_CardinalityType, TableFacts

(* The test against the last entry changes nothing. *)
LEMMA CalculateIsCount ==
  ASSUME NEW t \in Int
  PROVE  /\ CalculateLeapSeconds(t) = Cardinality(Counted(t))
         /\ CalculateLeapSeconds(t) \in 0 .. Total
<1>1. CASE t > LeapSeconds[Total]
  <2>1. Counted(t) = 1 .. Total
    BY <1>1, TableFacts DEF Counted
  <2>2. Cardinality(1 .. Total) = Total
    BY FS_Interval, TableFacts
  <2> QED
    BY <1>1, <2>1, <2>2, TableFacts DEF CalculateLeapSeconds
<1>2. CASE ~(t > LeapSeconds[Total])
  BY <1>2, CountedIsFinite DEF CalculateLeapSeconds, Counted
<1> QED
  BY <1>1, <1>2

(* From a time to another at most Total seconds later no leap second or    *)
(* one is added to the count; one only if it lies between them.            *)
LEMMA CountStep ==
  ASSUME NEW t \in Int, NEW u \in Int, t <= u, u - t <= Total
  PROVE  /\ CalculateLeapSeconds(u) - CalculateLeapSeconds(t) \in {0, 1}
         /\ (\A i \in 1 .. Total : ~(t < LeapSeconds[i] /\ LeapSeconds[i] <= u)) =>
              CalculateLeapSeconds(u) = CalculateLeapSeconds(t)
<1>1. CASE \A i \in 1 .. Total : ~(t < LeapSeconds[i] /\ LeapSeconds[i] <= u)
  <2>1. Counted(u) = Counted(t)
    BY <1>1, TableFacts DEF Counted
  <2> QED
    BY <2>1, CalculateIsCount, TableFacts
<1>2. ASSUME NEW i \in 1 .. Total, t < LeapSeconds[i], LeapSeconds[i] <= u
      PROVE  CalculateLeapSeconds(u) - CalculateLeapSeconds(t) = 1
  <2>1. ASSUME NEW j \in 1 .. Total, t < LeapSeconds[j], LeapSeconds[j] <= u
        PROVE  j = i
    <3>1. CASE i < j
      <4>1. LeapSeconds[j] - LeapSeconds[i] > Total
        BY <3>1, LeapSecondsAssumption
      <4> QED
        BY <4>1, <1>2, <2>1, TableFacts
    <3>2. CASE j < i
      <4>1. LeapSeconds[i] - LeapSeconds[j] > Total
        BY <3>2, LeapSecondsAssumption
      <4> QED
        BY <4>1, <1>2, <2>1, TableFacts
    <3> QED
      BY <3>1, <3>2, TableFacts
  <2>2. Counted(u) = Counted(t) \cup {i}
    BY <1>2, <2>1, TableFacts DEF Counted
  <2>3. i \notin Counted(t)
    BY <1>2, TableFacts DEF Counted
  <2>4. Cardinality(Counted(t) \cup {i}) = Cardinality(Counted(t)) + 1
    BY <2>3, CountedIsFinite, FS_AddElement
  <2>5. /\ CalculateLeapSeconds(u) = Cardinality(Counted(u))
        /\ CalculateLeapSeconds(t) = Cardinality(Counted(t))
        /\ Cardinality(Counted(t)) \in Nat
    BY CalculateIsCount, CountedIsFinite, TableFacts
  <2> QED
    BY <2>2, <2>4, <2>5
<1> QED
  BY <1>1, <1>2

-----------------------------------------------------------------------------
(* The clock *)

Inside ==
  /\ window \in Window /\ instant \in window /\ instant \in Int
  /\ zone \in Zone \cup {0} /\ zone \in Int
  /\ system \in TimeSystem

LEMMA InsideHolds == Spec => []Inside
<1>1. Init => Inside
  BY WindowAssumption, OffsetAssumption DEF Init, Inside
<1>2. Inside /\ [Next]_vars => Inside'
  BY DEF Inside, Next, vars
<1> QED
  BY <1>1, <1>2, PTL DEF Spec

LEMMA OffsetFacts ==
  \A s \in GnssSystem : TimeOffset[s] \in Int /\ s # "TimeZone"
  BY OffsetAssumption DEF GnssSystem

(* What the conversions are, without their three cases. *)
LEMMA ConversionFacts ==
  ASSUME Inside
  PROVE  /\ Shift \in Int
         /\ \/ \A t \in Int : /\ FromUtc(t) = t + Shift + CalculateLeapSeconds(t)
                             /\ ToUtc(t + Shift) = t - CalculateLeapSeconds(t)
            \/ \A t \in Int : /\ FromUtc(t) = t + Shift
                             /\ ToUtc(t + Shift) = t
<1>1. CASE system \in GnssSystem
  <2>1. TimeOffset[system] \in Int /\ system # "TimeZone"
    BY <1>1, OffsetFacts
  <2>2. Shift = -TimeOffset[system]
    BY <1>1, <2>1 DEF Shift
  <2>3. ASSUME NEW t \in Int
        PROVE  /\ FromUtc(t) = t + Shift + CalculateLeapSeconds(t)
               /\ ToUtc(t + Shift) = t - CalculateLeapSeconds(t)
    <3>1. CalculateLeapSeconds(t) \in Int
      BY CalculateIsCount, TableFacts
    <3>2. t + Shift + TimeOffset[system] = t
      BY <2>1, <2>2
    <3>3. FromUtc(t) = t - TimeOffset[system] + CalculateLeapSeconds(t)
      BY <1>1, <2>1 DEF FromUtc, Utc2Time
    <3>4. ToUtc(t + Shift) = t - CalculateLeapSeconds(t)
      BY <1>1, <2>1, <3>2 DEF ToUtc, Time2Utc
    <3> QED
      BY <2>1, <2>2, <3>1, <3>3, <3>4
  <2> QED
    BY <2>1, <2>2, <2>3
<1>2. CASE system = "TimeZone"
  <2>1. system \notin GnssSystem
    BY <1>2, OffsetFacts
  <2>2. Shift = zone * 3600
    BY <1>2, <2>1 DEF Shift
  <2>3. zone * 3600 \in Int
    BY DEF Inside
  <2>4. ASSUME NEW t \in Int
        PROVE  FromUtc(t) = t + Shift /\ ToUtc(t + Shift) = t
    <3>1. FromUtc(t) = t + zone * 3600
      BY <1>2, <2>1 DEF FromUtc, Utc2Time
    <3>2. ToUtc(t + Shift) = (t + Shift) - zone * 3600
      BY <1>2, <2>1 DEF ToUtc, Time2Utc
    <3> QED
      BY <2>2, <2>3, <3>1, <3>2
  <2> QED
    BY <2>2, <2>3, <2>4
<1>3. CASE system \notin GnssSystem /\ system # "TimeZone"
  BY <1>3 DEF Shift, FromUtc, ToUtc, Utc2Time, Time2Utc
<1> QED
  BY <1>1, <1>2, <1>3

-----------------------------------------------------------------------------
(* Theorems *)

LEMMA InsideInverts ==
  ASSUME Inside
  PROVE  ConversionsInvert
<1> DEFINE c(t) == CalculateLeapSeconds(t)
<1>1. instant \in Int /\ Shift \in Int /\ Total \in Nat
  BY ConversionFacts, TableFacts DEF Inside
<1>2. CASE \A t \in Int : FromUtc(t) = t + Shift /\ ToUtc(t + Shift) = t
  <2>1. FromUtc(ToUtc(instant + Shift)) = instant + Shift
    BY <1>1, <1>2
  <2>2. ToUtc(FromUtc(instant)) = instant
    BY <1>1, <1>2
  <2> QED
    BY <1>1, <2>1, <2>2 DEF ConversionsInvert
<1>3. CASE \A t \in Int : /\ FromUtc(t) = t + Shift + c(t)
                         /\ ToUtc(t + Shift) = t - c(t)
  <2>1. c(instant) \in 0 .. Total
    BY <1>1, CalculateIsCount
  <2> DEFINE u == instant - c(instant)
             v == instant + c(instant)
  <2>2. u \in Int /\ v \in Int
    BY <1>1, <2>1
  <2>3. c(u) \in Int /\ c(v) \in Int
    BY <2>2, CalculateIsCount, <1>1
  <2> HIDE DEF c
  <2>4. FromUtc(ToUtc(instant + Shift)) - (instant + Shift) = c(u) - c(instant)
    <3>1. ToUtc(instant + Shift) = u
      BY <1>1, <1>3
    <3>2. FromUtc(u) = u + Shift + c(u)
      BY <1>3, <2>2
    <3> QED
      BY <1>1, <2>1, <2>3, <3>1, <3>2
  <2>5. ToUtc(FromUtc(instant)) - instant = c(instant) - c(v)
    <3>1. FromUtc(instant) = v + Shift
      BY <1>1, <1>3, <2>1
    <3>2. ToUtc(v + Shift) = v - c(v)
      BY <1>3, <2>2
    <3> QED
      BY <1>1, <2>1, <2>3, <3>1, <3>2
  <2> HIDE DEF u, v
  <2>6. /\ u <= instant /\ instant - u <= Total
        /\ instant <= v /\ v - instant <= Total
    BY <1>1, <2>1 DEF u, v
  <2>7. c(instant) - c(u) \in {0, 1} /\ c(v) - c(instant) \in {0, 1}
    BY <1>1, <2>2, <2>6, CountStep DEF c
  <2>8. ~NearLeap(instant) => c(instant) = c(u) /\ c(v) = c(instant)
    <3>1. SUFFICES ASSUME ~NearLeap(instant)
                   PROVE  c(instant) = c(u) /\ c(v) = c(instant)
      OBVIOUS
    <3>2. \A i \in 1 .. Total : ~(u < LeapSeconds[i] /\ LeapSeconds[i] <= instant)
      BY <1>1, <2>2, <2>6, <3>1, TableFacts DEF NearLeap
    <3>3. \A i \in 1 .. Total : ~(instant < LeapSeconds[i] /\ LeapSeconds[i] <= v)
      BY <1>1, <2>2, <2>6, <3>1, TableFacts DEF NearLeap
    <3>4. c(instant) = c(u)
      BY <1>1, <2>2, <2>6, <3>2, CountStep DEF c
    <3>5. c(v) = c(instant)
      BY <1>1, <2>2, <2>6, <3>3, CountStep DEF c
    <3> QED
      BY <3>4, <3>5
  <2> QED
    BY <2>1, <2>3, <2>4, <2>5, <2>7, <2>8 DEF ConversionsInvert
<1> QED
  BY <1>2, <1>3, ConversionFacts

(* At every instant the conversions from and to UTC are inverse to one     *)
(* another, but for one second beside a leap second, although calculate-   *)
(* LeapSeconds is asked at a time that differs by the leap seconds.        *)
THEOREM ConversionsAreInverse == Spec => []ConversionsInvert
BY InsideHolds, InsideInverts, PTL

LEMMA TickKeepsOrder ==
  ASSUME Inside, instant' = instant + 1
  PROVE  /\ FromUtc(instant') - FromUtc(instant) \in {1, 2}
         /\ ToUtc(instant' + Shift) - ToUtc(instant + Shift) \in {0, 1}
         /\ ~NearLeap(instant) => /\ FromUtc(instant') - FromUtc(instant) = 1
                                  /\ ToUtc(instant' + Shift) - ToUtc(instant + Shift) = 1
<1> DEFINE c(t) == CalculateLeapSeconds(t)
           later == instant + 1
<1>1. /\ instant \in Int /\ later \in Int /\ instant' = later
      /\ Shift \in Int /\ Total \in Nat \ {0}
  BY ConversionFacts, TableFacts DEF Inside
<1>2. CASE \A t \in Int : FromUtc(t) = t + Shift /\ ToUtc(t + Shift) = t
  BY <1>1, <1>2
<1>3. CASE \A t \in Int : /\ FromUtc(t) = t + Shift + c(t)
                         /\ ToUtc(t + Shift) = t - c(t)
  <2>1. c(instant) \in Int /\ c(later) \in Int
    BY <1>1, CalculateIsCount
  <2>2. instant <= later /\ later - instant <= Total
    BY <1>1
  <2>3. c(later) - c(instant) \in {0, 1}
    BY <1>1, <2>2, CountStep
  <2>4. ~NearLeap(instant) => c(later) = c(instant)
    <3>1. SUFFICES ASSUME ~NearLeap(instant)
                   PROVE  c(later) = c(instant)
      OBVIOUS
    <3>2. \A i \in 1 .. Total : ~(instant < LeapSeconds[i] /\ LeapSeconds[i] <= later)
      BY <1>1, <3>1, TableFacts DEF NearLeap
    <3> QED
      BY <1>1, <2>2, <3>2, CountStep
  <2> HIDE DEF c
  <2>5. /\ FromUtc(later) = later + Shift + c(later)
        /\ FromUtc(instant) = instant + Shift + c(instant)
        /\ ToUtc(later + Shift) = later - c(later)
        /\ ToUtc(instant + Shift) = instant - c(instant)
    BY <1>1, <1>3
  <2>6. /\ FromUtc(later) - FromUtc(instant) = 1 + (c(later) - c(instant))
        /\ ToUtc(later + Shift) - ToUtc(instant + Shift) = 1 - (c(later) - c(instant))
    BY <1>1, <2>1, <2>5
  <2> QED
    BY <1>1, <2>1, <2>3, <2>4, <2>6
<1> QED
  BY <1>2, <1>3, ConversionFacts

(* A second later is never earlier in another system, and a leap second is *)
(* the only thing that makes it anything but one second later.             *)
THEOREM OrderIsKeptAlways == Spec => OrderIsKept
<1>1. Inside /\ [Next]_vars =>
        [/\ FromUtc(instant') - FromUtc(instant) \in {1, 2}
         /\ ToUtc(instant' + Shift) - ToUtc(instant + Shift) \in {0, 1}
         /\ ~NearLeap(instant) => /\ FromUtc(instant') - FromUtc(instant) = 1
                                  /\ ToUtc(instant' + Shift) - ToUtc(instant + Shift) = 1]_vars
  BY TickKeepsOrder DEF Next
<1> QED
  BY <1>1, InsideHolds, PTL DEF Spec, OrderIsKept

-----------------------------------------------------------------------------
(* Weeks and days *)

LEMMA QuotientIsInt ==
  ASSUME NEW a \in Int, NEW b \in Nat \ {0}
  PROVE  Quotient(a, b) \in Int
BY DEF Quotient

LEMMA LastWeekIsNat == LastWeek \in Nat
BY DEF LastWeek

(* What an overflow gives is some int. *)
LEMMA SecondsAreInt ==
  ASSUME NEW week \in Int
  PROVE  /\ SecondsOf(week) \in Int
         /\ week \in 0 .. LastWeek => SecondsOf(week) = week * 86400 * 7
<1>1. (CHOOSE n : n \in Int) \in Int
  OBVIOUS
<1>2. week * 86400 * 7 \in Int
  OBVIOUS
<1>3. week \in 0 .. LastWeek => week \in -LastWeek .. LastWeek
  BY LastWeekIsNat
<1> QED
  BY <1>1, <1>2, <1>3 DEF SecondsOf

(* A time of UTC is kept as it is, and GPS time is it without the offset   *)
(* and with the leap seconds.                                              *)
LEMMA UtcIsKept ==
  ASSUME NEW t \in Int
  PROVE  /\ XTime(t, "UTC") = [utc |-> t, invalid |-> FALSE]
         /\ \A s \in {"GPS", "Galileo"} :
              /\ s \in GnssSystem /\ TimeOffset[s] = Epoch
              /\ Utc2Time(t, s, 0) = t - Epoch + CalculateLeapSeconds(t)
<1>1. "UTC" \notin GnssSystem
  BY OffsetAssumption DEF GnssSystem
<1>2. XTime(t, "UTC") = [utc |-> t, invalid |-> FALSE]
  <2>1. Time2Utc(t, "UTC", 0) = t
    BY <1>1 DEF Time2Utc
  <2>2. ("UTC" = "NIL") = FALSE
    OBVIOUS
  <2> QED
    BY <2>1, <2>2, Zenon DEF XTime
<1>3. \A s \in {"GPS", "Galileo"} : s \in GnssSystem /\ TimeOffset[s] = Epoch
  BY EpochAssumption DEF GnssSystem
<1>4. \A s \in {"GPS", "Galileo"} : Utc2Time(t, s, 0) = t - Epoch + CalculateLeapSeconds(t)
  BY <1>3 DEF Utc2Time
<1> QED
  BY <1>2, <1>3, <1>4

LEMMA WeekIsTyped ==
  ASSUME NEW t \in Int
  PROVE  Week(XTime(t, "UTC")) \in [week : Int, sec : Int, day : 0 .. 7]
<1> DEFINE gps == t - Epoch + CalculateLeapSeconds(t)
           week == Quotient(gps, 86400 * 7)
           sec == gps - SecondsOf(week)
           day == Quotient(sec, 86400)
<1>1. Utc2Time(t, "GPS", 0) = gps
  BY UtcIsKept
<1>2. gps \in Int
  BY CalculateIsCount, TableFacts DEF Epoch
<1> HIDE DEF gps
<1>3. week \in Int
  BY <1>2, QuotientIsInt
<1>4. sec \in Int
  <2> HIDE DEF week
  <2> QED
    BY <1>2, <1>3, SecondsAreInt
<1>5. Week(XTime(t, "UTC")) = [week |-> week, sec |-> sec, day |-> IF day \in 0 .. 6 THEN day ELSE 7]
  BY <1>1, UtcIsKept DEF Week
<1> HIDE DEF week, sec, day
<1>6. (IF day \in 0 .. 6 THEN day ELSE 7) \in 0 .. 7
  OBVIOUS
<1> QED
  BY <1>3, <1>4, <1>5, <1>6

(* The clock stays in its window, and the day of the week of any time is   *)
(* an enumerator (the type invariant).                                     *)
THEOREM TypeCorrect == Spec => []TypeOK
<1>1. Inside => TypeOK
  BY WeekIsTyped DEF Inside, TypeOK
<1> QED
  BY <1>1, InsideHolds, PTL

(* The days of a time of GPS, its week, the seconds and the day of it. *)
Days(gps) == gps \div 86400
WeekNumber(gps) == gps \div 604800
DayOfWeek(gps) == Days(gps) - 7 * WeekNumber(gps)
SecondOfWeek(gps) == gps - WeekNumber(gps) * 604800

LEMMA CalendarTypes ==
  ASSUME NEW gps \in Nat
  PROVE  /\ WeekNumber(gps) \in Nat /\ Days(gps) \in Nat
         /\ DayOfWeek(gps) \in 0 .. 6 /\ SecondOfWeek(gps) \in Nat
<1>1. DayOfWeek(gps) \in 0 .. 6
  BY DEF DayOfWeek, WeekNumber, Days
<1>2. SecondOfWeek(gps) \in Nat
  BY DEF SecondOfWeek, WeekNumber
<1> QED
  BY <1>1, <1>2 DEF WeekNumber, Days

(* Differences are stated, for the provers rewrite with equations.         *)
LEMMA DayIsOfSeconds ==
  ASSUME NEW gps \in Nat
  PROVE  SecondOfWeek(gps) \div 86400 - DayOfWeek(gps) = 0
BY DEF SecondOfWeek, WeekNumber, DayOfWeek, Days

LEMMA SecondsAreOfDay ==
  ASSUME NEW gps \in Nat
  PROVE  SecondOfWeek(gps) \in 86400 * DayOfWeek(gps) .. 86400 * DayOfWeek(gps) + 86399
BY DEF SecondOfWeek, WeekNumber, DayOfWeek, Days

(* The epoch is 3657 days after the one of UTC, and a Sunday. *)
LEMMA EpochIsAfterDays ==
  ASSUME NEW gps \in Nat
  PROVE  (gps + 3657 * 86400) \div 86400 - Days(gps) = 3657
BY DEF Days

LEMMA EpochIsSunday ==
  ASSUME NEW gps \in Nat
  PROVE  ((Days(gps) + 3657 + 4) % 7) - DayOfWeek(gps) = 0
BY DEF DayOfWeek, WeekNumber, Days

LEMMA WeekOfTime ==
  ASSUME NEW t \in Int, t >= Epoch
  PROVE  \E gps \in Nat :
           /\ (t + CalculateLeapSeconds(t)) \div 86400 = Days(gps) + 3657
           /\ Days(gps) < 7 * (LastWeek + 1) =>
                Week(XTime(t, "UTC")) = [week |-> WeekNumber(gps), sec |-> SecondOfWeek(gps),
                                         day |-> DayOfWeek(gps)]
<1> DEFINE gps == t - Epoch + CalculateLeapSeconds(t)
<1>1. CalculateLeapSeconds(t) \in Nat
  BY CalculateIsCount, TableFacts
<1>2. gps \in Nat /\ t + CalculateLeapSeconds(t) = gps + 3657 * 86400
  BY <1>1 DEF Epoch
<1>3. Utc2Time(t, "GPS", 0) = gps
  BY UtcIsKept
<1> HIDE DEF gps
<1> gps \in Nat
  BY <1>2
<1>4. (t + CalculateLeapSeconds(t)) \div 86400 = Days(gps) + 3657
  <2>1. (gps + 3657 * 86400) \div 86400 - Days(gps) = 3657 /\ Days(gps) \in Nat
    BY EpochIsAfterDays, CalendarTypes
  <2>2. (gps + 3657 * 86400) \div 86400 = Days(gps) + 3657
    BY <2>1
  <2> QED
    BY <1>2, <2>2
<1>5. Quotient(gps, 86400 * 7) = WeekNumber(gps)
  BY <1>2 DEF Quotient, WeekNumber
<1>6. Days(gps) < 7 * (LastWeek + 1) =>
        gps - SecondsOf(WeekNumber(gps)) = SecondOfWeek(gps)
  <2>1. /\ WeekNumber(gps) \in Nat /\ Days(gps) \in Nat /\ DayOfWeek(gps) \in 0 .. 6
        /\ Days(gps) - 7 * WeekNumber(gps) = DayOfWeek(gps)
    BY CalendarTypes DEF DayOfWeek
  <2>2. SUFFICES ASSUME Days(gps) < 7 * (LastWeek + 1)
                 PROVE  gps - SecondsOf(WeekNumber(gps)) = SecondOfWeek(gps)
    OBVIOUS
  <2>3. WeekNumber(gps) \in 0 .. LastWeek
    BY <2>1, <2>2, LastWeekIsNat
  <2>4. SecondsOf(WeekNumber(gps)) = WeekNumber(gps) * 86400 * 7
    BY <2>1, <2>3, SecondsAreInt
  <2> QED
    BY <1>2, <2>1, <2>4 DEF SecondOfWeek
<1>7. Quotient(SecondOfWeek(gps), 86400) = DayOfWeek(gps)
  <2>1. Quotient(SecondOfWeek(gps), 86400) = SecondOfWeek(gps) \div 86400
    BY CalendarTypes DEF Quotient
  <2>2. SecondOfWeek(gps) \div 86400 - DayOfWeek(gps) = 0
    BY DayIsOfSeconds
  <2>3. SecondOfWeek(gps) \in Nat /\ DayOfWeek(gps) \in 0 .. 6
    BY CalendarTypes
  <2>4. SecondOfWeek(gps) \div 86400 = DayOfWeek(gps)
    BY <2>2, <2>3
  <2> QED
    BY <2>1, <2>4
<1>8. DayOfWeek(gps) \in 0 .. 6
  BY CalendarTypes
<1>9. Days(gps) < 7 * (LastWeek + 1) =>
        Week(XTime(t, "UTC")) = [week |-> WeekNumber(gps), sec |-> SecondOfWeek(gps),
                                 day |-> DayOfWeek(gps)]
  BY <1>3, <1>5, <1>6, <1>7, <1>8, UtcIsKept DEF Week
<1> QED
  BY <1>2, <1>4, <1>9

(* From the epoch of GPS to the end of LastWeek, the number of the week    *)
(* and the day of the week count the days, and the seconds of the week are *)
(* those of the day.                                                       *)
THEOREM WeeksCountDays == Spec => []WeekCountsDays
<1>1. ASSUME Inside, instant >= Epoch,
             (instant + CalculateLeapSeconds(instant)) \div 86400 - 3657 < 7 * (LastWeek + 1)
      PROVE  LET w == Week(XTime(instant, "UTC"))
                 days == (instant + CalculateLeapSeconds(instant)) \div 86400
             IN  /\ 7 * w.week + w.day = days - 3657
                 /\ w.day = (days + 4) % 7
                 /\ w.sec \in 86400 * w.day .. 86400 * w.day + 86399
  <2> DEFINE w == Week(XTime(instant, "UTC"))
             days == (instant + CalculateLeapSeconds(instant)) \div 86400
  <2>1. PICK gps \in Nat :
          /\ days = Days(gps) + 3657
          /\ Days(gps) < 7 * (LastWeek + 1) =>
               w = [week |-> WeekNumber(gps), sec |-> SecondOfWeek(gps), day |-> DayOfWeek(gps)]
    BY <1>1, WeekOfTime DEF Inside
  <2>3. WeekNumber(gps) \in Nat /\ Days(gps) \in Nat
    BY CalendarTypes
  <2> HIDE DEF w, days
  <2>2. w.week = WeekNumber(gps) /\ w.day = DayOfWeek(gps) /\ w.sec = SecondOfWeek(gps)
    <3>1. Days(gps) < 7 * (LastWeek + 1)
      BY <1>1, <2>1, <2>3, LastWeekIsNat DEF days
    <3> QED
      BY <2>1, <3>1
  <2>4. 7 * WeekNumber(gps) + DayOfWeek(gps) = days - 3657
    BY <2>1, <2>3 DEF DayOfWeek
  <2>5. DayOfWeek(gps) = (days + 4) % 7
    <3>1. ((Days(gps) + 3657 + 4) % 7) - DayOfWeek(gps) = 0 /\ DayOfWeek(gps) \in 0 .. 6
      BY EpochIsSunday, CalendarTypes
    <3>2. DayOfWeek(gps) = (Days(gps) + 3657 + 4) % 7
      BY <2>3, <3>1
    <3> QED
      BY <2>1, <2>3, <3>2
  <2>6. SecondOfWeek(gps) \in 86400 * DayOfWeek(gps) .. 86400 * DayOfWeek(gps) + 86399
    BY SecondsAreOfDay
  <2>7. /\ 7 * w.week + w.day = days - 3657
        /\ w.day = (days + 4) % 7
        /\ w.sec \in 86400 * w.day .. 86400 * w.day + 86399
    BY <2>2, <2>4, <2>5, <2>6
  <2> QED
    BY <2>7 DEF w, days
<1>2. Inside => WeekCountsDays
  BY <1>1 DEF WeekCountsDays
<1> QED
  BY <1>2, InsideHolds, PTL

-----------------------------------------------------------------------------
(* GPS time *)

LEMMA LastDateFacts ==
  /\ LastDate \in Int /\ LeapSeconds[Total] <= LastDate
  /\ Cardinality(LeapDates) = Total
<1>1. PICK d \in LeapDates : /\ d \in Int /\ d >= LeapSeconds[Total]
                             /\ \A e \in LeapDates \ {d} : e \in Int /\ e < d
  BY DatesAssumption
<1>2. LastDate \in LeapDates /\ \A e \in LeapDates : e <= LastDate
  <2>1. \A e \in LeapDates : e <= d
    BY <1>1
  <2> QED
    BY <2>1 DEF LastDate
<1>3. LastDate = d
  BY <1>1, <1>2
<1> QED
  BY <1>1, <1>3, TableFacts, DatesAssumption

LEMMA AllAreCounted ==
  ASSUME NEW t \in Int, t >= LeapSeconds[Total]
  PROVE  CalculateLeapSeconds(t) = Total
<1>1. Counted(t) = 1 .. Total
  BY TableFacts DEF Counted
<1> QED
  BY <1>1, CalculateIsCount, FS_Interval, TableFacts

(* From the last leap second of the table on, the time of GPS and Galileo  *)
(* is the seconds since the epoch and the leap seconds inserted by then,   *)
(* and XTime makes UTC of it again.                                        *)
THEOREM GpsIsRight == Spec => []GpsIsRightSinceLastDate
<1>1. ASSUME Inside, instant >= LastDate, system \in {"GPS", "Galileo"}
      PROVE  /\ Gnss(XTime(instant, "UTC"), system).time
                  = instant - Epoch + Cardinality(LeapDates)
             /\ XTime(instant - Epoch + Cardinality(LeapDates), system) = XTime(instant, "UTC")
  <2> DEFINE gps == instant - Epoch + Total
             later == instant + Total
  <2>1. instant \in Int /\ LastDate \in Int /\ Total \in Nat /\ Epoch \in Int
    BY <1>1, LastDateFacts, TableFacts DEF Inside, Epoch
  <2>2. /\ CalculateLeapSeconds(instant) = Total
        /\ later \in Int /\ CalculateLeapSeconds(later) = Total
    BY <1>1, <2>1, AllAreCounted, LastDateFacts, TableFacts
  <2>3. XTime(instant, "UTC") = [utc |-> instant, invalid |-> FALSE]
    BY <2>1, UtcIsKept
  <2>4. Gnss(XTime(instant, "UTC"), system).time = gps
    BY <1>1, <2>1, <2>2, <2>3, UtcIsKept DEF Gnss
  <2>5. gps + TimeOffset[system] = later
    BY <1>1, <2>1, UtcIsKept
  <2> HIDE DEF gps
  <2>6. Time2Utc(gps, system, 0) = later - Total
    BY <1>1, <2>1, <2>2, <2>5, UtcIsKept DEF Time2Utc
  <2>7. XTime(gps, system) = [utc |-> instant, invalid |-> FALSE]
    <3>1. Time2Utc(gps, system, 0) = instant
      BY <2>1, <2>6
    <3>2. (system = "NIL") = FALSE
      BY <1>1
    <3> QED
      BY <3>1, <3>2, Zenon DEF XTime
  <2> QED
    BY <2>3, <2>4, <2>7, LastDateFacts DEF gps
<1>2. Inside => GpsIsRightSinceLastDate
  BY <1>1 DEF GpsIsRightSinceLastDate
<1> QED
  BY <1>2, InsideHolds, PTL
=============================================================================
