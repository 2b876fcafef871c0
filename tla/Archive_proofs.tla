--------------------------- MODULE Archive_proofs ---------------------------
(***************************************************************************)
(* Theorems about Archive: for every calendar, the first and the last      *)
(* second of an edge are the least and the greatest of those it describes, *)
(* and the tests on the names of directories miss no file of the timespan. *)
(*                                                                         *)
(* A day is a number of days before it, the cardinality of a set; that     *)
(* earlier days have lower numbers is the inclusion of these sets.         *)
(***************************************************************************)
EXTENDS Archive, FiniteSetTheorems, TLAPS

LEMMA CalendarTyped ==
  /\ Year = 1 .. Len(DaysIn) /\ Len(DaysIn) \in Nat
  /\ Month = 1 .. Len(DaysIn[1]) /\ Len(DaysIn[1]) \in Nat
  /\ \A y \in Year, m \in Month : DaysIn[y][m] \in Nat \ {0}
  /\ Hours \in Nat \ {0} /\ Minutes \in Nat \ {0} /\ Seconds \in Nat \ {0}
<1>1. /\ DaysIn \in Seq(Seq(Nat \ {0})) /\ 1 \in DOMAIN DaysIn
      /\ \A y \in Year : DOMAIN DaysIn[y] = Month
  BY CalendarAssumption
<1>2. Year = 1 .. Len(DaysIn) /\ Len(DaysIn) \in Nat
  BY <1>1 DEF Year
<1>3. \A y \in Year : DaysIn[y] \in Seq(Nat \ {0})
  BY <1>1 DEF Year
<1>4. \A y \in Year, m \in Month : DaysIn[y][m] \in Nat \ {0}
  <2> TAKE y \in Year, m \in Month
  <2>1. m \in DOMAIN DaysIn[y] /\ DaysIn[y] \in Seq(Nat \ {0})
    BY <1>1, <1>3
  <2> QED
    BY <2>1
<1>5. Month = 1 .. Len(DaysIn[1]) /\ Len(DaysIn[1]) \in Nat
  BY <1>1, <1>3 DEF Month, Year
<1> QED
  BY <1>2, <1>4, <1>5, CalendarAssumption

OfMonth(y, m) == {<<y, m, d>> : d \in 1 .. DaysIn[y][m]}

LEMMA DaysOfMonths == Day = UNION {OfMonth(y, m) : y \in Year, m \in Month}
BY DEF Day, OfMonth

LEMMA DayIs ==
  /\ \A x \in Day : /\ x[1] \in Year /\ x[2] \in Month
                    /\ x[3] \in 1 .. DaysIn[x[1]][x[2]]
                    /\ x = <<x[1], x[2], x[3]>>
  /\ \A y \in Year, m \in Month : \A d \in 1 .. DaysIn[y][m] : <<y, m, d>> \in Day
<1>1. ASSUME NEW x \in Day
      PROVE  /\ x[1] \in Year /\ x[2] \in Month
             /\ x[3] \in 1 .. DaysIn[x[1]][x[2]]
             /\ x = <<x[1], x[2], x[3]>>
  <2>1. PICK y \in Year, m \in Month : x \in OfMonth(y, m)
    BY DaysOfMonths
  <2>2. PICK d \in 1 .. DaysIn[y][m] : x = <<y, m, d>>
    BY <2>1 DEF OfMonth
  <2> QED
    BY <2>2
<1>2. ASSUME NEW y \in Year, NEW m \in Month, NEW d \in 1 .. DaysIn[y][m]
      PROVE  <<y, m, d>> \in Day
  <2>1. <<y, m, d>> \in OfMonth(y, m)
    BY DEF OfMonth
  <2> QED
    BY <2>1, DaysOfMonths
<1> QED
  BY <1>1, <1>2

(* The values of a function with a finite domain.                          *)
LEMMA ValuesFinite ==
  ASSUME NEW S, IsFiniteSet(S), NEW f, f = [x \in S |-> f[x]]
  PROVE  IsFiniteSet({f[x] : x \in S})
<1>1. f \in Surjection(S, {f[x] : x \in S})
  BY DEF Surjection
<1> QED
  BY <1>1, FS_Surjection

LEMMA MonthFinite ==
  ASSUME NEW y, NEW m, DaysIn[y][m] \in Int
  PROVE  IsFiniteSet(OfMonth(y, m))
<1> DEFINE S == 1 .. DaysIn[y][m]
           f == [d \in S |-> <<y, m, d>>]
<1>1. IsFiniteSet(S)
  BY FS_Interval
<1>2. f = [d \in S |-> f[d]]
  OBVIOUS
<1>3. OfMonth(y, m) = {f[d] : d \in S}
  BY DEF OfMonth
<1> HIDE DEF f, S
<1> QED
  BY <1>1, <1>2, <1>3, ValuesFinite

LEMMA DaysFinite == IsFiniteSet(Day)
<1> DEFINE S == Year \X Month
           f == [p \in S |-> OfMonth(p[1], p[2])]
           months == {f[p] : p \in S}
<1>1. IsFiniteSet(S)
  <2>1. IsFiniteSet(Year)
    <3>1. IsFiniteSet(1 .. Len(DaysIn))
      <4>1. Len(DaysIn) \in Int /\ 1 \in Int
        BY CalendarTyped
      <4> QED
        BY <4>1, FS_Interval
    <3> QED
      BY <3>1, CalendarTyped
  <2>2. IsFiniteSet(Month)
    <3>1. IsFiniteSet(1 .. Len(DaysIn[1]))
      <4>1. Len(DaysIn[1]) \in Int /\ 1 \in Int
        BY CalendarTyped
      <4> QED
        BY <4>1, FS_Interval
    <3> QED
      BY <3>1, CalendarTyped
  <2> QED
    BY <2>1, <2>2, FS_Product
<1>2. \A y \in Year, m \in Month : IsFiniteSet(OfMonth(y, m))
  BY CalendarTyped, MonthFinite
<1>3. \A y \in Year, m \in Month : <<y, m>> \in S /\ f[<<y, m>>] = OfMonth(y, m)
  OBVIOUS
<1>4. \A p \in S : p[1] \in Year /\ p[2] \in Month /\ f[p] = OfMonth(p[1], p[2])
  OBVIOUS
<1>5. f = [p \in S |-> f[p]]
  OBVIOUS
<1> HIDE DEF f, S
<1>6. IsFiniteSet(months)
  BY <1>1, <1>5, ValuesFinite
<1>7. \A T \in months : IsFiniteSet(T)
  BY <1>2, <1>4
<1>8. \A x \in Day : x \in UNION months
  <2> TAKE x \in Day
  <2>1. PICK y \in Year, m \in Month : x \in OfMonth(y, m)
    BY DaysOfMonths
  <2>2. OfMonth(y, m) \in months
    BY <1>3
  <2> QED
    BY <2>1, <2>2
<1> HIDE DEF months
<1>9. IsFiniteSet(UNION months)
  BY <1>6, <1>7, FS_UNION
<1> QED
  BY <1>8, <1>9, FS_Subset

-----------------------------------------------------------------------------
(* The order of dates.                                                     *)
Precedes(y, m, d, y2, m2, d2) ==
  y < y2 \/ (y = y2 /\ m < m2) \/ (y = y2 /\ m = m2 /\ d < d2)

Earlier(y, m, d) == {x \in Day : Precedes(x[1], x[2], x[3], y, m, d)}

LEMMA DaysBeforeIs ==
  ASSUME NEW y, NEW m, NEW d
  PROVE  /\ DaysBefore(y, m, d) = Cardinality(Earlier(y, m, d))
         /\ IsFiniteSet(Earlier(y, m, d))
         /\ DaysBefore(y, m, d) \in Nat
<1>1. DaysBefore(y, m, d) = Cardinality(Earlier(y, m, d))
  <2>1. Earlier(y, m, d) = {x \in Day : \/ x[1] < y
                                        \/ x[1] = y /\ x[2] < m
                                        \/ x[1] = y /\ x[2] = m /\ x[3] < d}
    BY DEF Earlier, Precedes
  <2> QED
    BY <2>1 DEF DaysBefore
<1>2. IsFiniteSet(Earlier(y, m, d))
  BY DaysFinite, FS_Subset DEF Earlier
<1> QED
  BY <1>1, <1>2, FS_CardinalityType

(* A date that is not later has no more days before it.                    *)
LEMMA DaysBeforeGrows ==
  ASSUME NEW y \in Int, NEW m \in Int, NEW d \in Int,
         NEW y2 \in Int, NEW m2 \in Int, NEW d2 \in Int,
         ~Precedes(y2, m2, d2, y, m, d)
  PROVE  DaysBefore(y, m, d) <= DaysBefore(y2, m2, d2)
<1>1. \A x \in Day : x[1] \in Int /\ x[2] \in Int /\ x[3] \in Int
  BY DayIs, CalendarTyped
<1>2. Earlier(y, m, d) \subseteq Earlier(y2, m2, d2)
  BY <1>1 DEF Earlier, Precedes
<1> QED
  BY <1>2, DaysBeforeIs, FS_Subset

(* The last day of a month is the one before the first of the next month,  *)
(* also at the end of a year.                                              *)
LEMMA LastOfMonth ==
  ASSUME NEW y \in Year, NEW m \in Month
  PROVE  DaysBefore(y, m + 1, 1) = DaysBefore(y, m, DaysIn[y][m]) + 1
<1> DEFINE n == DaysIn[y][m]
           last == <<y, m, n>>
<1>0. y \in Int /\ m \in Int /\ n \in Nat \ {0}
  BY CalendarTyped
<1>1. last \in Day /\ last[1] = y /\ last[2] = m /\ last[3] = n
  BY <1>0, DayIs
<1>2. \A x \in Day : /\ x[1] \in Int /\ x[2] \in Int /\ x[3] \in Int /\ 1 <= x[3]
                     /\ x[1] = y /\ x[2] = m => x[3] <= n
                     /\ x[1] = y /\ x[2] = m /\ x[3] = n => x = last
  BY DayIs, CalendarTyped
<1> HIDE DEF n, last
<1>3. Earlier(y, m + 1, 1) = Earlier(y, m, n) \cup {last}
  BY <1>0, <1>1, <1>2 DEF Earlier, Precedes
<1>4. last \notin Earlier(y, m, n)
  BY <1>0, <1>1 DEF Earlier, Precedes
<1> QED
  BY <1>3, <1>4, DaysBeforeIs, FS_AddElement DEF n

-----------------------------------------------------------------------------
(* Times.                                                                  *)
LEMMA TimesGrow ==
  ASSUME NEW x \in Nat, NEW y \in Nat, NEW base \in Nat, x <= y
  PROVE  x * base \in Nat /\ y * base \in Nat /\ x * base <= y * base
BY SMT

LEMMA TimeTyped ==
  ASSUME NEW days \in Nat, NEW h \in Nat, NEW min \in Nat, NEW s \in Nat
  PROVE  Time(days, h, min, s) \in Nat
BY CalendarTyped, SMT DEF Time

LEMMA TimeGrows ==
  ASSUME NEW days \in Nat, NEW h \in Nat, NEW min \in Nat, NEW s \in Nat,
         NEW days2 \in Nat, NEW h2 \in Nat, NEW min2 \in Nat, NEW s2 \in Nat,
         days <= days2, h <= h2, min <= min2, s <= s2
  PROVE  Time(days, h, min, s) <= Time(days2, h2, min2, s2)
<1> DEFINE hours  == days * Hours + h       hours2 == days2 * Hours + h2
           mins   == hours * Minutes + min  mins2  == hours2 * Minutes + min2
<1>0. Hours \in Nat /\ Minutes \in Nat /\ Seconds \in Nat
  BY CalendarTyped
<1>1. hours \in Nat /\ hours2 \in Nat /\ hours <= hours2
  BY <1>0, TimesGrow
<1> HIDE DEF hours, hours2
<1>2. mins \in Nat /\ mins2 \in Nat /\ mins <= mins2
  BY <1>0, <1>1, TimesGrow
<1> HIDE DEF mins, mins2
<1>3. mins * Seconds + s <= mins2 * Seconds + s2
  BY <1>0, <1>2, TimesGrow
<1> QED
  BY <1>3 DEF Time, mins, mins2, hours, hours2

(* A low digit does not carry.                                             *)
LEMMA NoCarry ==
  ASSUME NEW x \in Nat, NEW y \in Nat, NEW base \in Nat, NEW low \in 0 .. base - 1, x < y
  PROVE  x * base + low \in Nat /\ y * base \in Nat /\ x * base + low < y * base
<1>1. x * base \in Nat /\ y * base \in Nat /\ (x + 1) * base <= y * base
  BY TimesGrow
<1>2. (x + 1) * base = x * base + base
  BY SMT
<1> QED
  BY <1>1, <1>2

(* A second of a day is before the next day.                               *)
LEMMA DayEnds ==
  ASSUME NEW days \in Nat, NEW h \in 0 .. Hours - 1, NEW min \in 0 .. Minutes - 1,
         NEW s \in 0 .. Seconds - 1
  PROVE  Time(days, h, min, s) < Time(days + 1, 0, 0, 0)
<1> DEFINE hours  == days * Hours + h       hours2 == (days + 1) * Hours
           mins   == hours * Minutes + min  mins2  == hours2 * Minutes
<1>0. Hours \in Nat /\ Minutes \in Nat /\ Seconds \in Nat
  BY CalendarTyped
<1>1. hours \in Nat /\ hours2 \in Nat /\ hours < hours2
  BY <1>0, NoCarry
<1> HIDE DEF hours, hours2
<1>2. mins \in Nat /\ mins2 \in Nat /\ mins < mins2
  BY <1>0, <1>1, NoCarry
<1> HIDE DEF mins, mins2
<1>3. mins * Seconds + s < mins2 * Seconds /\ mins2 * Seconds \in Nat
  BY <1>0, <1>2, NoCarry
<1>4. Time(days, h, min, s) = mins * Seconds + s
  BY DEF Time, mins, hours
<1>5. Time(days + 1, 0, 0, 0) = mins2 * Seconds
  BY <1>0, <1>1, <1>2, <1>3 DEF Time, mins2, hours2
<1> QED
  BY <1>3, <1>4, <1>5

-----------------------------------------------------------------------------
(* Edges.  The days, hours and minutes an edge describes, and the least    *)
(* and the greatest of each.                                               *)
DaysOf(e) == {x \in Day : x[1] = e.year /\ x[2] = e.month /\ e.day \in {x[3], None}}

HoursOf(e) == {x \in 0 .. Hours - 1 : e.hour \in {x, None}}

MinutesOf(e) == {x \in 0 .. Minutes - 1 : e.minute \in {x, None}}

LEMMA DescribedIs ==
  ASSUME NEW e, NEW t
  PROVE  t \in Described(e) <=>
           \E d \in DaysOf(e), h \in HoursOf(e), min \in MinutesOf(e), s \in 0 .. Seconds - 1 :
             t = Time(DaysBefore(d[1], d[2], d[3]), h, min, s)
<1>1. Described(e) = {Time(DaysBefore(d[1], d[2], d[3]), h, min, s) :
                        d \in DaysOf(e), h \in HoursOf(e), min \in MinutesOf(e),
                        s \in 0 .. Seconds - 1}
  BY DEF Described, DaysOf, HoursOf, MinutesOf
<1> QED
  BY <1>1

LEMMA HoursSpan ==
  ASSUME NEW e \in Edge, Exists(e)
  PROVE  /\ Default(e.hour, 0) \in HoursOf(e) /\ Default(e.hour, Hours - 1) \in HoursOf(e)
         /\ HoursOf(e) \subseteq 0 .. Hours - 1
         /\ \A h \in HoursOf(e) : Default(e.hour, 0) <= h /\ h <= Default(e.hour, Hours - 1)
<1>1. Hours \in Nat \ {0}
  BY CalendarTyped
<1>2. CASE e.hour = None
  BY <1>1, <1>2 DEF HoursOf, Default
<1>3. CASE e.hour # None
  <2>1. e.hour \in 0 .. Hours - 1
    BY <1>3 DEF Exists
  <2> QED
    BY <1>1, <1>3, <2>1 DEF HoursOf, Default
<1> QED
  BY <1>2, <1>3

LEMMA MinutesSpan ==
  ASSUME NEW e \in Edge, Exists(e)
  PROVE  /\ Default(e.minute, 0) \in MinutesOf(e)
         /\ Default(e.minute, Minutes - 1) \in MinutesOf(e)
         /\ MinutesOf(e) \subseteq 0 .. Minutes - 1
         /\ \A m \in MinutesOf(e) :
               Default(e.minute, 0) <= m /\ m <= Default(e.minute, Minutes - 1)
<1>1. Minutes \in Nat \ {0}
  BY CalendarTyped
<1>2. CASE e.minute = None
  BY <1>1, <1>2 DEF MinutesOf, Default
<1>3. CASE e.minute # None
  <2>1. e.minute \in 0 .. Minutes - 1
    BY <1>3 DEF Exists
  <2> QED
    BY <1>1, <1>3, <2>1 DEF MinutesOf, Default
<1> QED
  BY <1>2, <1>3

LEMMA DaysSpan ==
  ASSUME NEW e \in Edge, Exists(e)
  PROVE  LET first == Default(e.day, 1)
             last  == Default(e.day, DaysIn[e.year][e.month])
         IN  /\ e.year \in Year /\ e.month \in Month /\ first \in Nat /\ last \in Nat
             /\ <<e.year, e.month, first>> \in DaysOf(e) /\ <<e.year, e.month, last>> \in DaysOf(e)
             /\ \A d \in DaysOf(e) : /\ d[1] = e.year /\ d[2] = e.month
                                     /\ d[3] \in Nat /\ first <= d[3] /\ d[3] <= last
<1> DEFINE n == DaysIn[e.year][e.month]
           first == Default(e.day, 1)
           last  == Default(e.day, n)
<1>1. e.year \in Year /\ e.month \in Month
  BY DEF Edge, Exists
<1>2. n \in Nat \ {0}
  BY <1>1, CalendarTyped
<1>3. \A d \in DaysOf(e) : d[1] = e.year /\ d[2] = e.month /\ d[3] \in 1 .. n
  BY DayIs DEF DaysOf
<1>4. \A d \in DaysOf(e) : e.day \in {d[3], None}
  BY DEF DaysOf
<1>5. \A d \in 1 .. n : e.day \in {d, None} => <<e.year, e.month, d>> \in DaysOf(e)
  BY <1>1, DayIs DEF DaysOf
<1>6. e.day \in 1 .. n \cup {None}
  BY DEF Exists
<1> HIDE DEF n
<1>7. /\ first \in 1 .. n /\ last \in 1 .. n
      /\ e.day \in {first, None} /\ e.day \in {last, None}
      /\ \A d \in 1 .. n : e.day \in {d, None} => first <= d /\ d <= last
  BY <1>2, <1>6 DEF Default
<1> HIDE DEF first, last
<1>8. \A d \in DaysOf(e) : d[3] \in Nat /\ first <= d[3] /\ d[3] <= last
  BY <1>3, <1>4, <1>7
<1>9. /\ first \in Nat /\ last \in Nat
      /\ <<e.year, e.month, first>> \in DaysOf(e) /\ <<e.year, e.month, last>> \in DaysOf(e)
  BY <1>5, <1>7
<1> QED
  BY <1>1, <1>3, <1>8, <1>9 DEF first, last, n

LEMMA LastDayIs ==
  ASSUME NEW e \in Edge, Exists(e)
  PROVE  LastDay(e) = DaysBefore(e.year, e.month, Default(e.day, DaysIn[e.year][e.month]))
<1>1. CASE e.day # None
  BY <1>1 DEF LastDay, Default
<1>2. CASE e.day = None
  <2>1. DaysBefore(e.year, e.month + 1, 1)
          = DaysBefore(e.year, e.month, DaysIn[e.year][e.month]) + 1
    BY DaysSpan, LastOfMonth
  <2>2. LastDay(e) = DaysBefore(e.year, e.month + 1, 1) - 1
    BY <1>2 DEF LastDay
  <2>3. DaysBefore(e.year, e.month, DaysIn[e.year][e.month]) \in Nat
    BY DaysBeforeIs
  <2> QED
    BY <1>2, <2>1, <2>2, <2>3 DEF Default
<1> QED
  BY <1>1, <1>2

(* first_datetime and last_datetime are the first and the last second that *)
(* an edge describes: the end of a month or of a year is found where the   *)
(* calendar has it, whatever the lengths of its months.                    *)
THEOREM EdgesDescribe ==
  ASSUME NEW e \in Edge, Exists(e)
  PROVE  /\ FirstDatetime(e) \in Described(e) /\ LastDatetime(e) \in Described(e)
         /\ \A t \in Described(e) : t \in Nat /\ FirstDatetime(e) <= t /\ t <= LastDatetime(e)
<1> DEFINE first == Default(e.day, 1)
           last  == Default(e.day, DaysIn[e.year][e.month])
           days1 == DaysBefore(e.year, e.month, first)
           days2 == DaysBefore(e.year, e.month, last)
           h1 == Default(e.hour, 0)    h2 == Default(e.hour, Hours - 1)
           m1 == Default(e.minute, 0)  m2 == Default(e.minute, Minutes - 1)
<1>0. Hours \in Nat \ {0} /\ Minutes \in Nat \ {0} /\ Seconds \in Nat \ {0}
  BY CalendarTyped
<1>1. FirstDatetime(e) = Time(days1, h1, m1, 0)
  BY DEF FirstDatetime
<1>2. LastDatetime(e) = Time(days2, h2, m2, Seconds - 1)
  BY LastDayIs DEF LastDatetime
<1>3. /\ h1 \in HoursOf(e) /\ h2 \in HoursOf(e) /\ HoursOf(e) \subseteq 0 .. Hours - 1
      /\ \A h \in HoursOf(e) : h1 <= h /\ h <= h2
  BY HoursSpan
<1>4. /\ m1 \in MinutesOf(e) /\ m2 \in MinutesOf(e) /\ MinutesOf(e) \subseteq 0 .. Minutes - 1
      /\ \A m \in MinutesOf(e) : m1 <= m /\ m <= m2
  BY MinutesSpan
<1>5. /\ e.year \in Year /\ e.month \in Month /\ first \in Nat /\ last \in Nat
      /\ <<e.year, e.month, first>> \in DaysOf(e) /\ <<e.year, e.month, last>> \in DaysOf(e)
      /\ \A d \in DaysOf(e) : /\ d[1] = e.year /\ d[2] = e.month
                              /\ d[3] \in Nat /\ first <= d[3] /\ d[3] <= last
  BY DaysSpan
<1>6. e.year \in Int /\ e.month \in Int
  BY <1>5, CalendarTyped
<1>7. days1 \in Nat /\ days2 \in Nat
  BY DaysBeforeIs
<1> HIDE DEF first, last, h1, h2, m1, m2
<1>8. FirstDatetime(e) \in Described(e)
  <2>1. 0 \in 0 .. Seconds - 1
    BY <1>0
  <2>2. \E d \in DaysOf(e) : DaysBefore(d[1], d[2], d[3]) = days1
    BY <1>5
  <2> QED
    BY <1>1, <1>3, <1>4, <2>1, <2>2, DescribedIs
<1>9. LastDatetime(e) \in Described(e)
  <2>1. Seconds - 1 \in 0 .. Seconds - 1
    BY <1>0
  <2>2. \E d \in DaysOf(e) : DaysBefore(d[1], d[2], d[3]) = days2
    BY <1>5
  <2> QED
    BY <1>2, <1>3, <1>4, <2>1, <2>2, DescribedIs
<1>10. ASSUME NEW t \in Described(e)
       PROVE  t \in Nat /\ FirstDatetime(e) <= t /\ t <= LastDatetime(e)
  <2>1. PICK d \in DaysOf(e), h \in HoursOf(e), min \in MinutesOf(e), s \in 0 .. Seconds - 1 :
          t = Time(DaysBefore(d[1], d[2], d[3]), h, min, s)
    BY DescribedIs
  <2> DEFINE days == DaysBefore(d[1], d[2], d[3])
  <2>2. days \in Nat
    BY DaysBeforeIs
  <2>3. ~Precedes(d[1], d[2], d[3], e.year, e.month, first)
    BY <1>5, <1>6 DEF Precedes
  <2>4. ~Precedes(e.year, e.month, last, d[1], d[2], d[3])
    BY <1>5, <1>6 DEF Precedes
  <2>5. d[1] \in Int /\ d[2] \in Int /\ d[3] \in Int /\ first \in Int /\ last \in Int
    BY <1>5, <1>6
  <2>6. days1 <= days /\ days <= days2
    BY <1>6, <2>3, <2>4, <2>5, DaysBeforeGrows
  <2> HIDE DEF days, days1, days2
  <2>7. /\ h \in Nat /\ min \in Nat /\ s \in Nat /\ Seconds - 1 \in Nat /\ 0 <= s /\ s <= Seconds - 1
        /\ h1 \in Nat /\ h2 \in Nat /\ m1 \in Nat /\ m2 \in Nat
    BY <1>0, <1>3, <1>4
  <2>8. h1 <= h /\ h <= h2 /\ m1 <= min /\ min <= m2
    BY <1>3, <1>4
  <2>9. t = Time(days, h, min, s)
    BY <2>1 DEF days
  <2>10. t \in Nat
    BY <2>2, <2>7, <2>9, TimeTyped
  <2>11. Time(days1, h1, m1, 0) <= t
    BY <1>7, <2>2, <2>6, <2>7, <2>8, <2>9, TimeGrows
  <2>12. t <= Time(days2, h2, m2, Seconds - 1)
    BY <1>7, <2>2, <2>6, <2>7, <2>8, <2>9, TimeGrows
  <2> QED
    BY <1>1, <1>2, <2>10, <2>11, <2>12
<1> QED
  BY <1>8, <1>9, <1>10

LEMMA EdgesTyped ==
  ASSUME NEW e \in Edge, Exists(e)
  PROVE  FirstDatetime(e) \in Nat /\ LastDatetime(e) \in Nat
BY EdgesDescribe

(* What lies between two edges lies between their ends.                    *)
LEMMA BetweenIs ==
  ASSUME NEW from \in Edge, NEW to \in Edge, Exists(from), Exists(to), NEW t \in Nat
  PROVE  Between(t, from, to) <=> FirstDatetime(from) <= t /\ t <= LastDatetime(to)
<1> DEFINE first == FirstDatetime(from)
           last  == LastDatetime(to)
<1>1. first \in Described(from) /\ \A s \in Described(from) : s \in Nat /\ first <= s
  BY EdgesDescribe
<1>2. last \in Described(to) /\ \A s \in Described(to) : s \in Nat /\ s <= last
  BY EdgesDescribe
<1> HIDE DEF first, last
<1>3. ASSUME Between(t, from, to) PROVE first <= t /\ t <= last
  <2>1. PICK s \in Described(from) : s <= t
    BY <1>3 DEF Between
  <2>2. PICK u \in Described(to) : t <= u
    BY <1>3 DEF Between
  <2>3. s \in Nat /\ first \in Nat /\ first <= s
    BY <1>1
  <2>4. u \in Nat /\ last \in Nat /\ u <= last
    BY <1>2
  <2> QED
    BY <2>1, <2>2, <2>3, <2>4
<1>4. ASSUME first <= t, t <= last PROVE Between(t, from, to)
  BY <1>1, <1>2, <1>4 DEF Between
<1> QED
  BY <1>3, <1>4 DEF first, last

-----------------------------------------------------------------------------
(* The files.                                                              *)
LEMMA MonthsBefore ==
  ASSUME NEW from \in Edge, Exists(from), NEW y \in Year, NEW m \in Month,
         y < from.year \/ (y = from.year /\ m < from.month)
  PROVE  /\ Time(DaysBefore(y, m + 1, 1), 0, 0, 0) \in Nat
         /\ Time(DaysBefore(y, m + 1, 1), 0, 0, 0) <= FirstDatetime(from)
<1> DEFINE first == Default(from.day, 1)
           days  == DaysBefore(from.year, from.month, first)
           next  == DaysBefore(y, m + 1, 1)
           h == Default(from.hour, 0)  min == Default(from.minute, 0)
<1>1. FirstDatetime(from) = Time(days, h, min, 0)
  BY DEF FirstDatetime
<1>2. h \in Nat /\ min \in Nat
  BY HoursSpan, MinutesSpan
<1>3. /\ from.year \in Int /\ from.month \in Int /\ first \in Int /\ 1 <= first
      /\ y \in Int /\ m \in Int /\ m + 1 \in Int
  <2>1. from.year \in Int /\ from.month \in Int /\ y \in Int /\ m \in Int
    <3>1. from.year \in Year /\ from.month \in Month
      BY DaysSpan
    <3> QED
      BY <3>1, CalendarTyped
  <2>2. first \in Nat /\ <<from.year, from.month, first>> \in DaysOf(from)
    BY DaysSpan
  <2>3. <<from.year, from.month, first>> \in Day
    BY <2>2 DEF DaysOf
  <2> HIDE DEF first
  <2>4. first \in 1 .. DaysIn[from.year][from.month]
    BY <2>3, DayIs
  <2> QED
    BY <2>1, <2>2, <2>4
<1> HIDE DEF first
<1>4. ~Precedes(from.year, from.month, first, y, m + 1, 1)
  BY <1>3 DEF Precedes
<1>5. next <= days
  BY <1>3, <1>4, DaysBeforeGrows
<1>6. days \in Nat /\ next \in Nat
  BY DaysBeforeIs
<1> HIDE DEF days, next, h, min
<1>7. Time(next, 0, 0, 0) <= Time(days, h, min, 0)
  <2>1. 0 \in Nat /\ 0 <= 0 /\ 0 <= h /\ 0 <= min
    BY <1>2
  <2> QED
    BY <1>2, <1>5, <1>6, <2>1, TimeGrows
<1>8. Time(next, 0, 0, 0) \in Nat
  BY <1>6, TimeTyped
<1> QED
  BY <1>1, <1>7, <1>8 DEF next

LEMMA MonthsAfter ==
  ASSUME NEW to \in Edge, Exists(to), NEW y \in Year, NEW m \in Month,
         y > to.year \/ (y = to.year /\ m > to.month)
  PROVE  /\ Time(DaysBefore(y, m, 1), 0, 0, 0) \in Nat
         /\ LastDatetime(to) < Time(DaysBefore(y, m, 1), 0, 0, 0)
<1> DEFINE last == Default(to.day, DaysIn[to.year][to.month])
           days == DaysBefore(to.year, to.month, last)
           h == Default(to.hour, Hours - 1)  min == Default(to.minute, Minutes - 1)
           ours == DaysBefore(y, m, 1)
           next == DaysBefore(to.year, to.month + 1, 1)
<1>1. LastDatetime(to) = Time(days, h, min, Seconds - 1)
  BY LastDayIs DEF LastDatetime
<1>2. h \in 0 .. Hours - 1 /\ min \in 0 .. Minutes - 1 /\ Seconds - 1 \in 0 .. Seconds - 1
  BY HoursSpan, MinutesSpan, CalendarTyped
<1>3. to.year \in Int /\ to.month \in Int /\ y \in Int /\ m \in Int /\ to.month + 1 \in Int
  <2>1. to.year \in Year /\ to.month \in Month
    BY DaysSpan
  <2> QED
    BY <2>1, CalendarTyped
<1>4. last \in Int /\ DaysIn[to.year][to.month] \in Int /\ last <= DaysIn[to.year][to.month]
  <2>1. to.year \in Year /\ to.month \in Month
    BY DaysSpan
  <2>2. last \in Nat /\ <<to.year, to.month, last>> \in DaysOf(to)
    BY DaysSpan
  <2>3. <<to.year, to.month, last>> \in Day
    BY <2>2 DEF DaysOf
  <2> HIDE DEF last
  <2>4. last \in 1 .. DaysIn[to.year][to.month]
    BY <2>3, DayIs
  <2> QED
    BY <2>1, <2>4, CalendarTyped
<1> HIDE DEF last
<1>5. days + 1 <= next
  <2>1. next = DaysBefore(to.year, to.month, DaysIn[to.year][to.month]) + 1
    BY DaysSpan, LastOfMonth
  <2>2. ~Precedes(to.year, to.month, DaysIn[to.year][to.month], to.year, to.month, last)
    BY <1>3, <1>4 DEF Precedes
  <2>3. days <= DaysBefore(to.year, to.month, DaysIn[to.year][to.month])
    BY <1>3, <1>4, <2>2, DaysBeforeGrows
  <2>4. days \in Nat /\ DaysBefore(to.year, to.month, DaysIn[to.year][to.month]) \in Nat
    BY DaysBeforeIs
  <2> QED
    BY <2>1, <2>3, <2>4
<1>6. next <= ours
  <2>1. ~Precedes(y, m, 1, to.year, to.month + 1, 1)
    BY <1>3 DEF Precedes
  <2> QED
    BY <1>3, <2>1, DaysBeforeGrows
<1>7. days \in Nat /\ next \in Nat /\ ours \in Nat
  BY DaysBeforeIs
<1> HIDE DEF days, next, ours, h, min
<1>8. Time(days, h, min, Seconds - 1) < Time(days + 1, 0, 0, 0)
  BY <1>2, <1>7, DayEnds
<1>9. Time(days + 1, 0, 0, 0) <= Time(ours, 0, 0, 0)
  <2>1. days + 1 \in Nat /\ days + 1 <= ours
    BY <1>5, <1>6, <1>7
  <2> QED
    BY <1>7, <2>1, TimeGrows
<1>10. /\ Time(ours, 0, 0, 0) \in Nat /\ Time(days + 1, 0, 0, 0) \in Nat
       /\ Time(days, h, min, Seconds - 1) \in Nat
  <2>1. days + 1 \in Nat /\ h \in Nat /\ min \in Nat /\ Seconds - 1 \in Nat
    BY <1>2, <1>7
  <2> QED
    BY <1>7, <2>1, TimeTyped
<1> QED
  BY <1>1, <1>8, <1>9, <1>10 DEF ours

(* The tests on the names of directories drop no file of the timespan,     *)
(* whatever months and years its edges lie in.                             *)
THEOREM NoDirectoryIsMissed ==
  ASSUME NEW from \in Edge, NEW to \in Edge, Exists(from), Exists(to),
         NEW f, f.year \in Year, f.month \in Month, f.time \in Nat,
         InMonth(f.year, f.month, f.time),
         Between(f.time, from, to)
  PROVE  DirMatches(f, from, to)
<1>1. FirstDatetime(from) <= f.time /\ f.time <= LastDatetime(to)
  BY BetweenIs
<1>2. FirstDatetime(from) \in Nat /\ LastDatetime(to) \in Nat
  BY EdgesTyped
<1>3. ~(f.year < from.year \/ (f.year = from.year /\ f.month < from.month))
  <2> SUFFICES ASSUME f.year < from.year \/ (f.year = from.year /\ f.month < from.month)
               PROVE  FALSE
    OBVIOUS
  <2>1. /\ Time(DaysBefore(f.year, f.month + 1, 1), 0, 0, 0) \in Nat
        /\ Time(DaysBefore(f.year, f.month + 1, 1), 0, 0, 0) <= FirstDatetime(from)
    BY MonthsBefore
  <2>2. f.time < Time(DaysBefore(f.year, f.month + 1, 1), 0, 0, 0)
    BY DEF InMonth
  <2> QED
    BY <1>1, <1>2, <2>1, <2>2
<1>4. ~(f.year > to.year \/ (f.year = to.year /\ f.month > to.month))
  <2> SUFFICES ASSUME f.year > to.year \/ (f.year = to.year /\ f.month > to.month)
               PROVE  FALSE
    OBVIOUS
  <2>1. /\ Time(DaysBefore(f.year, f.month, 1), 0, 0, 0) \in Nat
        /\ LastDatetime(to) < Time(DaysBefore(f.year, f.month, 1), 0, 0, 0)
    BY MonthsAfter
  <2>2. Time(DaysBefore(f.year, f.month, 1), 0, 0, 0) <= f.time
    BY DEF InMonth
  <2> QED
    BY <1>1, <1>2, <2>1, <2>2
<1> QED
  BY <1>3, <1>4 DEF DirMatches

(* An archive whose files lie in the directories of their months.          *)
Sorted(archive) ==
  \A f \in archive : /\ f.year \in Year /\ f.month \in Month /\ f.time \in Nat
                     /\ InMonth(f.year, f.month, f.time)

LEMMA MatchingIs ==
  ASSUME NEW archive, Sorted(archive),
         NEW from \in Edge, NEW to \in Edge, Exists(from), Exists(to), NEW f \in archive
  PROVE  f \in Matching(archive, from, to) <=> Between(f.time, from, to)
<1>1. /\ f.year \in Year /\ f.month \in Month /\ f.time \in Nat
      /\ InMonth(f.year, f.month, f.time)
  BY DEF Sorted
<1>2. FirstDatetime(from) \in Nat /\ LastDatetime(to) \in Nat
  BY EdgesTyped
<1>3. Between(f.time, from, to) <=> FirstDatetime(from) <= f.time /\ f.time <= LastDatetime(to)
  BY <1>1, BetweenIs
<1>4. Between(f.time, from, to) => DirMatches(f, from, to)
  BY <1>1, NoDirectoryIsMissed
<1> QED
  BY <1>1, <1>2, <1>3, <1>4 DEF Matching

(* What find_consensuses returns: every file once, in the order of time.   *)
LEMMA FoundAreMatching ==
  ASSUME NEW archive, IsFiniteSet(archive), NEW from, NEW to,
         \A f \in archive : f.time \in Nat,
         \A f, g \in archive : f.time = g.time => f = g,
         NEW s \in FindConsensuses(archive, from, to)
  PROVE  /\ s \in Seq(archive)
         /\ \A i \in DOMAIN s : s[i] \in Matching(archive, from, to)
         /\ \A f \in Matching(archive, from, to) : \E i \in DOMAIN s : s[i] = f
         /\ \A i, j \in DOMAIN s : i < j => s[i].time < s[j].time
<1> DEFINE files == Matching(archive, from, to)
           n == Cardinality(files)
<1>1. files \subseteq archive
  BY DEF Matching
<1>2. IsFiniteSet(files) /\ n \in Nat
  BY <1>1, FS_Subset, FS_CardinalityType
<1>3. /\ s \in [1 .. n -> files]
      /\ \A i, j \in DOMAIN s : i < j => s[i].time <= s[j].time /\ s[i] # s[j]
  BY DEF FindConsensuses
<1> HIDE DEF files
<1>4. Cardinality(1 .. n) = n
  <2> HIDE DEF n
  <2>1. 1 \in Int /\ n \in Int
    BY <1>2
  <2>2. Cardinality(1 .. n) = IF 1 > n THEN 0 ELSE n - 1 + 1
    BY <2>1, FS_Interval
  <2> QED
    BY <1>2, <2>2
<1> HIDE DEF n
<1>5. s \in Injection(1 .. n, files)
  <2>1. ASSUME NEW i \in 1 .. n, NEW j \in 1 .. n, s[i] = s[j]
        PROVE  i = j
    <3>1. i \in Int /\ j \in Int /\ i \in DOMAIN s /\ j \in DOMAIN s
      BY <1>2, <1>3
    <3>2. ~(i < j) /\ ~(j < i)
      BY <1>3, <2>1, <3>1
    <3> QED
      BY <3>1, <3>2
  <2> QED
    BY <1>3, <2>1 DEF Injection, IsInjective
<1>6. s \in Surjection(1 .. n, files)
  BY <1>2, <1>4, <1>5, FS_Injection DEF n
<1>7. \A f \in files : \E i \in DOMAIN s : s[i] = f
  BY <1>3, <1>6 DEF Surjection
<1>8. \A i, j \in DOMAIN s : i < j => s[i].time < s[j].time
  <2> TAKE i, j \in DOMAIN s
  <2> HAVE i < j
  <2>1. s[i].time <= s[j].time /\ s[i] # s[j]
    BY <1>3
  <2>2. s[i] \in archive /\ s[j] \in archive
    BY <1>1, <1>3
  <2>3. s[i].time \in Nat /\ s[j].time \in Nat /\ s[i].time # s[j].time
    BY <2>1, <2>2
  <2> QED
    BY <2>1, <2>3
<1>9. s \in Seq(archive)
  BY <1>1, <1>2, <1>3
<1>10. \A i \in DOMAIN s : s[i] \in files
  BY <1>3
<1> QED
  BY <1>7, <1>8, <1>9, <1>10 DEF files

=============================================================================
