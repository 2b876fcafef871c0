------------------------------ MODULE Archive ------------------------------
(***************************************************************************)
(* The timespan of a simulation (src/src/cli.rs) and the consensus files   *)
(* that lie in it (src/src/input.rs).                                      *)
(*                                                                         *)
(* An edge of the timespan is a month, a day, an hour or a minute.  The    *)
(* calendar is a parameter; a time is the number of seconds since its      *)
(* beginning.                                                              *)
(*                                                                         *)
(* A definition whose name ends in Bug is a seeded fault: nothing uses it, *)
(* and a property must fail when it takes the place of the definition      *)
(* that follows it.                                                        *)
(***************************************************************************)
EXTENDS Integers, Sequences, FiniteSets

CONSTANTS
  DaysIn,    \* the calendar: DaysIn[year][month] is the length of a month
  Hours,     \* in a day (24)
  Minutes,   \* in an hour (60)
  Seconds,   \* in a minute (60)
  None       \* Rust's None

Year == DOMAIN DaysIn

Month == DOMAIN DaysIn[1]

ASSUME CalendarAssumption ==
  /\ DaysIn \in Seq(Seq(Nat \ {0})) /\ DaysIn # <<>> /\ DaysIn[1] # <<>>
  /\ \A y \in Year : DOMAIN DaysIn[y] = Month
  /\ {Hours, Minutes, Seconds} \subseteq Nat \ {0}
ASSUME NoneAssumption == None \notin Nat

-----------------------------------------------------------------------------
(* chrono (external): a day is <<year, month, day>>.                       *)
Day == UNION {{<<y, m, d>> : d \in 1 .. DaysIn[y][m]} : y \in Year, m \in Month}

DaysBefore(y, m, d) ==
  Cardinality({x \in Day : \/ x[1] < y
                           \/ x[1] = y /\ x[2] < m
                           \/ x[1] = y /\ x[2] = m /\ x[3] < d})

Time(days, h, min, s) == ((days * Hours + h) * Minutes + min) * Seconds + s

(* SimulationRangeEdge: what a coarser edge does not name is None.         *)
Edge ==
  [year : Year, month : Nat, day : Nat \cup {None}, hour : Nat \cup {None},
   minute : Nat \cup {None}]

(* The unwraps of from_ymd_opt and from_hms_opt succeed.  The parser takes *)
(* any two digits.                                                         *)
Exists(e) ==
  /\ e.month \in Month
  /\ e.day \in 1 .. DaysIn[e.year][e.month] \cup {None}
  /\ e.hour \in 0 .. Hours - 1 \cup {None}
  /\ e.minute \in 0 .. Minutes - 1 \cup {None}

Default(x, y) == IF x = None THEN y ELSE x

(* first_datetime                                                          *)
FirstDatetime(e) ==
  Time(DaysBefore(e.year, e.month, Default(e.day, 1)), Default(e.hour, 0), Default(e.minute, 0), 0)

(* last_datetime: the last day of a month is the one before the first of   *)
(* the next month.                                                         *)
LastDay(e) ==
  IF e.day # None THEN DaysBefore(e.year, e.month, e.day)
  ELSE DaysBefore(e.year, e.month + 1, 1) - 1

LastDatetime(e) ==
  Time(LastDay(e), Default(e.hour, Hours - 1), Default(e.minute, Minutes - 1), Seconds - 1)

-----------------------------------------------------------------------------
(* The layout of the archive (external, and nowhere checked): a consensus  *)
(* file lies in the directory of the month of its time.                    *)
InMonth(y, m, t) ==
  Time(DaysBefore(y, m, 1), 0, 0, 0) <= t /\ t < Time(DaysBefore(y, m + 1, 1), 0, 0, 0)

(* The two tests on the name of a directory.                               *)
DirMatchesBug(f, from, to) ==
  f.year \in from.year .. to.year /\ f.month \in from.month .. to.month

DirMatches(f, from, to) ==
  /\ ~(f.year < from.year \/ (f.year = from.year /\ f.month < from.month))
  /\ ~(f.year > to.year \/ (f.year = to.year /\ f.month > to.month))

(* The files that find_consensuses picks from an archive.                  *)
Matching(archive, from, to) ==
  {f \in archive : /\ DirMatches(f, from, to)
                   /\ ~(f.time < FirstDatetime(from) \/ f.time > LastDatetime(to))}

(* The results of find_consensuses: these files, sorted by their times.    *)
FindConsensuses(archive, from, to) ==
  LET files == Matching(archive, from, to)
  IN  {s \in [1 .. Cardinality(files) -> files] :
         \A i, j \in DOMAIN s : i < j => s[i].time <= s[j].time /\ s[i] # s[j]}

-----------------------------------------------------------------------------
(* The seconds an edge describes.                                          *)
Described(e) ==
  {Time(DaysBefore(d[1], d[2], d[3]), h, min, s) :
     d \in {x \in Day : x[1] = e.year /\ x[2] = e.month /\ e.day \in {x[3], None}},
     h \in {x \in 0 .. Hours - 1 : e.hour \in {x, None}},
     min \in {x \in 0 .. Minutes - 1 : e.minute \in {x, None}},
     s \in 0 .. Seconds - 1}

(* t lies between two edges, which are both included.                      *)
Between(t, from, to) ==
  (\E s \in Described(from) : s <= t) /\ (\E s \in Described(to) : t <= s)
=============================================================================
