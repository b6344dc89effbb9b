------------------------------ MODULE Calendar ------------------------------
(***************************************************************************)
(* Network time as a date and a time of day: the conversions of            *)
(* src/core.cpp and the calls that set some of the fields of a router's    *)
(* clock.  A time is days since 1970-01-01 and seconds of the day; the     *)
(* milliseconds pass through both conversions unchanged and are left out.  *)
(***************************************************************************)
EXTENDS Integers

CONSTANTS
    Dates,          \* <<year, month, day>> the application sets
    Times,          \* <<hour, minute, second>> the application sets
    MaxDay          \* bound: 146097 days are the 400 years of an era

ASSUME CalendarAssumption ==
    /\ Dates \subseteq Int \X Nat \X Nat /\ Times \subseteq Nat \X Nat \X Nat
    /\ MaxDay \in Nat

VARIABLE clock      \* current_network_ms as [day, sod]

CalendarInit == clock = [day |-> 0, sod |-> 0]

-----------------------------------------------------------------------------
(* Conversions *)

(* Mutant: a day is not taken from the last year of a century. *)
YearOfEraLate(doe) == (doe - doe \div 1460 - doe \div 146096) \div 365

YearOfEra(doe) == (doe - doe \div 1460 + doe \div 36524 - doe \div 146096) \div 365

(* split_unix_ms: the years of the computation start in March. *)
SplitUnix(time) ==
    LET z     == time.day + 719468
        era   == z \div 146097
        doe   == z - era * 146097
        yoe   == YearOfEra(doe)
        doy   == doe - (365 * yoe + yoe \div 4 - yoe \div 100)
        mp    == (5 * doy + 2) \div 153
        month == IF mp < 10 THEN mp + 3 ELSE mp - 9
    IN  [year |-> yoe + era * 400 + (IF month <= 2 THEN 1 ELSE 0),
         month |-> month,
         day |-> doy - (153 * mp + 2) \div 5 + 1,
         hour |-> time.sod \div 3600,
         minute |-> (time.sod % 3600) \div 60,
         second |-> time.sod % 60]

(* is_leap_year, days_in_month *)
IsLeapYear(year) == (year % 4 = 0 /\ year % 100 # 0) \/ year % 400 = 0
DaysInMonth(year, month) ==
    CASE month \in {1, 3, 5, 7, 8, 10, 12} -> 31
      [] month \in {4, 6, 9, 11} -> 30
      [] month = 2 -> IF IsLeapYear(year) THEN 29 ELSE 28
      [] OTHER -> 0

(* days_from_civil *)
DaysFromCivil(y, month, day) ==
    LET year == IF month <= 2 THEN y - 1 ELSE y
        era  == year \div 400
        yoe  == year - era * 400
        doy  == (153 * (IF month > 2 THEN month - 3 ELSE month + 9) + 2) \div 5 + day - 1
    IN  era * 146097 + yoe * 365 + yoe \div 4 - yoe \div 100 + doy - 719468

(* network_time_to_unix_ms: the fields it accepts, and their time *)
FieldsFit(f) ==
    /\ f.month \in 1 .. 12 /\ f.day \in 1 .. DaysInMonth(f.year, f.month)
    /\ f.hour <= 23 /\ f.minute <= 59 /\ f.second <= 59
ToUnix(f) ==
    [day |-> DaysFromCivil(f.year, f.month, f.day),
     sod |-> f.hour * 3600 + f.minute * 60 + f.second]

-----------------------------------------------------------------------------
(* set_network_time_from_fields: the fields not given keep their values; a *)
(* time that does not exist is refused.                                    *)
SetFields(fields) ==
    /\ FieldsFit(fields)
    /\ ToUnix(fields).day \in 0 .. MaxDay
    /\ clock' = ToUnix(fields)

(* seds_router_set_local_network_date *)
SetDate(d) ==
    SetFields([SplitUnix(clock) EXCEPT !.year = d[1], !.month = d[2], !.day = d[3]])

(* seds_router_set_local_network_time_hms *)
SetTime(t) ==
    SetFields([SplitUnix(clock) EXCEPT !.hour = t[1], !.minute = t[2], !.second = t[3]])

DayPasses ==
    /\ clock.day < MaxDay
    /\ clock' = [clock EXCEPT !.day = @ + 1]

CalendarNext ==
    \/ \E d \in Dates : SetDate(d)
    \/ \E t \in Times : SetTime(t)
    \/ DayPasses

CalendarSpec == CalendarInit /\ [][CalendarNext]_clock

-----------------------------------------------------------------------------
(* Property *)

(* The Gregorian calendar, day after day *)
MonthLengths(year) ==
    <<31, IF year % 400 = 0 \/ (year % 4 = 0 /\ year % 100 # 0) THEN 29 ELSE 28,
      31, 30, 31, 30, 31, 31, 30, 31, 30, 31>>
DayAfter(f) ==
    IF f.day < MonthLengths(f.year)[f.month] THEN [f EXCEPT !.day = @ + 1]
    ELSE IF f.month < 12 THEN [f EXCEPT !.month = @ + 1, !.day = 1]
    ELSE [f EXCEPT !.year = @ + 1, !.month = 1, !.day = 1]

(***************************************************************************)
(* Through a whole era of 400 years, the date of every time set or reached *)
(* is the one a calendar kept day by day shows, it converts back to the    *)
(* time it came from, and a day past the end of a month is refused         *)
(* (split_unix_ms, network_time_to_unix_ms): the divisions of the          *)
(* conversions are off at no end of a month, leap day or century.          *)
(***************************************************************************)
CalendarIsExact ==
    LET f == SplitUnix(clock)
    IN  /\ clock.day = 0 => <<f.year, f.month, f.day>> = <<1970, 1, 1>>
        /\ SplitUnix([clock EXCEPT !.day = @ + 1]) = DayAfter(f)
        /\ FieldsFit(f) /\ ToUnix(f) = clock
        /\ ~FieldsFit([f EXCEPT !.day = MonthLengths(f.year)[f.month] + 1])
=============================================================================
