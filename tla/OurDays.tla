------------------------------- MODULE OurDays -------------------------------
(***************************************************************************)
(* The calendar of a couple: how long they have been together, the          *)
(* anniversary of a year, what happened on this day and in this year, and   *)
(* the reunion ahead, as the home of the space shows them day after day.    *)
(*                                                                         *)
(* A date is the number its eight digits make, so that dates compare as     *)
(* their texts do.  Days are days of the server, in UTC.                    *)
(***************************************************************************)
EXTENDS Integers, Sequences

CONSTANTS
    StartDates,  \* dates a relationship may have begun on
    Openings,    \* dates the space is looked at from
    Occurrences, \* dates things happened on
    MaxDays,     \* bound: days that pass
    MaxKept      \* bound: items kept

ASSUME CalendarAssumption ==
    /\ StartDates \cup Openings \cup Occurrences \subseteq Nat
    /\ {MaxDays, MaxKept} \subseteq Nat

VARIABLES
    startDate,  \* relationship_start_date
    serverDate, \* trusted date
    passed,     \* days that have passed
    keepsakes,  \* items in the order they were created
    yesterday   \* the duration the home showed the day before

dayVars == <<startDate, serverDate, passed, keepsakes, yesterday>>

Keepsakes == [kind : {"memory", "letter", "reunion", "anniversary", "our_year"}, date : Occurrences, locked : BOOLEAN]
NoDuration == [years |-> -1, months |-> -1, days |-> -1]
Duration == [years : 0 .. 200, months : 0 .. 11, days : 0 .. 30]

DayTypeOK ==
    /\ startDate \in StartDates /\ serverDate \in Nat /\ passed \in 0 .. MaxDays
    /\ \A i \in DOMAIN keepsakes : keepsakes[i] \in Keepsakes
    /\ yesterday \in Duration \cup {NoDuration}

-----------------------------------------------------------------------------
(* Dates.                                                                   *)

YearOf(date) == date \div 10000
MonthOf(date) == (date \div 100) % 100
DayOf(date) == date % 100

IsLeap(year) == (year % 4 = 0 /\ year % 100 # 0) \/ year % 400 = 0
LastDayOf(year, month) ==
    IF month = 2 THEN (IF IsLeap(year) THEN 29 ELSE 28) ELSE IF month \in {4, 6, 9, 11} THEN 30 ELSE 31
DateFrom(year, month, day) == 10000 * year + 100 * month + day

DateParts(date) == MonthOf(date) \in 1 .. 12 /\ DayOf(date) \in 1 .. LastDayOf(YearOf(date), MonthOf(date))

\* Days between the date and the first of January of year 1, to take differences of.
DaysBefore == <<0, 31, 59, 90, 120, 151, 181, 212, 243, 273, 304, 334>>
DayNumber(date) ==
    LET y == YearOf(date) - 1
    IN  365 * y + y \div 4 - y \div 100 + y \div 400 + DaysBefore[MonthOf(date)] + DayOf(date)
        + (IF MonthOf(date) > 2 /\ IsLeap(YearOf(date)) THEN 1 ELSE 0)
NextDate(date) ==
    IF DayOf(date) < LastDayOf(YearOf(date), MonthOf(date)) THEN date + 1
    ELSE IF MonthOf(date) < 12 THEN DateFrom(YearOf(date), MonthOf(date) + 1, 1)
    ELSE DateFrom(YearOf(date) + 1, 1, 1)

\* A day the month does not have is its last.
Clamped(year, month, day) ==
    DateFrom(year, month, IF day > LastDayOf(year, month) THEN LastDayOf(year, month) ELSE day)

AddCalendarMonths(date, months) ==
    LET index == MonthOf(date) - 1 + months
    IN  Clamped(YearOf(date) + index \div 12, (index % 12) + 1, DayOf(date))

\* Mutation: the last day of a month is not the anniversary of a day the month lacks.
AnniversaryDateForYear_Unclamped(date, year) == DateFrom(year, MonthOf(date), DayOf(date))

AnniversaryDateForYear(date, year) == Clamped(year, MonthOf(date), DayOf(date))

\* The months that fit, each counted from the start, and the days left.
RelationshipDuration(start, date) ==
    LET fits(n) == AddCalendarMonths(start, n) <= date
        months  == CHOOSE n \in 0 .. 12 * (YearOf(date) - YearOf(start)) + 12 : fits(n) /\ ~ fits(n + 1)
    IN  IF start > date THEN [years |-> 0, months |-> 0, days |-> 0]
        ELSE [years |-> months \div 12, months |-> months % 12,
              days |-> DayNumber(date) - DayNumber(AddCalendarMonths(start, months))]

-----------------------------------------------------------------------------
(* What the space shows of a day.                                           *)

ItemsForThisDay(date) ==
    {i \in DOMAIN keepsakes : /\ keepsakes[i].kind \in {"memory", "letter"} /\ ~ keepsakes[i].locked
                              /\ MonthOf(keepsakes[i].date) = MonthOf(date)
                              /\ DayOf(keepsakes[i].date) = DayOf(date)}
ItemsForYear(year) ==
    {i \in DOMAIN keepsakes : /\ keepsakes[i].kind \in {"memory", "letter"} /\ ~ keepsakes[i].locked
                              /\ YearOf(keepsakes[i].date) = year}
UpcomingReleases == {i \in DOMAIN keepsakes : keepsakes[i].locked}

ThisDay(on) == IF DateParts(on) THEN ItemsForThisDay(on) ELSE {}

\* The newest of those that qualify, 0 for none.
NewestOf(indices) == IF indices = {} THEN 0 ELSE CHOOSE i \in indices : \A j \in indices : j <= i
SavedCuration(kind, year) ==
    NewestOf({i \in DOMAIN keepsakes : keepsakes[i].kind = kind /\ YearOf(keepsakes[i].date) = year})

OurYear(year) == [saved |-> SavedCuration("our_year", year), candidates |-> ItemsForYear(year)]
Anniversary(on) ==
    [date |-> AnniversaryDateForYear(startDate, YearOf(on)), eligible |-> ItemsForYear(YearOf(on)),
     saved |-> SavedCuration("anniversary", YearOf(on))]
Home ==
    [duration    |-> RelationshipDuration(startDate, serverDate),
     anniversary |-> Anniversary(serverDate).date, saved |-> Anniversary(serverDate).saved,
     upcoming    |-> UpcomingReleases,
     reunion     |-> NewestOf({i \in DOMAIN keepsakes : keepsakes[i].kind = "reunion"
                                                        /\ keepsakes[i].date >= serverDate})]

-----------------------------------------------------------------------------
(* The days pass, and things are kept.                                      *)

DayInit ==
    /\ startDate \in StartDates /\ serverDate \in Openings /\ startDate <= serverDate
    /\ passed = 0 /\ keepsakes = <<>> /\ yesterday = NoDuration

NextDay ==
    /\ passed < MaxDays /\ passed' = passed + 1
    /\ serverDate' = NextDate(serverDate) /\ yesterday' = Home.duration
    /\ UNCHANGED <<startDate, keepsakes>>

\* A letter is locked until it is released.
Keep(item) ==
    /\ Len(keepsakes) < MaxKept
    /\ item.locked = (item.kind = "letter")
    /\ keepsakes' = Append(keepsakes, item)
    /\ UNCHANGED <<startDate, serverDate, passed, yesterday>>

Unlock(i) ==
    /\ keepsakes[i].locked /\ keepsakes' = [keepsakes EXCEPT ![i].locked = FALSE]
    /\ UNCHANGED <<startDate, serverDate, passed, yesterday>>

DayNext ==
    \/ NextDay
    \/ \E item \in Keepsakes : Keep(item)
    \/ \E i \in DOMAIN keepsakes : Unlock(i)

DaySpec == DayInit /\ [][DayNext]_dayVars

-----------------------------------------------------------------------------
(* Properties.                                                              *)

Longer(p, q) ==
    \/ p.years > q.years
    \/ p.years = q.years /\ (p.months > q.months \/ (p.months = q.months /\ p.days > q.days))

\* The two ways the source counts a year agree on every date, short months and leap years
\* included: another year of relationshipDuration begins on the very day
\* anniversaryDateForYear names.  The duration grows every day and adds up to today; the home
\* has a reunion while there is one ahead, and what it shows of this day is of this year too.
CalendarAgrees ==
    LET d == Home.duration IN
    /\ d \in Duration
    /\ (serverDate >= Home.anniversary) <=> d.years = YearOf(serverDate) - YearOf(startDate)
    /\ DayNumber(AddCalendarMonths(startDate, 12 * d.years + d.months)) + d.days = DayNumber(serverDate)
    /\ yesterday # NoDuration => Longer(d, yesterday)
    /\ Home.reunion = 0 => \A i \in DOMAIN keepsakes : keepsakes[i].kind # "reunion" \/ keepsakes[i].date < serverDate
    /\ \A i \in ThisDay(serverDate) :
           YearOf(keepsakes[i].date) = YearOf(serverDate) => i \in OurYear(YearOf(serverDate)).candidates
    /\ UpcomingReleases \cap ThisDay(serverDate) = {}

=============================================================================
