----------------------------- MODULE MonthScan ------------------------------
(***************************************************************************)
(* The calendar behind the monthly scan of command files: how days become  *)
(* dates and back (utils_time.cpp, utils_nbr2str.cpp), which slice of      *)
(* months and which slice of days a command belongs to, and which commands *)
(* GetReadyCmdsForMonth() hands over (processing/event_file_handler.cpp).  *)
(* Times are days since 1970-01-01: the slices of months and days start at *)
(* midnight.  Times of day appear only where milsecond2str() writes a time *)
(* and cstr2milsecond() reads it.  A date is a record of year, month, day. *)
(***************************************************************************)
EXTENDS Integers, Sequences, FiniteSetsExt

CONSTANT ScanTimeOut \* msTimeOut_

ASSUME MonthScanAssumption == ScanTimeOut \in Nat

Date(y, m, d) == [year |-> y, month |-> m, day |-> d]

------------------------------------------------------------------------------
\* utils_time.cpp: the days before each month, in a normal and a leap year.
mon_yday ==
  << <<0, 31, 59, 90, 120, 151, 181, 212, 243, 273, 304, 334, 365>>,
     <<0, 31, 60, 91, 121, 152, 182, 213, 244, 274, 305, 335, 366>> >>

isleap(y) == IF y % 4 = 0 /\ (y % 100 # 0 \/ y % 400 = 0) THEN 1 ELSE 0

\* The same of a year that counts from 1900; 19 centuries are 1 short of a
\* multiple of 4.
leapyear(year) ==
  IF year % 4 = 0 /\ (year % 100 # 0 \/ (year \div 100) % 4 = (-19) % 4) THEN 1 ELSE 0

\* Leap days up to the year before one that counts from 1900.
LeapDays(year) ==
  LET a4   == (year \div 4) + (1900 \div 4) - (IF year % 4 = 0 THEN 1 ELSE 0)
      a100 == a4 \div 25
  IN a4 - a100 + (a100 \div 4)

\* cstr2milsecond() and mktime() with ydhms_diff(): the day of a date.
mktime(date) ==
  LET mon  == date.month - 1
      year == date.year - 1900 + (mon \div 12)
      yday == mon_yday[leapyear(year) + 1][(mon % 12) + 1] - 1 + date.day
  IN 365 * (year - 70) + yday + LeapDays(year) - LeapDays(70)

\* localtime_r(): guesses the year and corrects the days until they are in it.
LeapsThruEndOf(y) == (y \div 4) - (y \div 100) + (y \div 400)

RECURSIVE YearOf(_, _)
YearOf(y, days) ==
  IF 0 <= days /\ days < 365 + isleap(y) THEN [year |-> y, yday |-> days]
  ELSE LET yg == y + (days \div 365)
       IN YearOf(yg, days - ((yg - y) * 365 + LeapsThruEndOf(yg - 1)
                             - LeapsThruEndOf(y - 1)))

localtime_r(t) ==
  LET at == YearOf(1970, t)
      ip == mon_yday[isleap(at.year) + 1]
      m  == Max({n \in 1 .. 12 : ip[n] <= at.yday})
  IN Date(at.year, m, at.yday - ip[m] + 1)

------------------------------------------------------------------------------
\* utils_nbr2str.cpp: times.  A time is a day, a second of it and a
\* millisecond; its text up to six numbers, then digits behind a point.

milsecond2str(time) ==
  LET date == localtime_r(time.day) IN
  [numbers  |-> <<date.year, date.month, date.day,
                  time.second \div 3600, (time.second \div 60) % 60, time.second % 60>>,
   fraction |-> <<time.ms \div 100, (time.ms \div 10) % 10, time.ms % 10>>]

\* Numbers that are not there are 0, as a month or a day too; of the fraction
\* three digits count, unless the format does without a point.
cstr2milsecond(text, point) ==
  LET number == [i \in 1 .. 6 |-> IF i \in DOMAIN text.numbers THEN text.numbers[i] ELSE 0]
      digit  == [i \in 1 .. 3 |-> IF i \in DOMAIN text.fraction THEN text.fraction[i] ELSE 0]
  IN [day    |-> mktime(Date(number[1], number[2], number[3])),
      second |-> 3600 * number[4] + 60 * number[5] + number[6],
      ms     |-> IF point THEN 100 * digit[1] + 10 * digit[2] + digit[3] ELSE 0]

------------------------------------------------------------------------------
\* event_file_handler.cpp: slices.

\* dateTime2MonthTime() and getMonthKey(): months since 1970, in cycles.
getMonthKey(t, cycle) ==
  LET date == localtime_r(t)
  IN ((date.year - 1970) * 12 + date.month - 1) \div cycle

\* The first day behind a slice of months.
getMonthTimeoutTime(key, cycle) ==
  LET count == (key + 1) * cycle
  IN Date((count \div 12) + 1970, (count % 12) + 1, 1)

getMonthMilscdKey(t, cycle) ==
  mktime(getMonthTimeoutTime(getMonthKey(t, cycle) - 1, cycle))

\* The first day of a slice of days.
getDateKey(t, cycle) ==
  LET date == localtime_r(t)
  IN [date EXCEPT !.day = ((@ - 1) \div cycle) * cycle + 1]

daysForMonths ==
  << <<31, 28, 31, 30, 31, 30, 31, 31, 30, 31, 30, 31>>,
     <<31, 29, 31, 30, 31, 30, 31, 31, 30, 31, 30, 31>> >>

\* The first day behind a slice of days; the last of a month may be short.
getDayFrequencyTimeout(key, cycle) ==
  IF key.day + cycle <= daysForMonths[isleap(key.year) + 1][key.month]
  THEN [key EXCEPT !.day = @ + cycle]
  ELSE IF key.month = 12 THEN Date(key.year + 1, 1, 1)
  ELSE Date(key.year, key.month + 1, 1)

------------------------------------------------------------------------------
\* A command: the day its events are of and the day its output was opened.
\* ScanCmdPathForMonth() files it under both its slices.
MonthSlice(cmd, cycle) == getMonthMilscdKey(cmd.window, cycle)
DateSlice(cmd, frequency) == mktime(getDateKey(cmd.window, frequency))

MonthOver(slice, cycle, now) ==
  mktime(getMonthTimeoutTime(getMonthKey(slice, cycle), cycle)) + ScanTimeOut < now

\* Mutant: a slice of days is over at its beginning.
DaysOver_early(slice, frequency, now) == slice + ScanTimeOut < now

DaysOver(slice, frequency, now) ==
  mktime(getDayFrequencyTimeout(getDateKey(slice, frequency), frequency)) + ScanTimeOut < now

\* GetReadyCmdsForMonth().  A slice of months that is over goes as a whole.
\* In the others the slices of days are visited in turn: one that is over is
\* taken, unless its oldest command is too young, when the loop stays at it
\* with the time it was called at, so it does not return.
GetReadyCmdsForMonth(scanned, cycle, frequency, now) ==
  LET open == {cmd \in scanned : ~MonthOver(MonthSlice(cmd, cycle), cycle, now)}
      over == {cmd \in open : DaysOver(DateSlice(cmd, frequency), frequency, now)}
      With(cmd) == {other \in over : DateSlice(other, frequency) = DateSlice(cmd, frequency)}
  IN [ready   |-> (scanned \ open) \cup over,
      returns |-> \A cmd \in over :
                    Min({other.opened : other \in With(cmd)}) + ScanTimeOut < now]

------------------------------------------------------------------------------
\* Reference: the first day of a year, counted year by year.
NewYear[y \in 1970 .. 2400] ==
  IF y = 1970 THEN 0 ELSE NewYear[y - 1] + 365 + isleap(y - 1)

DatesOf(y) ==
  UNION {{Date(y, m, d) : d \in 1 .. daysForMonths[isleap(y) + 1][m]} : m \in 1 .. 12}

DayIn(date) ==
  mon_yday[isleap(date.year) + 1][date.month] + date.day - 1

DaysOf(y) == NewYear[y] .. NewYear[y] + 364 + isleap(y)

\* Dates and days of a year correspond one to one, and the two conversions,
\* which count leap years each in its own way, are right about every one.
IsCalendar(y) ==
  LET first == NewYear[y] IN
  \A date \in DatesOf(y) :
    /\ mktime(date) = first + DayIn(date)
    /\ localtime_r(first + DayIn(date)) = date

\* A time is read as it was written; with less of the text it is the second,
\* the hour or the day it lies in, or the fraction is cut.
ReadsTimes(t) ==
  \A second \in {0, 59, 60, 3599, 3600, 43199, 86399}, ms \in {0, 1, 10, 99, 100, 999} :
    LET time == [day |-> t, second |-> second, ms |-> ms]
        text == milsecond2str(time)
        Short(n, digits) == [numbers  |-> SubSeq(text.numbers, 1, n),
                             fraction |-> SubSeq(text.fraction, 1, digits)]
    IN /\ cstr2milsecond(text, TRUE) = time
       /\ cstr2milsecond(text, FALSE) = [time EXCEPT !.ms = 0]
       /\ \A n \in 0 .. 2 : cstr2milsecond(Short(6, n), TRUE) = [time EXCEPT !.ms = @ - (@ % 10^(3 - n))]
       /\ cstr2milsecond(Short(4, 0), TRUE) = [day |-> t, second |-> second - (second % 3600), ms |-> 0]
       /\ cstr2milsecond(Short(3, 0), TRUE) = [day |-> t, second |-> 0, ms |-> 0]

\* The slices of months tile the calendar, those of days tile each slice of
\* months: a day is in the slice it is filed under, the next slice starts
\* where it ends, and a slice of days never reaches out of its months.
InItsSlices(t, cycle, frequency) ==
  LET months == getMonthMilscdKey(t, cycle)
      next   == mktime(getMonthTimeoutTime(getMonthKey(t, cycle), cycle))
      days   == mktime(getDateKey(t, frequency))
      after  == mktime(getDayFrequencyTimeout(getDateKey(t, frequency), frequency))
  IN /\ months <= days /\ days <= t /\ t < after /\ after <= next
     /\ getMonthMilscdKey(next, cycle) = next
     /\ mktime(getDateKey(after, frequency)) = after
     /\ days < t => mktime(getDateKey(t - 1, frequency)) = days
     /\ months < t => getMonthMilscdKey(t - 1, cycle) = months

\* What a scan hands over is complete and final: the slice of days of every
\* command that goes has ended by the time-out before, and no other command
\* stays whose slice has.  And it returns, if every output was opened before
\* its slice was over.
ScansWhole(scanned, cycle, frequency, now) ==
  LET End(cmd) == mktime(getDayFrequencyTimeout(
                    getDateKey(cmd.window, frequency), frequency))
      scan     == GetReadyCmdsForMonth(scanned, cycle, frequency, now)
  IN /\ scan.ready = {cmd \in scanned : End(cmd) + ScanTimeOut < now}
     /\ (\A cmd \in scanned : cmd.opened < End(cmd)) => scan.returns
=============================================================================
