--------------------------- MODULE CronExpression ---------------------------
(***************************************************************************)
(* CronExpression and its builder, of packages/local-scheduling.           *)
(*                                                                         *)
(* The calendar is a parameter: how many seconds a minute has, minutes an  *)
(* hour and so on, the days of a month and the years with one day more in  *)
(* the second month.  An instant counts seconds; the host's zone is        *)
(* [change, before, after]: the local time is the instant plus `before`    *)
(* until `change`, plus `after` from then on (Date, external).             *)
(***************************************************************************)
EXTENDS Integers, Sequences, FiniteSets, SequencesExt

CONSTANTS Undefined, SecondsPerMinute, MinutesPerHour, HoursPerDay,
          MonthDays, LeapYears, Years, DaysPerWeek, MAX_SCAN_YEARS

MinuteLength == SecondsPerMinute
HourLength == MinutesPerHour * MinuteLength
DayLength == HoursPerDay * HourLength
DaysOf(y, month) == MonthDays[month] + (IF month = 2 /\ y \in LeapYears THEN 1 ELSE 0)
MaxDay == Max({DaysOf(y, month) : y \in 0..Years, month \in DOMAIN MonthDays})

\* Every day of the calendar, in order; the first is day 0.
Calendar ==
    FlattenSeq([y \in 1..(Years + 1) |->
      FlattenSeq([month \in DOMAIN MonthDays |->
        [d \in 1..DaysOf(y - 1, month) |-> [year |-> y - 1, month |-> month, date |-> d]]])])
FirstOfMonth ==
    [ym \in (0..Years) \X DOMAIN MonthDays |->
       CHOOSE i \in DOMAIN Calendar :
         Calendar[i] = [year |-> ym[1], month |-> ym[2], date |-> 1]]
End == Len(Calendar) * DayLength

\* The local fields of an instant, and the instant of local fields: a local time
\* that is repeated is the first of the two, one that is skipped moves on with the
\* clock.
Local(zone, t) == t + (IF t < zone.change THEN zone.before ELSE zone.after)
DayOf(local) == Calendar[local \div DayLength + 1]
Hour(local) == (local \div HourLength) % HoursPerDay
Minute(local) == (local \div MinuteLength) % MinutesPerHour
Second(local) == local % MinuteLength
Weekday(local) == (local \div DayLength) % DaysPerWeek
newDate(zone, local) ==
    IF local - zone.before >= zone.change /\ local - zone.after >= zone.change
      THEN local - zone.after ELSE local - zone.before

-----------------------------------------------------------------------------
(* Parsing.  A field is a list of segments [low, high, step], where `low`   *)
(* is "*" or a token, `high` is a token or Undefined when there is no dash, *)
(* and `step` is a token or Undefined when there is no slash.  A token is a *)
(* number, a name or a text that is neither.                                *)

Number(n) == <<"number", n>>
Name(name) == <<"name", name>>
\* A field that is valid allows a value: the empty set is the error that is thrown.
parseValue(token, min, max, names) ==
    LET value == CASE token \in DOMAIN names -> {names[token]}
                   [] token[1] = "number" -> {token[2]}
                   [] OTHER -> {}
    IN  value \cap min..max

parseSegment(s, min, max, names) ==
    LET step == IF s.step = Undefined THEN Number(1) ELSE s.step
        low == IF s.low = Name("*") THEN {min} ELSE parseValue(s.low, min, max, names)
        high == CASE s.low = Name("*") -> {max}
                  [] s.low # Name("*") /\ s.high # Undefined -> parseValue(s.high, min, max, names)
                  [] OTHER -> IF s.step # Undefined THEN {max} ELSE low
    IN  IF step[1] # "number" \/ step = Number(0) THEN {}
        ELSE UNION {{v \in l..h : (v - l) % step[2] = 0} : l \in low, h \in high}

parseField(field, min, max, names) ==
    LET parsed == {parseSegment(s, min, max, names) : s \in ToSet(field)} IN
    IF {} \in parsed THEN {} ELSE UNION parsed

NoNames == [token \in {} |-> 0]
MONTH_NAMES == [token \in {Name("JAN"), Name("FEB")} |-> IF token = Name("JAN") THEN 1 ELSE 2]
DAY_OF_WEEK_NAMES == [token \in {Name("SUN"), Name("MON")} |-> IF token = Name("SUN") THEN 0 ELSE 1]

\* The last value of the range is the first day again.
parseDayOfWeek(field) ==
    {v % DaysPerWeek : v \in parseField(field, 0, DaysPerWeek, DAY_OF_WEEK_NAMES)}

\* The text is [second, minute, hour, dayOfMonth, month, dayOfWeek], without a
\* second field for the classic five.
Star == <<[low |-> Name("*"), high |-> Undefined, step |-> Undefined]>>
CronExpression(text) ==
    LET parsed == [seconds |-> IF text.second = Undefined THEN {0}
                               ELSE parseField(text.second, 0, SecondsPerMinute - 1, NoNames),
                   minutes |-> parseField(text.minute, 0, MinutesPerHour - 1, NoNames),
                   hours |-> parseField(text.hour, 0, HoursPerDay - 1, NoNames),
                   daysOfMonth |-> parseField(text.dayOfMonth, 1, MaxDay, NoNames),
                   months |-> parseField(text.month, 1, Len(MonthDays), MONTH_NAMES),
                   daysOfWeek |-> parseDayOfWeek(text.dayOfWeek)]
    IN  [fields |-> parsed, hasSecondsField |-> text.second # Undefined,
         dayOfMonthRestricted |-> text.dayOfMonth # Star,
         dayOfWeekRestricted |-> text.dayOfWeek # Star]
isValid(text) == \A f \in DOMAIN CronExpression(text).fields : CronExpression(text).fields[f] # {}

-----------------------------------------------------------------------------
(* The builder: every field starts as "*" and each call replaces its field. *)

AllStar == [second |-> Undefined, minute |-> Star, hour |-> Star, dayOfMonth |-> Star,
            month |-> Star, dayOfWeek |-> Star]
at(values) == [i \in DOMAIN values |-> [low |-> Number(values[i]), high |-> Undefined, step |-> Undefined]]
step(n) == <<[low |-> Name("*"), high |-> Undefined, step |-> Number(n)]>>
range(start, end, n) ==
    <<[low |-> Number(start), high |-> Number(end), step |-> IF n = Undefined THEN n ELSE Number(n)]>>
hourlyAtMinute(text, minute) == [text EXCEPT !.minute = at(<<minute>>), !.hour = Star]
dailyAt(text, hour, minute) == [text EXCEPT !.minute = at(<<minute>>), !.hour = at(<<hour>>)]
weeklyOn(text, day, hour, minute) == [dailyAt(text, hour, minute) EXCEPT !.dayOfWeek = at(<<day>>)]
monthlyOn(text, day, hour, minute) == [dailyAt(text, hour, minute) EXCEPT !.dayOfMonth = at(<<day>>)]

-----------------------------------------------------------------------------
(* The scan.                                                                *)

bothDays(c, local) ==
    DayOf(local).date \in c.fields.daysOfMonth /\ Weekday(local) \in c.fields.daysOfWeek
matchesDay(c, local) ==
    LET dayOfMonthMatches == DayOf(local).date \in c.fields.daysOfMonth
        dayOfWeekMatches == Weekday(local) \in c.fields.daysOfWeek
    IN  IF c.dayOfMonthRestricted /\ c.dayOfWeekRestricted
          THEN dayOfMonthMatches \/ dayOfWeekMatches
          ELSE dayOfMonthMatches /\ dayOfWeekMatches

\* The local time a candidate that fails is moved to, or Undefined when it matches:
\* the failing field is advanced and every lower one is reset.
NextMonth(day) ==
    IF day.month = Len(MonthDays) THEN FirstOfMonth[<<day.year + 1, 1>>]
    ELSE FirstOfMonth[<<day.year, day.month + 1>>]
advance(c, local) ==
    LET Up(length) == (local \div length + 1) * length IN
    CASE DayOf(local).month \notin c.fields.months -> (NextMonth(DayOf(local)) - 1) * DayLength
      [] DayOf(local).month \in c.fields.months /\ ~matchesDay(c, local) -> Up(DayLength)
      [] OTHER ->
          CASE Hour(local) \notin c.fields.hours -> Up(HourLength)
            [] Hour(local) \in c.fields.hours /\ Minute(local) \notin c.fields.minutes -> Up(MinuteLength)
            [] OTHER -> IF c.hasSecondsField /\ Second(local) \notin c.fields.seconds
                          THEN local + 1 ELSE Undefined

RECURSIVE scan(_, _, _, _)
scan(c, zone, candidate, maxYear) ==
    LET local == Local(zone, candidate) IN
    IF DayOf(local).year > maxYear THEN Undefined
    ELSE IF advance(c, local) = Undefined THEN candidate
    ELSE scan(c, zone, newDate(zone, advance(c, local)), maxYear)

\* The unit the search is rounded up to.
unit(c) == IF c.hasSecondsField THEN 1 ELSE MinuteLength
roundUp(c, from) == IF from % unit(c) = 0 THEN from ELSE (from \div unit(c) + 1) * unit(c)
firstCandidate(c, from) == (from \div unit(c) + 1) * unit(c)
getNextExecutionDate(c, zone, from) ==
    scan(c, zone, firstCandidate(c, from), DayOf(Local(zone, from)).year + MAX_SCAN_YEARS)

RECURSIVE getNextExecutionDates(_, _, _, _)
getNextExecutionDates(c, zone, from, count) ==
    LET next == getNextExecutionDate(c, zone, from) IN
    IF count = 0 \/ next = Undefined THEN <<>>
    ELSE <<next>> \o getNextExecutionDates(c, zone, next, count - 1)

-----------------------------------------------------------------------------
(* Properties                                                               *)

\* The local times a fall-back repeats.
Repeated(zone) == (zone.change + zone.after)..(zone.change + zone.before - 1)

\* An instant matches when its local time does, field by field; of the day fields
\* one that is "*" is ignored, and one of those that are not has to match.
Matches(c, zone, t) ==
    LET local == Local(zone, t) IN
    /\ Second(local) \in c.fields.seconds /\ Minute(local) \in c.fields.minutes
    /\ Hour(local) \in c.fields.hours /\ DayOf(local).month \in c.fields.months
    /\ \/ ~c.dayOfMonthRestricted /\ ~c.dayOfWeekRestricted
       \/ c.dayOfMonthRestricted /\ DayOf(local).date \in c.fields.daysOfMonth
       \/ c.dayOfWeekRestricted /\ Weekday(local) \in c.fields.daysOfWeek

\* From any instant outside a repeated hour the scan, which jumps from field to
\* field, finds the very first instant after `from` that matches, over skipped hours,
\* leap days and the ends of months and years; it finds none only when no instant of
\* the scanned years matches; and the dates after it follow one another.
NextIsFirstMatch(text, zone, from) ==
    LET c == CronExpression(text)
        Outside(t) == Local(zone, t) \notin Repeated(zone)
        Horizon == {t \in (from + 1)..(End - 2 * DayLength) :
                      DayOf(Local(zone, t)).year <= DayOf(Local(zone, from)).year + MAX_SCAN_YEARS}
        dates == getNextExecutionDates(c, zone, from, 2)
    IN  isValid(text) /\ Outside(from) =>
          IF dates = <<>> THEN \A t \in Horizon : ~Matches(c, zone, t)
          ELSE /\ dates[1] > from /\ Matches(c, zone, dates[1])
               /\ \A t \in (from + 1)..(dates[1] - 1) : ~Matches(c, zone, t)
               /\ Len(dates) = 2 /\ Outside(dates[1]) => dates[2] > dates[1]
=============================================================================
