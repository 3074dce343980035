---------------------------- MODULE CronSchedule ----------------------------
(***************************************************************************)
(* The latest time a CronJob should have started its Job: the fields of    *)
(* its schedule are expanded to sets of numbers, and the days before now   *)
(* are searched backwards for one that matches.                            *)
(*                                                                         *)
(* A field is a set of parts: "*", a range or a number, with or without a  *)
(* step.  A time is a number of minutes; the calendar says of each day its *)
(* month, its number in the month and its weekday, of a time zone without  *)
(* daylight saving.                                                        *)
(***************************************************************************)
EXTENDS FiniteSetsExt, Integers, Sequences

CONSTANTS
  Calendar,  \* the days the model knows
  Hours,     \* of a day
  Minutes,   \* of an hour
  Lookback,  \* days searched, 367 in the code
  Grace      \* two minutes: a Job may start that late

Field == {"minutes", "hours", "days", "months", "weekdays"}

ASSUME CronAssumption ==
  /\ Calendar \in Seq([day : 1..31, month : 1..12, weekday : 0..6])
  /\ {Hours, Minutes, Lookback} \subseteq Nat \ {0}
  /\ Grace \in Nat

(* The first and the last number a field may have.                         *)
Lowest(f) == IF f \in {"days", "months"} THEN 1 ELSE 0
Highest(f) ==
  CASE f = "minutes" -> Minutes - 1
    [] f = "hours" -> Hours - 1
    [] f = "days" -> 31
    [] f = "months" -> 12
    [] f = "weekdays" -> 7

Part(from, to, step) == [kind |-> "part", from |-> from, to |-> to, step |-> step]
Star == [kind |-> "any", from |-> 0, to |-> 0, step |-> 1]
StarStep(step) == [Star EXCEPT !.kind = "every", !.step = step]
(* A number with a step goes on to the end of the field.                   *)
Onwards(n, step) == [Part(n, n, step) EXCEPT !.kind = "from"]

PartStart(p, f) == IF p.kind \in {"any", "every"} THEN Lowest(f) ELSE p.from
PartEnd(p, f) == IF p.kind = "part" THEN p.to ELSE Highest(f)

PartIsValid(p, f) ==
  /\ p.step > 0
  /\ PartStart(p, f) \in Lowest(f)..PartEnd(p, f)
  /\ PartEnd(p, f) <= Highest(f)

IsValid(s) == s.zoneIsKnown /\ \A f \in Field : \A p \in s[f] : PartIsValid(p, f)

CronValues(s, f) ==
  UNION {{n \in PartStart(p, f)..PartEnd(p, f) : (n - PartStart(p, f)) % p.step = 0} : p \in s[f]}

(* Sunday is 0 or 7.  When both day fields are restricted one will do.     *)
CronDayMatches(s, date) ==
  LET ofMonth == date.day \in CronValues(s, "days")
      ofWeek == \/ date.weekday \in CronValues(s, "weekdays")
                \/ date.weekday = 0 /\ 7 \in CronValues(s, "weekdays")
  IN CASE s.days = {Star} /\ s.weekdays = {Star} -> TRUE
       [] s.days = {Star} /\ s.weekdays # {Star} -> ofWeek
       [] s.days # {Star} /\ s.weekdays = {Star} -> ofMonth
       [] OTHER -> ofMonth \/ ofWeek

DayMatches(s, d) ==
  Calendar[d].month \in CronValues(s, "months") /\ CronDayMatches(s, Calendar[d])

Never == -1
DayOf(t) == t \div (Hours * Minutes) + 1
TimeAt(d, hour, minute) == ((d - 1) * Hours + hour) * Minutes + minute

LatestCronSchedule(s, now) ==
  LET cutoff == now - Grace
      candidates(d) == {t \in {TimeAt(d, h, m) : h \in CronValues(s, "hours"),
                                             m \in CronValues(s, "minutes")} : t <= cutoff}
      latest[k \in 0..Lookback] ==  \* in the k days still to be searched
        LET d == DayOf(cutoff) - (Lookback - k)
        IN IF k = 0 \/ d < 1 THEN Never
           ELSE IF DayMatches(s, d) /\ candidates(d) # {} THEN Max(candidates(d))
           ELSE latest[k - 1]
  IN IF cutoff < 0 THEN Never ELSE latest[Lookback]

(* What the schedule says: the last minute that matches every field.       *)
LatestMatch(s, now) ==
  LET matches == {t \in 0..(now - Grace) :
                    /\ DayMatches(s, DayOf(t))
                    /\ (t \div Minutes) % Hours \in CronValues(s, "hours")
                    /\ t % Minutes \in CronValues(s, "minutes")}
  IN IF matches = {} THEN Never ELSE Max(matches)
=============================================================================
