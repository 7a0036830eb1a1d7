----------------------------- MODULE Gregorian ------------------------------
(* Python's datetime.date: dates <<year, month, day>>, the number Day of a *)
(* date and its Weekday, 0 for a Monday, which the bond schedules and the  *)
(* calendar of the acquisition both rest on.                               *)
EXTENDS Integers

Leap(y) == (y % 4) = 0 /\ ((y % 100) # 0 \/ (y % 400) = 0)
DaysBefore == <<0, 31, 59, 90, 120, 151, 181, 212, 243, 273, 304, 334>>
Day(x) == 365 * x[1] + (x[1] - 1) \div 4 - (x[1] - 1) \div 100 + (x[1] - 1) \div 400
          + DaysBefore[x[2]] + (IF x[2] > 2 /\ Leap(x[1]) THEN 1 ELSE 0) + x[3]
Weekday(day) == (day + 5) % 7
=============================================================================
