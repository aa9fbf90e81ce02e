---------------------------- MODULE BonusOffers ----------------------------
(***************************************************************************)
(* What GetEligibleBonuses lists, the schedule of a rule included, and     *)
(* what GetAllRules lists.  Both only read.                                *)
(*                                                                         *)
(* Time is counted in seconds from the zero value of Go's time.Time,       *)
(* midnight of a Monday.  time.Parse takes a date to be UTC; the weekday   *)
(* of time.Now is that of the server's own zone.                           *)
(***************************************************************************)
EXTENDS Bonus

CONSTANT Schedules   \* rule id -> schedule, of the rules that have one

Day == 86400

Weekdays == <<"Monday", "Tuesday", "Wednesday", "Thursday", "Friday",
              "Saturday", "Sunday">>

Weekday(now, zone) == Weekdays[1 + (((now + zone) \div Day) % 7)]

\* A date is the number of its day, or "malformed"; a Parse error is dropped
\* and leaves the zero time.
Midnight(date) == IF date = "malformed" THEN 0 ELSE date * Day

\* A date of Null and an empty set stand for what the schedule leaves out.
\* StartTime and EndTime are read nowhere; the end is the first moment of the
\* end date.
OnSchedule(s, now, zone) ==
  /\ s.start # Null => now >= Midnight(s.start)
  /\ s.end # Null => now <= Midnight(s.end)
  /\ s.days # {} => Weekday(now, zone) \in s.days

checkSchedule(id, now, zone) ==
  id \in DOMAIN Schedules => OnSchedule(Schedules[id], now, zone)

\* claims: what the count answered, 0 when it failed.
Offered(id, player, claims, now, zone) ==
  /\ Rules[id].active
  /\ Rules[id].oneTime => claims = 0
  /\ MeetsConditions(Rules[id], player)
  /\ checkSchedule(id, now, zone)

GetEligibleBonuses(player, claims, now, zone) ==
  {id \in DOMAIN Rules : Offered(id, player, claims[id], now, zone)}

GetAllRules == {id \in DOMAIN Rules : Rules[id].active}
=============================================================================
