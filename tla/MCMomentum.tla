------------------------------ MODULE MCMomentum ------------------------------
(* Numbers on small instances: two members, moments around the ends of weeks,    *)
(* months and years, and days on which clocks change.                            *)
EXTENDS Momentum, TLC

CONSTANTS u1, u2, t1, t2

Interchangeable == Permutations(Users) \cup Permutations(TaskIds)

On(year, month, day, half) == DayNumber([year |-> year, month |-> month, day |-> day]) * Day + half

Utc == [before |-> 0, at |-> 0, after |-> 0]
Kolkata == [before |-> 0, at |-> 0, after |-> 11]
NewYork == [before |-> -8, at |-> On(2023, 11, 5, 12), after |-> -10]
Sydney == [before |-> 20, at |-> On(2023, 9, 30, 32), after |-> 22]

In(z, moments) == [zone |-> z, moments |-> moments]

\* Round the ends of weeks, months and years, and days on which clocks change, east and west.
FourZones ==
  { In(Utc, << On(2023, 12, 31, 13), On(2024, 1, 1, 4), On(2024, 3, 30, 8) >>),
    In(Kolkata, << On(2024, 1, 30, 10), On(2024, 1, 31, 37), On(2024, 2, 1, 1) >>),
    In(NewYork, << On(2023, 11, 4, 30), On(2023, 11, 5, 9), On(2023, 11, 6, 6) >>),
    In(Sydney, << On(2023, 9, 30, 20), On(2023, 10, 1, 3), On(2023, 10, 2, 9) >>) }

Tomorrow == {1}
ThreeDaysAgo == {-3}
SomeEvery == {None, "monthly"}
=============================================================================
