-------------------------------- MODULE MCClock ---------------------------------
(***************************************************************************)
(* Calls just before the end of a minute, a day, a leap February, a        *)
(* February and a year, and one at noon.                                   *)
(***************************************************************************)
EXTENDS Clock

Instants ==
  {<<DayNumber(2024, 2, 28), 86398>>, <<DayNumber(2024, 2, 29), 86398>>,
   <<DayNumber(2025, 2, 28), 86398>>, <<DayNumber(2031, 12, 31), 86398>>,
   <<DayNumber(2099, 5, 30), 46798>>, <<DayNumber(2050, 10, 9), 32938>>}
AllModes == SUBSET {"binary", "24h"}
==============================================================================
