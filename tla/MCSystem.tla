----------------------------- MODULE MCSystem ------------------------------
EXTENDS System

\* One day of the two is enabled; every order of the two times.
OneDaySchedules ==
  [on : BOOLEAN, days : {{0}}, sleep : 0 .. DayLen - 1, wake : 0 .. DayLen - 1, resume : BOOLEAN]
=============================================================================
