---------------------------- MODULE MarketHours ----------------------------
(***************************************************************************)
(* MarketHours of src/src/live/market_hours.hpp: is the market open, and   *)
(* how long until it opens.  main asks both before it creates the exchange *)
(* and shows the second answer to the user, who waits.                     *)
(*                                                                         *)
(* The clock is the machine's local time, in minutes of a weekday (0 is    *)
(* Sunday); it advances in steps that divide the opening and closing       *)
(* times.  Daylight saving changes, which mktime absorbs, are left out.    *)
(***************************************************************************)
EXTENDS Integers

CONSTANT Step   \* minutes between two looks at the clock

StepAssumption == Step \in Nat \ {0} /\ 30 % Step = 0

VARIABLES
  day, minute,
  promised,  \* minutes left of the last answer, -1 when nobody is waiting
  early      \* the question was asked before the opening of a trading day

vars == <<day, minute, promised, early>>

MinutesPerDay == 24 * 60
Opening == 9 * 60 + 30
Closing == 16 * 60

TypeOK ==
  /\ day \in 0 .. 6 /\ minute \in 0 .. MinutesPerDay - 1
  /\ promised \in -1 .. 2 * MinutesPerDay /\ early \in BOOLEAN

Init ==
  /\ day \in 0 .. 6 /\ minute = 0
  /\ promised = -1 /\ early = FALSE

Weekend == day \in {0, 6}

\* is_market_open
IsMarketOpen == ~Weekend /\ minute >= Opening /\ minute < Closing

\* Faulty variant: tm_min keeps the minute it is.
SecondsUntilOpenKeepsMinute ==
  IF IsMarketOpen THEN 0 ELSE MinutesPerDay - minute + 9 * 60 + (minute % 60)

\* seconds_until_open, in minutes: to the opening time of the next day on the
\* calendar, whatever day that is.
SecondsUntilOpen == IF IsMarketOpen THEN 0 ELSE MinutesPerDay - minute + Opening

\* The user asks while the market is closed.
Ask ==
  /\ promised = -1 /\ ~IsMarketOpen
  /\ promised' = SecondsUntilOpen
  /\ early' = (~Weekend /\ minute < Opening)
  /\ UNCHANGED <<day, minute>>

\* Time passes; whoever has waited long enough stops waiting.
Clock ==
  LET now == minute + Step
  IN /\ minute' = now % MinutesPerDay
     /\ day' = IF now < MinutesPerDay THEN day ELSE (day + 1) % 7
     /\ promised' = IF promised >= Step THEN promised - Step ELSE -1
     /\ UNCHANGED early

Next == Ask \/ Clock

Spec == Init /\ [][Next]_vars

----------------------------------------------------------------------------
\* Who was told a time of waiting finds the market open when it is over,
\* unless that is on a weekend, and has not missed an opening, unless the
\* question was asked in the morning of a trading day.
OpensWhenSaid ==
  /\ promised = 0 => IsMarketOpen \/ Weekend
  /\ promised > 0 /\ IsMarketOpen => early
=============================================================================
