------------------------------- MODULE Tariff -------------------------------
(***************************************************************************)
(* TariffImpl (projects/stargazer/tariff_impl.cpp): which traffic counts,  *)
(* which of the four prices of a direction applies, and when a subscriber  *)
(* may change from one tariff to another.  Prices are whole numbers, a     *)
(* time of day is a minute of the day.                                     *)
(***************************************************************************)
EXTENDS Integers

CONSTANT MB             \* bytes in a megabyte (1024 * 1024)

ASSUME MegabyteAssumption == MB \in Nat \ {0}

TraffTypes == {"up", "down", "up+down", "max"}

\* DirPriceData: the prices of one direction.  The day lasts from dayAt to
\* nightAt; A is the price before the threshold (in megabytes), B after it.
DirPrices(minutes, prices, thresholds) ==
    [dayAt : minutes, nightAt : minutes,
     priceDayA : prices, priceDayB : prices,
     priceNightA : prices, priceNightB : prices,
     threshold : thresholds, singlePrice : BOOLEAN, noDiscount : BOOLEAN]

Larger(a, b) == IF a < b THEN b ELSE a

GetTraffByType(type, up, down) ==
    CASE type = "up"   -> up
      [] type = "down" -> down
      [] type = "max"  -> Larger(up, down)
      [] OTHER         -> up + down

Interval(dp, minute) ==
    IF dp.dayAt < dp.nightAt
      THEN IF minute > dp.dayAt /\ minute < dp.nightAt THEN "day" ELSE "night"
      ELSE IF minute < dp.dayAt /\ minute > dp.nightAt THEN "night" ELSE "day"

GetPriceWithoutFreeMb(dp, mb, minute) ==
    LET night == Interval(dp, minute) = "night"
        over  == mb > dp.threshold
    IN  IF ~dp.noDiscount /\ ~dp.singlePrice /\ night /\ over THEN dp.priceNightB
        ELSE IF ~dp.noDiscount /\ over THEN dp.priceDayB
        ELSE IF ~dp.singlePrice /\ night THEN dp.priceNightA
        ELSE dp.priceDayA

GetPriceWithTraffType(type, dp, up, down, minute) ==
    GetPriceWithoutFreeMb(dp, GetTraffByType(type, up, down) \div MB, minute)

\* timeout 0 means that the policy has no end.
TariffChangeIsAllowed(policy, timeout, fee, newFee, now) ==
    \/ now > timeout /\ timeout # 0
    \/ policy = "allow"
    \/ policy = "to_cheap" /\ newFee < fee
    \/ policy = "to_expensive" /\ newFee >= fee
=============================================================================
