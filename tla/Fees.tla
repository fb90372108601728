--------------------------------- MODULE Fees ---------------------------------
(***************************************************************************)
(* The days and months of a user's account: UsersImpl::Run notices a new   *)
(* day, UsersImpl::NewDay has the fees charged, the services paid and, on  *)
(* the day of reset, the tariff changed (users_impl.cpp, user_impl.cpp).   *)
(*                                                                         *)
(* The unit of time is a day and the calendar is a constant, so that small *)
(* months will do.  Money is counted in units that make every share of a   *)
(* fee an integer.  Each Process... operator takes the user's account and  *)
(* gives the account after it, as the code does under the user's lock.     *)
(***************************************************************************)
EXTENDS Integers, Sequences

CONSTANTS
    DaysInMonth,        \* sequence of the lengths of the months of a year
    Tariffs,            \* function from names to
                        \* [fee, free, daily, passiveCost, policy, timeout]
    NoTariff,           \* the empty name
    Settings,           \* the configurations of server and user looked at
    MaxMonths,          \* bound on the time
    MaxDebt             \* bound on what is paid for freezing

VARIABLES
    settings,           \* what the server read at its start
    month, mday, now,   \* the clock; now counts the days
    up, day,            \* the server runs; the day its thread last saw
    passive,
    user,               \* the account
    \* history of the calendar month: how often the fee was due, what was
    \* charged, whether the user was active and the server up all the time
    due, charged, whole

vars == <<settings, month, mday, now, up, day, passive, user, due, charged, whole>>
clock == <<settings, month, mday, now>>
history == <<due, charged, whole>>

LeapYear        == settings.LeapYear         \* the second month is a day longer
DayFee          == settings.DayFee
DayResetTraff   == settings.DayResetTraff
DayFeeIsLastDay == settings.DayFeeIsLastDay
SpreadFee       == settings.SpreadFee
FullFee         == settings.FullFee
FeeChargeType   == settings.FeeChargeType
Credit          == settings.Credit
Service         == settings.Service          \* [payDay, cost]

\* What the constants are taken to be; a month has more than one day.
FeesConstants ==
    /\ DaysInMonth \in Seq(Nat \ {0, 1}) /\ DaysInMonth # <<>>
    /\ Tariffs \in [DOMAIN Tariffs -> [fee : Nat, free : Nat, daily : BOOLEAN, passiveCost : Nat,
                                       policy : STRING, timeout : Nat]]
    /\ \A s \in Settings : s.DayFee \in Nat /\ s.Service.cost \in Nat /\ s.Cashes \subseteq Int

\* The days of every month share a fee without a remainder.
SharesAreWhole ==
    \A s \in Settings, k \in DOMAIN DaysInMonth, n \in DOMAIN Tariffs \ {NoTariff} :
      LET len == DaysInMonth[k] + IF s.LeapYear /\ k = 2 THEN 1 ELSE 0
      IN  s.SpreadFee /\ ~Tariffs[n].daily => len * (Tariffs[n].fee \div len) = Tariffs[n].fee

\* Months of the year, from 1.
MonthOf(m) == ((m - 1) % Len(DaysInMonth)) + 1
Length(m)  == DaysInMonth[MonthOf(m)] + IF LeapYear /\ MonthOf(m) = 2 THEN 1 ELSE 0

\* The day of the month a setting means; 0 is the last one.
DayOf(d) == IF d = 0 THEN Length(month) ELSE d

Price == INSTANCE Tariff WITH MB <- 1

Tariff(u) == Tariffs[u.tariff]
IsMonthly(u) == u.tariff # NoTariff /\ ~Tariff(u).daily
IsDaily(u)   == u.tariff # NoTariff /\ Tariff(u).daily

-----------------------------------------------------------------------------
ResetPassiveTime(u) == [u EXCEPT !.passiveTime = 0, !.modified = now, !.active = 0]

SetPrepaidTraff(u) == IF u.tariff = NoTariff THEN u ELSE [u EXCEPT !.freeMb = Tariff(u).free]

\* FeeChargeType.
Chargeable(u, fee) ==
    CASE FeeChargeType = 0 -> TRUE
      [] FeeChargeType = 1 -> u.cash + Credit >= 0
      [] FeeChargeType = 2 -> u.cash + Credit >= fee
      [] FeeChargeType = 3 -> u.cash >= 0

Charge(u, fee) == [u EXCEPT !.cash = @ - fee]

\* The share of a fee for the time the user was not frozen: the length of the
\* month before, with a day more in the second month of a leap year.
PassivePart(u, fee) ==
    LET len == DaysInMonth[MonthOf(month + Len(DaysInMonth) - 1)]
                 + IF LeapYear /\ MonthOf(month) = 2 THEN 1 ELSE 0
        dt  == len - u.passiveTime
    IN  IF dt < 0 THEN 0 ELSE (fee * dt) \div len

ProcessDayFeeSpread(u) ==
    LET fee == Tariff(u).fee \div Length(month)
    IN  IF passive \/ ~IsMonthly(u) THEN u
        ELSE IF fee = 0 THEN u
        ELSE ResetPassiveTime(IF Chargeable(u, fee) THEN Charge(u, fee) ELSE u)

ProcessDayFee(u) ==
    LET fee == IF FullFee THEN Tariff(u).fee ELSE PassivePart(u, Tariff(u).fee)
        r   == ResetPassiveTime(u)
    IN  CASE ~IsMonthly(u) \/ (FullFee /\ passive) -> u
          [] OTHER -> CASE fee = 0 -> SetPrepaidTraff(r)
                        [] fee # 0 /\ Chargeable(u, fee) -> SetPrepaidTraff(Charge(r, fee))
                        [] OTHER -> r

\* There is no case for FeeChargeType 3 here.
ProcessDailyFee(u) ==
    LET fee == Tariff(u).fee
    IN  IF passive \/ ~IsDaily(u) THEN u
        ELSE IF fee = 0 THEN u
        ELSE ResetPassiveTime(
               IF FeeChargeType # 3 /\ Chargeable(u, fee) THEN Charge(u, fee) ELSE u)

ProcessServices(u) ==
    LET fee == IF FullFee THEN Service.cost ELSE PassivePart(u, Service.cost)
    IN  IF /\ mday = DayOf(Service.payDay) /\ ~(FullFee /\ passive)
           /\ Chargeable(u, fee)
          THEN SetPrepaidTraff(Charge(u, fee)) ELSE u

\* ProcessNewMonth: the tariff that was asked for takes effect.
MayChange(old, new) ==
    Price!TariffChangeIsAllowed(old.policy, old.timeout, old.fee, new.fee, now)

ProcessNewMonth(u) ==
    [u EXCEPT !.nextTariff = NoTariff,
              !.tariff = IF u.nextTariff # NoTariff /\ MayChange(Tariff(u), Tariffs[u.nextTariff])
                           THEN u.nextTariff ELSE @]

DayResetTraffic(u) == IF mday = DayOf(DayResetTraff) THEN ProcessNewMonth(u) ELSE u

MonthlyFee(u) ==
    IF SpreadFee THEN ProcessDayFeeSpread(u)
    ELSE IF mday = DayOf(DayFee) THEN ProcessDayFee(u) ELSE u

\* Mutant: the tariff is changed after the fee in either case.
FeesAndResetLast(u) == DayResetTraffic(ProcessServices(ProcessDailyFee(MonthlyFee(u))))

\* What a new day does to an account, in the order of UsersImpl::NewDay.
FeesAndReset(u) ==
    IF DayFeeIsLastDay
      THEN DayResetTraffic(ProcessServices(ProcessDailyFee(MonthlyFee(u))))
      ELSE ProcessServices(ProcessDailyFee(MonthlyFee(DayResetTraffic(u))))

\* The account the monthly fee is charged to.
Before(u) == IF DayFeeIsLastDay THEN u ELSE DayResetTraffic(u)

-----------------------------------------------------------------------------
\* UserImpl::Run counts the time of a frozen user, from the last change of
\* passiveTime on.
CountPassive(u) ==
    IF passive THEN [u EXCEPT !.passiveTime = @ + (now - u.modified), !.modified = now]
               ELSE u

\* Mutant: the thread forgets which day it has dealt with.
NewDayForgets ==
    LET u == CountPassive(user)
    IN  /\ up /\ day # mday
        /\ UNCHANGED day
        /\ user' = FeesAndReset(u)
        /\ due' = due + IF ~SpreadFee /\ mday = DayOf(DayFee) THEN 1 ELSE 0
        /\ charged' = charged + (Before(u).cash - MonthlyFee(Before(u)).cash)
        /\ whole' = (whole /\ user'.tariff = u.tariff)
        /\ UNCHANGED <<clock, up, passive>>

\* One pass of the thread's loop on a new day.
NewDay ==
    LET u == CountPassive(user)
    IN  /\ up /\ day # mday
        /\ day' = mday
        /\ user' = FeesAndReset(u)
        /\ due' = due + IF ~SpreadFee /\ mday = DayOf(DayFee) THEN 1 ELSE 0
        /\ charged' = charged + (Before(u).cash - MonthlyFee(Before(u)).cash)
        /\ whole' = (whole /\ user'.tariff = u.tariff)
        /\ UNCHANGED <<clock, up, passive>>

\* And on any other day.
Run ==
    /\ up /\ day = mday /\ passive /\ user.modified # now
    /\ user' = CountPassive(user)
    /\ UNCHANGED <<clock, up, day, passive, history>>

\* A day passes; the thread looks at the clock ten times a second.
Midnight ==
    /\ up => day = mday /\ (passive => user.modified = now)
    /\ now' = now + 1
    /\ \/ /\ mday < Length(month)
          /\ mday' = mday + 1 /\ UNCHANGED <<month, due, charged>>
          /\ whole' = (whole /\ up /\ ~passive)
       \/ /\ mday = Length(month) /\ month < MaxMonths
          /\ mday' = 1 /\ month' = month + 1
          /\ due' = 0 /\ charged' = 0 /\ whole' = (up /\ ~passive)
    /\ user' = [user EXCEPT !.active = IF up /\ passive THEN @ ELSE 1]
    /\ UNCHANGED <<settings, up, day, passive>>

\* The server stops and starts; what it read from the store counts as changed.
\* Run counts every half minute, so that the time up to the stop is counted.
Stop ==
    /\ up /\ up' = FALSE /\ whole' = FALSE
    /\ user' = CountPassive(user)
    /\ UNCHANGED <<clock, day, passive, due, charged>>

Start ==
    /\ ~up /\ up' = TRUE /\ day' = mday /\ whole' = FALSE
    /\ user' = [user EXCEPT !.modified = now]
    /\ UNCHANGED <<clock, passive, due, charged>>

\* An administrator freezes or unfreezes the user, or chooses a tariff.
onPassiveChange ==
    /\ up /\ day = mday /\ passive' = ~passive /\ whole' = FALSE
    /\ passive \/ user.cash > -MaxDebt
    /\ user' = IF passive \/ user.tariff = NoTariff THEN user
                 ELSE Charge(user, Tariff(user).passiveCost)
    /\ UNCHANGED <<clock, up, day, due, charged>>

SetNextTariff(n) ==
    /\ up /\ day = mday /\ n # user.tariff
    /\ user' = [user EXCEPT !.nextTariff = n] /\ whole' = FALSE
    /\ UNCHANGED <<clock, up, day, passive, due, charged>>

\* The prepaid traffic is used up.
Spend ==
    /\ up /\ user.freeMb # 0 /\ user' = [user EXCEPT !.freeMb = 0]
    /\ UNCHANGED <<clock, up, day, passive, history>>

\* A new user: the days of the month before it count as frozen
\* (SetPassiveTimeAsNewUser).
Init ==
    /\ settings \in Settings
    /\ month = 1 /\ now = 0 /\ mday \in 1..Length(1)
    /\ up = TRUE /\ day = mday /\ passive = FALSE
    /\ \E c \in settings.Cashes, n \in DOMAIN Tariffs :
         user = [cash |-> c, freeMb |-> 0, passiveTime |-> mday - 1, modified |-> 0,
                 active |-> 0, tariff |-> n, nextTariff |-> NoTariff]
    /\ due = 0 /\ charged = 0 /\ whole = FALSE

Next ==
    \/ NewDay \/ Run \/ Midnight \/ Stop \/ Start \/ onPassiveChange \/ Spend
    \/ \E n \in DOMAIN Tariffs : SetNextTariff(n)

Spec == Init /\ [][Next]_vars

-----------------------------------------------------------------------------
LastDayDone == mday = Length(month) /\ day = mday /\ whole

\* A month in which the server was up has one day of fee, whatever the length
\* of the month, and no month has two, whenever the server is restarted
\* (UsersImpl::NewDay, users_impl.cpp:403-446).
FeeDayOnce ==
    ~SpreadFee =>
       /\ due <= 1
       /\ LastDayDone /\ (\A k \in DOMAIN DaysInMonth : DayFee <= DaysInMonth[k]) => due = 1

\* With SpreadFee the fee is taken "every day in equal parts" (ch4.xml:33):
\* at the end of a month of activity they make up the fee, and never more.
SpreadIsExact ==
    SpreadFee /\ FeeChargeType = 0 /\ IsMonthly(user) =>
       /\ LastDayDone => charged = Tariff(user).fee
       /\ \A n \in DOMAIN Tariffs : (\A k \in DOMAIN Tariffs : Tariffs[k].fee <= Tariffs[n].fee)
                                      => charged <= Tariffs[n].fee

\* The monthly fee is due once a month, and its daily parts make it up.
FeeIsWhole == FeeDayOnce /\ SpreadIsExact

\* "Changing it to tariff B with fee 200 will result in charging user's account
\* at 100 if DayFeeIsLastDay = yes and at 200, if DayFeeIsLastDay = no"
\* (stargazer.conf:51-54): on the day of both, the fee is that of the old or of
\* the new tariff.
FeeOfTheRightTariff ==
    [][day # mday /\ day' = mday /\ up /\ mday = DayOf(DayFee) /\ FullFee /\ ~passive =>
         LET t == IF DayFeeIsLastDay THEN user.tariff ELSE user'.tariff
         IN  t # NoTariff /\ ~Tariffs[t].daily =>
               user.cash - user'.cash = Tariffs[t].fee]_vars

\* A user that has been frozen since the last fee, or since it was added, is
\* not charged ("no fee is taken" of frozen users, ch11.xml:30), with a fee
\* on the first of the month and no leap year.  Otherwise the share relates
\* days counted in one month to the length of another
\* (user_impl.cpp:962-985).
FrozenIsFree ==
    [][day # mday /\ day' = mday /\ up /\ passive /\ user.active = 0 /\ DayFee = 1 /\ ~LeapYear =>
         charged' = charged]_vars
=============================================================================
