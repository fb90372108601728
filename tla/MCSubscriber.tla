---------------------------- MODULE MCSubscriber ----------------------------
(***************************************************************************)
(* One subscriber: what the traffic costs (Billing), what is charged by    *)
(* the month (Fees), and the session with the InetAccess server            *)
(* (IAClient).  The three do not interact; part says which one a behaviour *)
(* is about, and the variables of the others stay as they are.             *)
(***************************************************************************)
EXTENDS Billing, TLC

CONSTANTS A, B, D, NoTariff

VARIABLES part, settings, month, mday, now, running, day, passive, user, due, fees, whole

VARIABLES ip2user, enabledDirs, currIP, granted, password, blocked, exists, serving,
          requests, replies, client

feesVars == <<settings, month, mday, now, running, day, passive, user, due, fees, whole>>

accessVars == <<ip2user, enabledDirs, currIP, granted, password, blocked, exists, serving,
                requests, replies, client>>

-----------------------------------------------------------------------------
\* Day from minute 1 to 3 of 4; night costs 1 and 2, day 2 and 3.
TwoRates == [d \in Dirs |->
    [dayAt |-> 1, nightAt |-> 3, priceDayA |-> 2, priceDayB |-> 3,
     priceNightA |-> 1, priceNightB |-> 2, threshold |-> 1,
     singlePrice |-> FALSE, noDiscount |-> FALSE]]

-----------------------------------------------------------------------------
\* A year of three short months, a cheap and a dear tariff and one that is
\* paid by the day.
Year == <<3, 2, 3>>

Monthly(f, free, policy, timeout) ==
    [fee |-> f, free |-> free, daily |-> FALSE, passiveCost |-> 1,
     policy |-> policy, timeout |-> timeout]

\* The dear tariff may be left for a cheaper one only after some days.
ThreeTariffs ==
    (A :> Monthly(6, 0, "allow", 0)) @@ (B :> Monthly(12, 1, "to_expensive", 4))
      @@ (D :> [Monthly(1, 0, "to_cheap", 2) EXCEPT !.daily = TRUE])

OnSecond == [payDay |-> 2, cost |-> 6]
OnLast   == [payDay |-> 0, cost |-> 6]

\* The fee on the last day of a month, if there is money or credit for it.
OnLastDay ==
    [LeapYear |-> FALSE, DayFee |-> 0, DayResetTraff |-> 1, DayFeeIsLastDay |-> FALSE,
     SpreadFee |-> FALSE, FullFee |-> FALSE, FeeChargeType |-> 2, Credit |-> 3,
     Service |-> OnSecond, Cashes |-> {0, 12}]

\* The full fee on the first, after the change of tariff or before it.
OnFirstDay(last) ==
    [LeapYear |-> TRUE, DayFee |-> 1, DayResetTraff |-> 1, DayFeeIsLastDay |-> last,
     SpreadFee |-> FALSE, FullFee |-> TRUE, FeeChargeType |-> 0, Credit |-> 0,
     Service |-> OnSecond, Cashes |-> {0}]

\* The fee in equal parts.
EveryDay ==
    [LeapYear |-> FALSE, DayFee |-> 1, DayResetTraff |-> 0, DayFeeIsLastDay |-> TRUE,
     SpreadFee |-> TRUE, FullFee |-> FALSE, FeeChargeType |-> 0, Credit |-> 0,
     Service |-> OnLast, Cashes |-> {0}]

\* The fee for the time the user was not frozen.
ByActivity ==
    [LeapYear |-> FALSE, DayFee |-> 1, DayResetTraff |-> 1, DayFeeIsLastDay |-> TRUE,
     SpreadFee |-> FALSE, FullFee |-> FALSE, FeeChargeType |-> 3, Credit |-> 0,
     Service |-> OnSecond, Cashes |-> {8}]

AllSettings == {OnLastDay, OnFirstDay(TRUE), OnFirstDay(FALSE), EveryDay, ByActivity}

F == INSTANCE Fees WITH DaysInMonth <- Year, Tariffs <- ThreeTariffs, Settings <- AllSettings,
                        MaxMonths <- 3, MaxDebt <- 1, up <- running, charged <- fees

-----------------------------------------------------------------------------
\* One client, another user who may hold its address, and a network that
\* loses and duplicates.
I == INSTANCE IAClient WITH
       Users <- {"u1", "u2"}, Addrs <- {"a1"}, NoAddr <- "none",
       UserAddrs <- [u \in {"u1", "u2"} |-> {"a1"}], Dirs <- {"all"},
       Passwords <- {"p1", "p2"}, NoKey <- "none", Rnds <- 1..3, NoRnd <- 0,
       MayDuplicate <- TRUE, MayRefuse <- TRUE, MaxPackets <- 1,
       Clients <- {[user |-> "u1", ip |-> "a1", dirs |-> "all"]}, Reconnect <- TRUE,
       running <- serving

\* What the theorems about Fees and IAClient ask of the constants.
ASSUME F!FeesConstants /\ F!SharesAreWhole /\ I!Proper

-----------------------------------------------------------------------------
NoFees ==
    /\ settings = 0 /\ month = 0 /\ mday = 0 /\ now = 0 /\ running = 0 /\ day = 0
    /\ passive = 0 /\ user = 0 /\ due = 0 /\ fees = 0 /\ whole = 0

NoAccess ==
    /\ ip2user = 0 /\ enabledDirs = 0 /\ currIP = 0 /\ granted = 0 /\ password = 0
    /\ blocked = 0 /\ exists = 0 /\ serving = 0 /\ requests = 0 /\ replies = 0 /\ client = 0

MCInit ==
    /\ Init
    /\ \/ part = "billing" /\ NoFees /\ NoAccess
       \/ part = "fees" /\ F!Init /\ NoAccess
       \/ part = "access" /\ NoFees /\ I!Init

MCNext ==
    \/ part = "billing" /\ Next /\ UNCHANGED <<part, feesVars, accessVars>>
    \/ part = "fees" /\ F!Next /\ UNCHANGED <<part, vars, accessVars>>
    \/ /\ part = "access" /\ (I!Next \/ I!Administration)
       /\ UNCHANGED <<part, vars, feesVars>>

MCSpec == MCInit /\ [][MCNext]_<<part, vars, feesVars, accessVars>>

-----------------------------------------------------------------------------
\* The monthly fee is due once a month, and its daily parts make it up
\* (Fees!FeeDayOnce and SpreadIsExact, users_impl.cpp:267-299 and
\* user_impl.cpp:1155-1330).
FeeIsWhole == part = "fees" => F!FeeIsWhole

\* The fee is that of the tariff the settings say, and a frozen user pays
\* none (Fees!FeeOfTheRightTariff and FrozenIsFree, user_impl.cpp:1155-1330).
FeeIsRight == F!FeeOfTheRightTariff /\ F!FrozenIsFree

\* A connected session belongs to a user who is authorised at its address
\* (IAClient!SessionIsAuthorized, inetaccess.cpp:719-927).
SessionIsAuthorized == part = "access" => I!SessionIsAuthorized
=============================================================================
