---------------------------- MODULE BillingProofs ----------------------------
(***************************************************************************)
(* Prepaid traffic is spent first, the detailed statistics are complete    *)
(* and agree with cash, for all tariffs, directions and chunk sizes; what  *)
(* Interval and GetPriceWithoutFreeMb compute, for every clock, price list,*)
(* hour and amount of traffic.                                             *)
(*                                                                         *)
(* The monthly fee (Fees) is due once a month, or its daily parts make it  *)
(* up, for every calendar, all tariffs and all settings of the server.     *)
(***************************************************************************)
EXTENDS Billing, Sequences, TLAPS

\* What WriteDetailStat knows at each of its steps: nothing is left to retry
\* once it has passed the retry, nothing is in flight outside the write, and
\* statistics without traffic carry no cost.
WriterInv ==
    /\ writer \in {"swap", "write"} => saved.bytes = 0
    /\ writer # "write" => ts.bytes = 0
    /\ \A s \in {traffStat, saved, ts} : s.bytes = 0 => s.cost = 0

IInv == /\ TypeOK /\ WriterInv /\ PrepaidFirst
        /\ DetailComplete /\ DetailIsCash /\ SessionIsMetered

\* A price of the list is a natural number.
LEMMA PriceIsNat ==
    ASSUME NEW dir \in Dirs, NEW u \in Nat, NEW d \in Nat, NEW m \in Minutes
    PROVE  GetPriceWithTraffType(TraffType, Prices[dir], u, d, m) \in Nat
<1>1. Prices[dir] \in DirPrices(Nat, Nat, Nat)
  BY BillingConstants
<1> DEFINE mb == GetTraffByType(TraffType, u, d) \div MB
<1>2. GetPriceWithoutFreeMb(Prices[dir], mb, m) \in Nat
  <2> HIDE DEF mb
  <2> QED BY <1>1 DEF GetPriceWithoutFreeMb, DirPrices
<1> QED BY <1>2 DEF GetPriceWithTraffType

\* The traffic that counts is a natural number.
LEMMA TraffIsNat ==
    ASSUME NEW u \in Nat, NEW d \in Nat
    PROVE  GetTraffByType(TraffType, u, d) \in Nat
BY BillingConstants DEF TraffTypes, GetTraffByType, Larger

\* Natural numbers are closed under multiplication.
LEMMA ProductIsNat ==
    ASSUME NEW a \in Nat, NEW b \in Nat
    PROVE  a * b \in Nat
OBVIOUS

\* A chunk never has a negative price, on either side of the threshold.
LEMMA ChunkPriceIsNat ==
    ASSUME NEW dir \in Dirs, NEW u \in Nat, NEW d \in Nat, NEW u1 \in Nat, NEW d1 \in Nat,
           NEW len \in Lens, NEW m \in Minutes
    PROVE  ChunkPrice(dir, u, d, u1, d1, len, m) \in Nat
<1> DEFINE traff == GetTraffByType(TraffType, u, d)
           limit == Prices[dir].threshold * MB
           old   == GetPriceWithTraffType(TraffType, Prices[dir], u, d, m)
           new   == GetPriceWithTraffType(TraffType, Prices[dir], u1, d1, m)
<1>1. old \in Nat /\ new \in Nat
  BY PriceIsNat
<1>2. traff \in Nat
  BY TraffIsNat
<1>3. limit \in Nat
  <2>1. Prices[dir].threshold \in Nat /\ MB \in Nat
    BY BillingConstants, MegabyteAssumption DEF DirPrices
  <2> QED BY <2>1, ProductIsNat
<1>4. len \in Nat
  BY BillingConstants
<1>5. ChunkPrice(dir, u, d, u1, d1, len, m) =
        IF traff < limit /\ traff + len >= limit
          THEN old * (limit - traff) + new * (len - (limit - traff))
          ELSE old * len
  BY DEF ChunkPrice
<1> HIDE DEF traff, limit, old, new
<1>6. CASE traff < limit /\ traff + len >= limit
  <2>1. limit - traff \in Nat /\ len - (limit - traff) \in Nat
    BY <1>2, <1>3, <1>4, <1>6
  <2>2. old * (limit - traff) \in Nat /\ new * (len - (limit - traff)) \in Nat
    BY <1>1, <2>1, ProductIsNat
  <2> QED BY <1>5, <1>6, <2>2
<1>7. CASE ~(traff < limit /\ traff + len >= limit)
  <2>1. old * len \in Nat
    BY <1>1, <1>4, ProductIsNat
  <2> QED BY <1>5, <1>7, <2>1
<1> QED BY <1>6, <1>7

\* Accounting a chunk keeps the books: whichever of the three cases of Cost
\* applies, cash pays what freeMb does not cover, and the detailed
\* statistics get the same amount.
LEMMA AccountKeepsBooks ==
    ASSUME IInv, NEW dc \in Nat, NEW len \in Nat \ {0}, Account(dc, len), ~hard
    PROVE  /\ {cash', freeMb', charged', spent', base'} \subseteq Int /\ metered' \in Nat
           /\ {traffStat', saved', ts', stored'} \subseteq StatNode
           /\ writer' = writer /\ hard' = hard
           /\ WriterInv' /\ PrepaidFirst' /\ DetailComplete' /\ DetailIsCash'
<1> USE DEF IInv, TypeOK
<1>1. Cost(dc) \in Nat /\ Cost(dc) = Debt(freeMb - dc) - Debt(freeMb)
  BY DEF Cost, Debt
<1>2. DetailCost(Cost(dc), freeMb - dc) = Cost(dc)
  BY DEF Cost, DetailCost
<1> DEFINE c == Cost(dc)
<1>3. /\ freeMb' = freeMb - dc /\ cash' = cash - c /\ spent' = spent + c
      /\ charged' = charged + dc /\ metered' = metered + len
      /\ traffStat' = [bytes |-> traffStat.bytes + len, cost |-> traffStat.cost + c]
      /\ base' = base /\ saved' = saved /\ ts' = ts /\ stored' = stored
      /\ writer' = writer /\ hard' = hard
  BY <1>2 DEF Account, Plus
<1>4. c \in Nat /\ c = Debt(freeMb - dc) - Debt(freeMb)
  BY <1>1
<1> HIDE DEF c
<1>5. {cash', freeMb', charged', spent', base'} \subseteq Int /\ metered' \in Nat
  BY <1>3, <1>4
<1>6. {traffStat', saved', ts', stored'} \subseteq StatNode
  BY <1>3, <1>4 DEF StatNode
<1>7. PrepaidFirst'
  BY <1>3, <1>4 DEF PrepaidFirst, Debt
<1>8. DetailComplete' /\ DetailIsCash'
  <2>1. traffStat'.bytes = traffStat.bytes + len /\ traffStat'.cost = traffStat.cost + c
    BY <1>3
  <2>2. /\ {traffStat.bytes, ts.bytes, saved.bytes, stored.bytes, metered} \subseteq Nat
        /\ {traffStat.cost, ts.cost, saved.cost, stored.cost, cash} \subseteq Int
    BY DEF StatNode
  <2>3. DetailComplete'
    BY <1>3, <2>1, <2>2 DEF DetailComplete
  <2>4. DetailIsCash'
    BY <1>3, <1>4, <2>1, <2>2 DEF DetailIsCash
  <2> QED BY <2>3, <2>4
<1>9. WriterInv'
  BY <1>3, <1>4 DEF WriterInv, StatNode
<1> QED BY <1>3, <1>5, <1>6, <1>7, <1>8, <1>9

\* The initial state satisfies the invariant.
LEMMA Initially == Init => IInv
<1> SUFFICES ASSUME Init PROVE IInv
  OBVIOUS
<1>1. up \in [Dirs -> Nat] /\ down = up /\ sessUp = up /\ sessDown = up
  BY DEF Init
<1>2. NoStat \in StatNode /\ NoStat.bytes = 0 /\ NoStat.cost = 0
  BY DEF StatNode, NoStat
<1>3. TypeOK
  <2>1. connected \in BOOLEAN /\ hard \in BOOLEAN /\ writer \in {"idle", "swap", "write"}
    BY DEF Init
  <2>2. {up, down, sessUp, sessDown} \subseteq [Dirs -> Nat]
    BY <1>1
  <2>3. {cash, freeMb, charged, spent, base} \subseteq Int /\ metered \in Nat
    BY BillingConstants DEF Init
  <2>4. {traffStat, saved, ts, stored} \subseteq StatNode
    BY <1>2 DEF Init
  <2> QED BY <2>1, <2>2, <2>3, <2>4 DEF TypeOK
<1>4. WriterInv
  BY <1>2 DEF Init, WriterInv
<1>5. PrepaidFirst
  BY BillingConstants DEF Init, PrepaidFirst, Debt
<1>6. DetailComplete /\ DetailIsCash
  <2>1. /\ traffStat.bytes = 0 /\ ts.bytes = 0 /\ saved.bytes = 0 /\ stored.bytes = 0
        /\ traffStat.cost = 0 /\ ts.cost = 0 /\ saved.cost = 0 /\ stored.cost = 0
        /\ metered = 0 /\ cash = 0
    BY <1>2 DEF Init
  <2>2. 0 + 0 + 0 + 0 = 0 /\ 0 + 0 + 0 + 0 + 0 = 0
    OBVIOUS
  <2> QED BY <2>1, <2>2 DEF DetailComplete, DetailIsCash
<1>7. SessionIsMetered
  BY DEF Init, SessionIsMetered
<1> QED BY <1>3, <1>4, <1>5, <1>6, <1>7 DEF IInv

\* Every step of the accounting preserves the invariant.
LEMMA Inductive == IInv /\ [Next]_vars => IInv'
<1> SUFFICES ASSUME IInv, [Next]_vars PROVE IInv'
  OBVIOUS
<1>n. NoStat \in StatNode /\ NoStat.bytes = 0 /\ NoStat.cost = 0
  BY DEF StatNode, NoStat
<1>1. ASSUME NEW dir \in Dirs, NEW len \in Lens, NEW m \in Minutes, AddTraffStatU(dir, len, m)
      PROVE  IInv'
  <2>1. len \in Nat \ {0}
    BY BillingConstants
  <2>2. up[dir] \in Nat /\ down[dir] \in Nat /\ up[dir] + len \in Nat
    BY <2>1 DEF IInv, TypeOK
  <2>3. PICK dc \in Nat : Account(dc, len)
    BY <1>1, <2>2, ChunkPriceIsNat DEF AddTraffStatU
  <2>4. connected /\ ~hard /\ connected' = connected /\ down' = down /\ sessDown' = sessDown
        /\ up' = [up EXCEPT ![dir] = up[dir] + len]
        /\ sessUp' = [sessUp EXCEPT ![dir] = @ + len]
    BY <1>1 DEF AddTraffStatU
  <2>5. {up', down', sessUp', sessDown'} \subseteq [Dirs -> Nat]
    BY <2>1, <2>4 DEF IInv, TypeOK
  <2>6. SessionIsMetered'
    BY <2>1, <2>3, <2>4 DEF Account, IInv, TypeOK, SessionIsMetered
  <2>7. TypeOK'
    BY <2>1, <2>3, <2>4, <2>5, AccountKeepsBooks DEF IInv, TypeOK
  <2> QED BY <2>1, <2>3, <2>4, <2>6, <2>7, AccountKeepsBooks DEF IInv
<1>2. ASSUME NEW dir \in Dirs, NEW len \in Lens, NEW m \in Minutes, AddTraffStatD(dir, len, m)
      PROVE  IInv'
  <2>1. len \in Nat \ {0}
    BY BillingConstants
  <2>2. up[dir] \in Nat /\ down[dir] \in Nat /\ down[dir] + len \in Nat
    BY <2>1 DEF IInv, TypeOK
  <2>3. PICK dc \in Nat : Account(dc, len)
    BY <1>2, <2>2, ChunkPriceIsNat DEF AddTraffStatD
  <2>4. connected /\ ~hard /\ connected' = connected /\ up' = up /\ sessUp' = sessUp
        /\ down' = [down EXCEPT ![dir] = down[dir] + len]
        /\ sessDown' = [sessDown EXCEPT ![dir] = @ + len]
    BY <1>2 DEF AddTraffStatD
  <2>5. {up', down', sessUp', sessDown'} \subseteq [Dirs -> Nat]
    BY <2>1, <2>4 DEF IInv, TypeOK
  <2>6. SessionIsMetered'
    BY <2>1, <2>3, <2>4 DEF Account, IInv, TypeOK, SessionIsMetered
  <2>7. TypeOK'
    BY <2>1, <2>3, <2>4, <2>5, AccountKeepsBooks DEF IInv, TypeOK
  <2> QED BY <2>1, <2>3, <2>4, <2>6, <2>7, AccountKeepsBooks DEF IInv
<1>3. CASE Reconnect
  <2>1. UNCHANGED <<up, down, ledger, detail>> /\ connected' \in BOOLEAN
    BY <1>3 DEF Reconnect
  <2>2. {sessUp', sessDown'} \subseteq [Dirs -> Nat] /\ SessionIsMetered'
    <3>1. CASE connected
      BY <1>3, <3>1 DEF Reconnect, IInv, TypeOK, SessionIsMetered, ledger
    <3>2. CASE ~connected
      BY <1>3, <3>2 DEF Reconnect, IInv, TypeOK, SessionIsMetered, ledger
    <3> QED BY <3>1, <3>2
  <2>3. TypeOK'
    BY <2>1, <2>2 DEF IInv, TypeOK, ledger, detail
  <2> QED
    BY <2>1, <2>2, <2>3
    DEF IInv, WriterInv, PrepaidFirst, DetailComplete, DetailIsCash, ledger, detail
<1>4. CASE SetPrepaidTraff
  <2>1. TypeOK'
    BY <1>4, BillingConstants DEF SetPrepaidTraff, IInv, TypeOK, traffic, detail
  <2>2. PrepaidFirst'
    BY <1>4, BillingConstants DEF SetPrepaidTraff, PrepaidFirst, Debt
  <2> QED
    BY <1>4, <2>1, <2>2
    DEF SetPrepaidTraff, IInv, WriterInv, DetailComplete, DetailIsCash, SessionIsMetered,
        traffic, detail
<1>5. ASSUME NEW h \in BOOLEAN, WriteSaved(h)
      PROVE  IInv'
  <2>1. UNCHANGED <<connected, traffic, ledger, traffStat, ts>> /\ hard' \in BOOLEAN /\ ~hard
        /\ writer = "idle"
    BY <1>5 DEF WriteSaved
  <2>2. writer' \in {"idle", "swap"} /\ (writer' = "swap" => saved'.bytes = 0)
        /\ {saved', stored'} \subseteq StatNode
        /\ saved'.bytes + stored'.bytes = saved.bytes + stored.bytes
        /\ saved'.cost + stored'.cost = saved.cost + stored.cost
        /\ (saved'.bytes = 0 => saved'.cost = 0)
    <3>1. CASE saved.bytes = 0 /\ writer' = "swap" /\ UNCHANGED <<saved, stored>>
      BY <3>1 DEF IInv, TypeOK, WriterInv, StatNode
    <3>2. CASE saved.bytes > 0 /\ stored' = Plus(stored, saved) /\ saved' = NoStat /\ writer' = "swap"
      BY <3>2 DEF IInv, TypeOK, StatNode, Plus, NoStat
    <3>3. CASE saved.bytes > 0 /\ UNCHANGED <<saved, stored, writer>>
      BY <2>1, <3>3 DEF IInv, TypeOK, WriterInv, StatNode
    <3> QED BY <1>5, <3>1, <3>2, <3>3, Zenon DEF WriteSaved
  <2>3. TypeOK'
    BY <2>1, <2>2 DEF IInv, TypeOK, traffic, ledger
  <2>4. WriterInv'
    BY <2>1, <2>2 DEF IInv, WriterInv
  <2>5. DetailComplete' /\ DetailIsCash'
    BY <2>1, <2>2, <2>3 DEF IInv, TypeOK, DetailComplete, DetailIsCash, StatNode, ledger
  <2> QED
    BY <2>1, <2>3, <2>4, <2>5 DEF IInv, PrepaidFirst, SessionIsMetered, traffic, ledger
<1>6. CASE SwapOut
  <2>1. UNCHANGED <<connected, traffic, ledger, saved, stored, hard>>
        /\ writer = "swap" /\ writer' = "write" /\ ts' = traffStat /\ traffStat' = NoStat
    BY <1>6 DEF SwapOut
  <2>2. TypeOK'
    BY <1>n, <2>1 DEF IInv, TypeOK, traffic, ledger
  <2>3. WriterInv'
    BY <1>n, <2>1 DEF IInv, WriterInv
  <2>4. ts.bytes = 0 /\ ts.cost = 0
    BY <2>1 DEF IInv, WriterInv
  <2>5. DetailComplete' /\ DetailIsCash'
    BY <1>n, <2>1, <2>4 DEF IInv, TypeOK, DetailComplete, DetailIsCash, StatNode, ledger
  <2> QED
    BY <2>1, <2>2, <2>3, <2>5 DEF IInv, PrepaidFirst, SessionIsMetered, traffic, ledger
<1>7. CASE WriteCurrent
  <2>1. UNCHANGED <<connected, traffic, ledger, traffStat, hard>>
        /\ writer = "write" /\ writer' = "idle" /\ ts' = NoStat
    BY <1>7 DEF WriteCurrent
  <2>2. saved.bytes = 0 /\ saved.cost = 0
    BY <2>1 DEF IInv, WriterInv
  <2>3. /\ {saved', stored'} \subseteq StatNode
        /\ saved'.bytes = 0 => saved'.cost = 0
        /\ ~hard /\ ~DisabledDetailStat =>
             /\ saved'.bytes + stored'.bytes = ts.bytes + stored.bytes
             /\ saved'.cost + stored'.cost = ts.cost + stored.cost
    <3>1. CASE (ts.bytes = 0 \/ DisabledDetailStat) /\ UNCHANGED <<saved, stored>>
      BY <2>2, <3>1 DEF IInv, TypeOK, WriterInv, StatNode
    <3>2. CASE stored' = Plus(stored, ts) /\ UNCHANGED saved
      BY <2>2, <3>2 DEF IInv, TypeOK, StatNode, Plus
    <3>3. CASE saved' = (IF hard THEN saved ELSE ts) /\ UNCHANGED stored
      BY <2>2, <3>3 DEF IInv, TypeOK, WriterInv, StatNode
    <3> QED BY <1>7, <3>1, <3>2, <3>3 DEF WriteCurrent
  <2>4. TypeOK'
    BY <1>n, <2>1, <2>3 DEF IInv, TypeOK, traffic, ledger
  <2>5. WriterInv'
    BY <1>n, <2>1, <2>3 DEF IInv, WriterInv
  <2>6. DetailComplete' /\ DetailIsCash'
    BY <1>n, <2>1, <2>2, <2>3, <2>4
    DEF IInv, TypeOK, DetailComplete, DetailIsCash, StatNode, ledger
  <2> QED
    BY <2>1, <2>4, <2>5, <2>6 DEF IInv, PrepaidFirst, SessionIsMetered, traffic, ledger
<1>8. CASE SetTraff
  BY <1>8, BillingConstants
  DEF SetTraff, IInv, TypeOK, WriterInv, PrepaidFirst, DetailComplete, DetailIsCash,
      SessionIsMetered, ledger, detail
<1>9. CASE UNCHANGED vars
  BY <1>9
  DEF vars, traffic, ledger, detail, IInv, TypeOK, WriterInv, PrepaidFirst, DetailComplete,
      DetailIsCash, SessionIsMetered
<1> QED BY <1>1, <1>2, <1>3, <1>4, <1>5, <1>6, <1>7, <1>8, <1>9 DEF Next

\* For every tariff and every sequence of chunks, fees, writes and store
\* failures: prepaid traffic is used up before cash, the detailed statistics
\* lose nothing while the server runs and their costs are what cash paid.
THEOREM BooksBalance ==
    Spec => [](TypeOK /\ BooksAgree)
<1>1. IInv => TypeOK /\ BooksAgree
  BY DEF IInv, BooksAgree
<1> QED BY <1>1, Initially, Inductive, PTL DEF Spec

-----------------------------------------------------------------------------
\* The price of traffic is one of the prices of the list, a natural number.
LEMMA PriceIsRate ==
    ASSUME NEW dir \in Dirs, NEW u, NEW d, NEW m
    PROVE  GetPriceWithTraffType(TraffType, Prices[dir], u, d, m) \in Rates
<1> DEFINE dp == Prices[dir]
           four == {dp.priceDayA, dp.priceDayB, dp.priceNightA, dp.priceNightB}
<1>1. GetPriceWithTraffType(TraffType, dp, u, d, m) \in four
  BY Zenon DEF GetPriceWithTraffType, GetPriceWithoutFreeMb
<1>2. four \subseteq Rates
  BY DEF Rates
<1> QED BY <1>1, <1>2

\* The prices of the list are natural numbers.
LEMMA RatesAreNat == Rates \subseteq Nat
<1> SUFFICES ASSUME NEW dir \in Dirs, NEW r \in {Prices[dir].priceDayA, Prices[dir].priceDayB,
                                                 Prices[dir].priceNightA, Prices[dir].priceNightB}
             PROVE  r \in Nat
  BY DEF Rates
<1>1. Prices[dir] \in DirPrices(Nat, Nat, Nat)
  BY BillingConstants
<1> QED BY <1>1 DEF DirPrices

\* An amount for len bytes, in two parts, each at a price of the list.
TwoParts(amount, len) ==
    \E old, new \in Rates, j, k \in Nat : j + k = len /\ amount = old * j + new * k

\* A chunk is charged in two parts.
LEMMA ChunkIsSplit ==
    ASSUME NEW dir \in Dirs, NEW u \in Nat, NEW d \in Nat, NEW u1 \in Nat, NEW d1 \in Nat,
           NEW len \in Lens, NEW m \in Minutes
    PROVE  TwoParts(ChunkPrice(dir, u, d, u1, d1, len, m), len)
<1> DEFINE traff == GetTraffByType(TraffType, u, d)
           limit == Prices[dir].threshold * MB
           old   == GetPriceWithTraffType(TraffType, Prices[dir], u, d, m)
           new   == GetPriceWithTraffType(TraffType, Prices[dir], u1, d1, m)
<1>1. old \in Rates /\ new \in Rates /\ old \in Nat /\ new \in Nat
  BY PriceIsRate, RatesAreNat
<1>2. traff \in Nat /\ len \in Nat
  BY TraffIsNat, BillingConstants
<1>3. limit \in Nat
  <2>1. Prices[dir].threshold \in Nat /\ MB \in Nat
    BY BillingConstants, MegabyteAssumption DEF DirPrices
  <2> QED BY <2>1, ProductIsNat
<1>4. ChunkPrice(dir, u, d, u1, d1, len, m) =
        IF traff < limit /\ traff + len >= limit
          THEN old * (limit - traff) + new * (len - (limit - traff))
          ELSE old * len
  BY DEF ChunkPrice
<1> HIDE DEF traff, limit, old, new
<1>5. CASE traff < limit /\ traff + len >= limit
  <2>1. /\ limit - traff \in Nat /\ len - (limit - traff) \in Nat
        /\ (limit - traff) + (len - (limit - traff)) = len
    BY <1>2, <1>3, <1>5
  <2> QED BY <1>1, <1>4, <1>5, <2>1 DEF TwoParts
<1>6. CASE ~(traff < limit /\ traff + len >= limit)
  <2>1. old * len = old * len + old * 0 /\ len + 0 = len
    BY <1>1, <1>2
  <2> QED BY <1>1, <1>2, <1>4, <1>6, <2>1 DEF TwoParts
<1> QED BY <1>5, <1>6

\* A larger factor gives a larger product.
LEMMA ProductGrows ==
    ASSUME NEW a \in Nat, NEW b \in Nat, NEW c \in Nat, a <= b
    PROVE  a * c <= b * c
<1>1. b - a \in Nat
  OBVIOUS
<1>2. (b - a) * c \in Nat
  BY <1>1, ProductIsNat
<1>3. b * c = a * c + (b - a) * c
  OBVIOUS
<1> QED BY <1>2, <1>3, ProductIsNat

\* Multiplication distributes over a sum.
LEMMA ProductOfSum ==
    ASSUME NEW a \in Nat, NEW b \in Nat, NEW c \in Nat
    PROVE  a * (b + c) = a * b + a * c
OBVIOUS

\* A chunk costs no less than all its bytes at the lowest price, and no more
\* than at the highest.
LEMMA ChunkIsBounded ==
    ASSUME NEW dir \in Dirs, NEW u \in Nat, NEW d \in Nat, NEW u1 \in Nat, NEW d1 \in Nat,
           NEW len \in Lens, NEW m \in Minutes
    PROVE  /\ \A lo \in Rates : (\A r \in Rates : lo <= r) => lo * len <= ChunkPrice(dir, u, d, u1, d1, len, m)
           /\ \A hi \in Rates : (\A r \in Rates : r <= hi) => ChunkPrice(dir, u, d, u1, d1, len, m) <= hi * len
<1> DEFINE price == ChunkPrice(dir, u, d, u1, d1, len, m)
<1>0. TwoParts(price, len)
  BY ChunkIsSplit
<1> HIDE DEF price
<1>1. PICK old, new \in Rates, j, k \in Nat : j + k = len /\ price = old * j + new * k
  BY <1>0, Zenon DEF TwoParts
<1>2. old \in Nat /\ new \in Nat
  BY RatesAreNat
<1>3. old * j \in Nat /\ new * k \in Nat
  BY <1>2, ProductIsNat
<1>4. ASSUME NEW lo \in Rates, \A r \in Rates : lo <= r PROVE lo * len <= price
  <2>1. lo \in Nat /\ lo <= old /\ lo <= new
    BY <1>4, RatesAreNat
  <2>2. lo * j <= old * j /\ lo * k <= new * k /\ lo * j \in Nat /\ lo * k \in Nat
    BY <1>2, <2>1, ProductGrows, ProductIsNat
  <2>3. lo * len = lo * j + lo * k
    BY <1>1, <2>1, ProductOfSum
  <2> QED BY <1>1, <1>3, <2>2, <2>3
<1>5. ASSUME NEW hi \in Rates, \A r \in Rates : r <= hi PROVE price <= hi * len
  <2>1. hi \in Nat /\ old <= hi /\ new <= hi
    BY <1>5, RatesAreNat
  <2>2. old * j <= hi * j /\ new * k <= hi * k /\ hi * j \in Nat /\ hi * k \in Nat
    BY <1>2, <2>1, ProductGrows, ProductIsNat
  <2>3. hi * len = hi * j + hi * k
    BY <1>1, <2>1, ProductOfSum
  <2> QED BY <1>1, <1>3, <2>2, <2>3
<1> QED BY <1>4, <1>5 DEF price

\* A chunk more, within the bounds, keeps the sum within them.
LEMMA ChunkKeepsBounds ==
    ASSUME TypeOK, ChargedOnce, TraffType = "up+down",
           NEW dc \in Nat, NEW len \in Nat, charged' = charged + dc, metered' = metered + len,
           \A lo \in Rates : (\A r \in Rates : lo <= r) => lo * len <= dc,
           \A hi \in Rates : (\A r \in Rates : r <= hi) => dc <= hi * len
    PROVE  ChargedOnce'
<1>1. charged \in Int /\ metered \in Nat
  BY DEF TypeOK
<1>2. ASSUME NEW lo \in Rates, \A r \in Rates : lo <= r PROVE lo * metered' <= charged'
  <2>1. lo \in Nat /\ lo * metered \in Nat /\ lo * len \in Nat /\ lo * metered' = lo * metered + lo * len
    BY <1>1, RatesAreNat, ProductIsNat, ProductOfSum
  <2>2. lo * metered <= charged /\ lo * len <= dc
    BY <1>2 DEF ChargedOnce
  <2> QED BY <1>1, <2>1, <2>2
<1>3. ASSUME NEW hi \in Rates, \A r \in Rates : r <= hi PROVE charged' <= hi * metered'
  <2>1. hi \in Nat /\ hi * metered \in Nat /\ hi * len \in Nat /\ hi * metered' = hi * metered + hi * len
    BY <1>1, RatesAreNat, ProductIsNat, ProductOfSum
  <2>2. charged <= hi * metered /\ dc <= hi * len
    BY <1>3 DEF ChargedOnce
  <2> QED BY <1>1, <2>1, <2>2
<1> QED BY <1>2, <1>3 DEF ChargedOnce, Rates

\* Under an up+down tariff, whatever its prices, its threshold and its hours,
\* every byte of either direction is charged once, at one of its prices: the
\* sum stays between all the bytes at the lowest price and all of them at the
\* highest (user_impl.cpp:706-736, 799-829).
THEOREM EveryByteIsCharged == Spec => []ChargedOnce
<1>1. Init => ChargedOnce
  <2> SUFFICES ASSUME Init PROVE ChargedOnce
    OBVIOUS
  <2>1. \A r \in Rates : r * 0 = 0
    BY RatesAreNat
  <2> QED BY <2>1 DEF Init, ChargedOnce
<1>2. IInv /\ ChargedOnce /\ [Next]_vars => ChargedOnce'
  <2> SUFFICES ASSUME IInv, ChargedOnce, [Next]_vars, TraffType = "up+down" PROVE ChargedOnce'
    BY DEF ChargedOnce
  <2>1. ASSUME UNCHANGED <<charged, metered>> PROVE ChargedOnce'
    BY <2>1 DEF ChargedOnce, Rates
  <2>2. ASSUME NEW dir \in Dirs, NEW len \in Lens, NEW m \in Minutes, AddTraffStatU(dir, len, m)
        PROVE  ChargedOnce'
    <3>1. len \in Nat /\ up[dir] \in Nat /\ down[dir] \in Nat /\ up[dir] + len \in Nat
      BY BillingConstants DEF IInv, TypeOK
    <3> DEFINE dc == ChunkPrice(dir, up[dir], down[dir], up[dir] + len, down[dir], len, m)
    <3>2. charged' = charged + dc /\ metered' = metered + len
      BY <2>2 DEF AddTraffStatU, Account
    <3>3. /\ dc \in Nat
          /\ \A lo \in Rates : (\A r \in Rates : lo <= r) => lo * len <= dc
          /\ \A hi \in Rates : (\A r \in Rates : r <= hi) => dc <= hi * len
      BY <3>1, ChunkIsBounded, ChunkPriceIsNat
    <3> HIDE DEF dc
    <3> QED BY <3>1, <3>2, <3>3, ChunkKeepsBounds DEF IInv
  <2>3. ASSUME NEW dir \in Dirs, NEW len \in Lens, NEW m \in Minutes, AddTraffStatD(dir, len, m)
        PROVE  ChargedOnce'
    <3>1. len \in Nat /\ up[dir] \in Nat /\ down[dir] \in Nat /\ down[dir] + len \in Nat
      BY BillingConstants DEF IInv, TypeOK
    <3> DEFINE dc == ChunkPrice(dir, up[dir], down[dir], up[dir], down[dir] + len, len, m)
    <3>2. charged' = charged + dc /\ metered' = metered + len
      BY <2>3 DEF AddTraffStatD, Account
    <3>3. /\ dc \in Nat
          /\ \A lo \in Rates : (\A r \in Rates : lo <= r) => lo * len <= dc
          /\ \A hi \in Rates : (\A r \in Rates : r <= hi) => dc <= hi * len
      BY <3>1, ChunkIsBounded, ChunkPriceIsNat
    <3> HIDE DEF dc
    <3> QED BY <3>1, <3>2, <3>3, ChunkKeepsBounds DEF IInv
  <2>4. CASE Reconnect \/ SetPrepaidTraff \/ SetTraff \/ (\E h \in BOOLEAN : WriteSaved(h))
             \/ SwapOut \/ WriteCurrent \/ UNCHANGED vars
    <3>1. UNCHANGED <<charged, metered>>
      BY <2>4, Zenon DEF Reconnect, SetPrepaidTraff, SetTraff, WriteSaved, SwapOut, WriteCurrent, vars, ledger
    <3> QED BY <2>1, <3>1
  <2> QED BY <2>2, <2>3, <2>4 DEF Next
<1> QED BY <1>1, <1>2, Initially, Inductive, PTL DEF Spec

-----------------------------------------------------------------------------
\* Minutes from the minute m to the next time a clock of n minutes shows t.
Until(n, m, t) == IF m <= t THEN t - m ELSE t - m + n

\* Interval is right on both sides of midnight: strictly inside the day the
\* clock reaches the start of the night first, strictly inside the night the
\* start of the day - wherever the day begins and whether or not it spans
\* midnight (tariff_impl.cpp:84-117).
THEOREM IntervalIsCyclic ==
    ASSUME NEW n \in Nat, NEW dp, NEW m \in 0..(n - 1),
           dp.dayAt \in 0..(n - 1), dp.nightAt \in 0..(n - 1),
           dp.dayAt # dp.nightAt, m # dp.dayAt, m # dp.nightAt
    PROVE  Interval(dp, m) = "day" <=> Until(n, m, dp.nightAt) < Until(n, m, dp.dayAt)
<1>1. CASE dp.dayAt < dp.nightAt
  BY <1>1 DEF Interval, Until
<1>2. CASE dp.nightAt < dp.dayAt
  BY <1>2 DEF Interval, Until
<1> QED
  BY <1>1, <1>2

\* The masks of the comment at GetPriceWithoutFreeMb (tariff_impl.cpp:123),
\* in its order: noDiscount, singlePrice, night, over the threshold.
NB(dp, night, over) == ~dp.noDiscount /\ ~dp.singlePrice /\ night /\ over
NA(dp, night)       == ~dp.singlePrice /\ night
DB(dp, over)        == ~dp.noDiscount /\ over

\* GetPriceWithoutFreeMb answers with the first mask of its comment that
\* matches, although its branches test the second and the third the other
\* way round: where both of these match, the first one does too
\* (tariff_impl.cpp:119-143).
THEOREM PriceTable ==
    ASSUME NEW dp, NEW mb, NEW m
    PROVE  LET night == Interval(dp, m) = "night"
               over  == mb > dp.threshold
           IN  /\ NB(dp, night, over) => GetPriceWithoutFreeMb(dp, mb, m) = dp.priceNightB
               /\ ~NB(dp, night, over) /\ NA(dp, night)
                    => GetPriceWithoutFreeMb(dp, mb, m) = dp.priceNightA
               /\ ~NB(dp, night, over) /\ ~NA(dp, night) /\ DB(dp, over)
                    => GetPriceWithoutFreeMb(dp, mb, m) = dp.priceDayB
               /\ ~NA(dp, night) /\ ~DB(dp, over)
                    => GetPriceWithoutFreeMb(dp, mb, m) = dp.priceDayA
  BY Zenon DEF GetPriceWithoutFreeMb, NB, NA, DB

\* GetPriceWithTraffType: with singlePrice the hour does not matter, with
\* noDiscount the amount of traffic does not (tariff_impl.cpp:48-54,
\* 119-143).
THEOREM PriceIsIndependent ==
    ASSUME NEW dp, NEW type, NEW u, NEW d, NEW u1, NEW d1, NEW m, NEW m1
    PROVE  /\ dp.singlePrice => GetPriceWithTraffType(type, dp, u, d, m)
                                  = GetPriceWithTraffType(type, dp, u, d, m1)
           /\ dp.noDiscount  => GetPriceWithTraffType(type, dp, u, d, m)
                                  = GetPriceWithTraffType(type, dp, u1, d1, m)
  BY Zenon DEF GetPriceWithTraffType, GetPriceWithoutFreeMb

-----------------------------------------------------------------------------
(* The monthly fee. *)

CONSTANTS DaysInMonth, Tariffs, NoTariff, Settings, MaxMonths, MaxDebt
VARIABLES settings, month, mday, now, running, day, passive, user, due, fees, whole

F == INSTANCE Fees WITH up <- running, charged <- fees

\* The day of the fee is behind, or it is today and has been dealt with.
FeeDayPassed ==
    mday > F!DayOf(F!DayFee) \/ (mday = F!DayOf(F!DayFee) /\ day = mday)

\* The clock is within the calendar, and a month that is whole so far has been
\* one of activity.
FeeClock ==
    /\ settings \in Settings /\ month \in Nat \ {0} /\ now \in Nat
    /\ mday \in 1..F!Length(month) /\ day \in Nat
    /\ running \in BOOLEAN /\ passive \in BOOLEAN /\ whole \in BOOLEAN
    /\ whole => running /\ ~passive

\* The fee was due once if its day is past and the server saw all of the month,
\* and never before that day.
FeeDayInv ==
    ~F!SpreadFee => /\ due \in {0, 1}
                    /\ due = 1 => FeeDayPassed
                    /\ whole /\ FeeDayPassed => due = 1

\* Every month has its length in the calendar.
LEMMA MonthIsInYear ==
    ASSUME F!FeesConstants, NEW m \in Nat \ {0}
    PROVE  F!MonthOf(m) \in DOMAIN DaysInMonth /\ DaysInMonth[F!MonthOf(m)] \in Nat \ {0, 1}
<1> DEFINE n == Len(DaysInMonth)
<1>1. n \in Nat \ {0} /\ DOMAIN DaysInMonth = 1..n
  BY DEF F!FeesConstants
<1>2. (m - 1) % n \in 0..(n - 1)
  BY <1>1
<1>3. F!MonthOf(m) \in 1..n
  BY <1>1, <1>2 DEF F!MonthOf
<1> QED BY <1>1, <1>3 DEF F!FeesConstants

\* A month, the second one of a leap year too, has more than one day.
LEMMA LengthIsNat ==
    ASSUME F!FeesConstants, NEW m \in Nat \ {0}
    PROVE  F!Length(m) \in Nat \ {0, 1}
BY MonthIsInYear DEF F!Length

\* The day a setting of DayFee means.
LEMMA DayOfFee ==
    ASSUME F!FeesConstants, FeeClock
    PROVE  /\ F!DayFee \in Nat
           /\ F!DayOf(F!DayFee) \in Nat \ {0}
           /\ F!DayFee = 0 => F!DayOf(F!DayFee) = F!Length(month)
           /\ F!DayFee # 0 => F!DayOf(F!DayFee) = F!DayFee
<1>1. F!DayFee \in Nat
  BY DEF F!FeesConstants, FeeClock, F!DayFee
<1>2. F!Length(month) \in Nat \ {0, 1}
  BY LengthIsNat DEF FeeClock
<1> QED BY <1>1, <1>2 DEF F!DayOf

\* The invariants hold of a new user.
LEMMA FeeInit == ASSUME F!FeesConstants, F!Init PROVE FeeClock /\ FeeDayInv
<1>1. month = 1 /\ F!Length(1) \in Nat \ {0, 1}
  BY LengthIsNat DEF F!Init
<1>2. FeeClock
  <2>1. /\ settings \in Settings /\ month = 1 /\ now = 0 /\ mday \in 1..F!Length(1)
        /\ day = mday
    BY DEF F!Init
  <2>2. running \in BOOLEAN /\ passive \in BOOLEAN /\ whole \in BOOLEAN /\ ~whole
    BY Zenon DEF F!Init
  <2> QED BY <1>1, <2>1, <2>2 DEF FeeClock
<1>3. FeeDayInv
  BY DEF F!Init, FeeDayInv
<1> QED BY <1>2, <1>3

\* The length of a month and the day of the fee depend on the month only.
LEMMA CalendarStays ==
    ASSUME UNCHANGED <<settings, month>>
    PROVE  /\ F!Length(month)' = F!Length(month) /\ F!DayFee' = F!DayFee
           /\ F!DayOf(F!DayFee)' = F!DayOf(F!DayFee) /\ F!SpreadFee' = F!SpreadFee
BY DEF F!Length, F!LeapYear, F!DayFee, F!DayOf, F!SpreadFee

\* Every step keeps the clock.
LEMMA FeeClockKeeps ==
    ASSUME F!FeesConstants, FeeClock, [F!Next]_F!vars PROVE FeeClock'
<1> USE DEF FeeClock
<1>1. CASE UNCHANGED <<settings, month>> /\ mday' = mday /\ ~F!Midnight
  <2>1. F!Length(month)' = F!Length(month)
    BY <1>1, CalendarStays
  <2>2. F!Length(month) \in Nat
    BY LengthIsNat
  <2>3. CASE F!NewDay
    <3>1. /\ day' = mday /\ UNCHANGED <<now, running, passive>> /\ whole' \in BOOLEAN
      BY <2>3, Zenon DEF F!NewDay, F!clock
    <3>2. whole' => whole
      BY <2>3 DEF F!NewDay
    <3> QED BY <1>1, <2>1, <2>2, <3>1, <3>2
  <2>4. CASE F!Run \/ F!Spend \/ UNCHANGED F!vars
    <3>1. UNCHANGED <<now, day, running, passive, whole>>
      BY <2>4 DEF F!Run, F!Spend, F!vars, F!clock, F!history
    <3> QED BY <1>1, <2>1, <3>1
  <2>5. CASE F!Stop \/ F!Start
    <3>1. /\ UNCHANGED <<now, passive>> /\ day' \in {day, mday}
          /\ running' \in BOOLEAN /\ whole' \in BOOLEAN /\ ~whole'
      BY <2>5, Zenon DEF F!Stop, F!Start, F!clock
    <3> QED BY <1>1, <2>1, <2>2, <3>1
  <2>6. CASE F!onPassiveChange \/ \E n \in DOMAIN Tariffs : F!SetNextTariff(n)
    <3>1. /\ UNCHANGED <<now, day, running>> /\ passive' \in BOOLEAN /\ whole' = FALSE
      BY <2>6, Zenon DEF F!onPassiveChange, F!SetNextTariff, F!clock
    <3> QED BY <1>1, <2>1, <3>1
  <2> QED BY <1>1, <2>3, <2>4, <2>5, <2>6 DEF F!Next
<1>2. CASE F!Midnight
  <2>1. F!Length(month) \in Nat \ {0, 1} /\ F!Length(month + 1) \in Nat \ {0, 1}
    BY LengthIsNat
  <2>2. CASE mday < F!Length(month) /\ mday' = mday + 1 /\ UNCHANGED month
    <3>1. F!Length(month)' = F!Length(month)
      BY <1>2, <2>2, CalendarStays DEF F!Midnight
    <3> QED BY <1>2, <2>1, <2>2, <3>1 DEF F!Midnight
  <2>3. CASE mday' = 1 /\ month' = month + 1
    <3>1. F!Length(month)' = F!Length(month + 1)
      BY <1>2, <2>3 DEF F!Midnight, F!Length, F!LeapYear
    <3> QED BY <1>2, <2>1, <2>3, <3>1 DEF F!Midnight
  <2> QED BY <1>2, <2>2, <2>3 DEF F!Midnight
<1>3. F!Next /\ ~F!Midnight => UNCHANGED <<settings, month, mday>>
  BY DEF F!Next, F!NewDay, F!Run, F!Stop, F!Start, F!onPassiveChange, F!Spend,
         F!SetNextTariff, F!clock
<1> QED BY <1>1, <1>2, <1>3 DEF F!vars

\* Every step keeps what is known of the day of the fee.
LEMMA FeeDayKeeps ==
    ASSUME F!FeesConstants, FeeClock, FeeDayInv, [F!Next]_F!vars PROVE FeeDayInv'
<1>1. FeeClock'
  BY FeeClockKeeps
<1> DEFINE fee == F!DayOf(F!DayFee)
<1>2. fee \in Nat \ {0}
  BY DayOfFee
<1>3. mday \in Nat /\ mday' \in Nat /\ F!Length(month) \in Nat \ {0, 1}
  BY <1>1, LengthIsNat DEF FeeClock
<1>4. CASE UNCHANGED <<settings, month>>
  <2>1. fee' = fee /\ F!SpreadFee' = F!SpreadFee
    BY <1>4, CalendarStays
  <2> HIDE DEF fee
  <2>2. CASE F!NewDay
    <3>1. /\ day # mday /\ day' = mday /\ mday' = mday /\ (whole' => whole)
          /\ due' = due + IF ~F!SpreadFee /\ mday = fee THEN 1 ELSE 0
      BY <2>2 DEF F!NewDay, F!clock, fee
    <3> QED BY <1>2, <1>3, <2>1, <3>1 DEF FeeDayInv, FeeDayPassed, fee
  <2>3. CASE F!Midnight
    BY <1>2, <1>3, <1>4, <2>1, <2>3 DEF F!Midnight, FeeDayInv, FeeDayPassed, FeeClock, fee
  <2>4. CASE F!Start
    BY <1>2, <1>3, <2>1, <2>4 DEF F!Start, F!clock, FeeDayInv, FeeDayPassed, fee
  <2>5. CASE F!Run \/ F!Stop \/ F!onPassiveChange \/ F!Spend \/ UNCHANGED F!vars
             \/ \E n \in DOMAIN Tariffs : F!SetNextTariff(n)
    <3>1. UNCHANGED <<mday, day, due>> /\ (whole' => whole)
      BY <2>5 DEF F!Run, F!Stop, F!onPassiveChange, F!Spend, F!SetNextTariff, F!clock, F!history,
                  F!vars
    <3> QED BY <2>1, <3>1 DEF FeeDayInv, FeeDayPassed, fee
  <2> QED BY <2>2, <2>3, <2>4, <2>5 DEF F!Next
<1>5. CASE ~UNCHANGED <<settings, month>>
  <2>1. F!Midnight /\ mday = F!Length(month) /\ mday' = 1 /\ due' = 0 /\ day' = day
        /\ (whole' => day = mday)
    BY <1>5 DEF F!Next, F!NewDay, F!Run, F!Midnight, F!Stop, F!Start, F!onPassiveChange, F!Spend,
         F!SetNextTariff, F!clock, F!vars
  <2>2. fee' \in Nat \ {0}
    <3>1. F!DayFee' \in Nat
      BY <1>1 DEF F!FeesConstants, FeeClock, F!DayFee
    <3>2. F!Length(month)' \in Nat \ {0, 1}
      BY <1>1, MonthIsInYear DEF FeeClock, F!Length
    <3> QED BY <3>1, <3>2 DEF F!DayOf
  <2> HIDE DEF fee
  <2> QED BY <1>3, <2>1, <2>2 DEF FeeDayInv, FeeDayPassed, fee
<1> QED BY <1>4, <1>5

\* The invariant implies the property.
LEMMA FeeDayHolds ==
    ASSUME F!FeesConstants, FeeClock, FeeDayInv PROVE F!FeeDayOnce
<1>1. F!DayFee \in Nat /\ F!Length(month) \in Nat
  BY DayOfFee, LengthIsNat DEF FeeClock
<1>2. F!LastDayDone /\ (\A k \in DOMAIN DaysInMonth : F!DayFee <= DaysInMonth[k]) => FeeDayPassed
  <2> SUFFICES ASSUME F!LastDayDone, \A k \in DOMAIN DaysInMonth : F!DayFee <= DaysInMonth[k]
               PROVE  FeeDayPassed
    OBVIOUS
  <2>1. F!DayFee <= F!Length(month)
    BY <1>1, MonthIsInYear DEF FeeClock, F!Length
  <2>2. F!DayOf(F!DayFee) \in Nat /\ F!DayOf(F!DayFee) <= F!Length(month)
    BY <1>1, <2>1, DayOfFee
  <2> QED BY <1>1, <2>2 DEF F!LastDayDone, FeeDayPassed
<1> QED BY <1>2 DEF FeeDayInv, F!FeeDayOnce, F!LastDayDone

\* Without SpreadFee the monthly fee is due at most once in a month, whenever
\* the server is restarted, and in a month in which the server was up exactly
\* once if every month has the day of the fee (UsersImpl::NewDay,
\* users_impl.cpp:403-446).  That the fee is due once is inductive only
\* together with where the clock is: FeeDayInv.
THEOREM FeeIsDueOnce == ASSUME F!FeesConstants PROVE F!Spec => []F!FeeDayOnce
<1>1. F!Init => FeeClock /\ FeeDayInv
  BY FeeInit
<1>2. FeeClock /\ FeeDayInv /\ [F!Next]_F!vars => (FeeClock /\ FeeDayInv)'
  BY FeeClockKeeps, FeeDayKeeps
<1>3. FeeClock /\ FeeDayInv => F!FeeDayOnce
  BY FeeDayHolds
<1> QED BY <1>1, <1>2, <1>3, PTL DEF F!Spec

-----------------------------------------------------------------------------
\* The account of a user.
AccountType ==
    [cash : Int, freeMb : Nat, passiveTime : Int, modified : Int, active : {0, 1},
     tariff : DOMAIN Tariffs, nextTariff : DOMAIN Tariffs \cup {NoTariff}]

\* The same account but for what is not its tariff.
Same(u, v) == v \in AccountType /\ v.tariff = u.tariff /\ v.nextTariff = u.nextTariff

\* The amounts of a tariff.
LEMMA TariffFields ==
    ASSUME F!FeesConstants, NEW n \in DOMAIN Tariffs
    PROVE  /\ Tariffs[n].fee \in Nat /\ Tariffs[n].free \in Nat /\ Tariffs[n].passiveCost \in Nat
BY DEF F!FeesConstants

\* One field at a time.
LEMMA TimeField ==
    ASSUME NEW u \in AccountType, NEW x \in Int
    PROVE  /\ Same(u, [u EXCEPT !.passiveTime = x]) /\ [u EXCEPT !.passiveTime = x].cash = u.cash
           /\ Same(u, [u EXCEPT !.modified = x]) /\ [u EXCEPT !.modified = x].cash = u.cash
BY DEF AccountType, Same

\* The history of activity is not part of the tariff.
LEMMA ActiveField ==
    ASSUME NEW u \in AccountType, NEW a \in {0, 1}
    PROVE  Same(u, [u EXCEPT !.active = a]) /\ [u EXCEPT !.active = a].cash = u.cash
BY DEF AccountType, Same

\* ResetPassiveTime leaves the tariff alone.
LEMMA ResetIsSame ==
    ASSUME FeeClock, NEW u \in AccountType
    PROVE  Same(u, F!ResetPassiveTime(u)) /\ F!ResetPassiveTime(u).cash = u.cash
<1> DEFINE v == [u EXCEPT !.passiveTime = 0]
           w == [v EXCEPT !.modified = now]
<1>1. F!ResetPassiveTime(u) = [w EXCEPT !.active = 0]
  BY DEF F!ResetPassiveTime
<1>2. now \in Int
  BY DEF FeeClock
<1>3. Same(u, v) /\ v.cash = u.cash
  BY DEF AccountType, Same
<1> HIDE DEF v
<1>4. Same(v, w) /\ w.cash = v.cash
  BY <1>2, <1>3, TimeField DEF Same
<1> HIDE DEF w
<1>5. Same(w, [w EXCEPT !.active = 0]) /\ [w EXCEPT !.active = 0].cash = w.cash
  BY <1>4, ActiveField DEF Same
<1> QED BY <1>1, <1>3, <1>4, <1>5 DEF Same

\* So does the count of frozen time,
LEMMA CountIsSame ==
    ASSUME FeeClock, NEW u \in AccountType
    PROVE  Same(u, F!CountPassive(u))
<1> DEFINE v == [u EXCEPT !.passiveTime = u.passiveTime + (now - u.modified)]
<1>1. passive => F!CountPassive(u) = [v EXCEPT !.modified = now]
  BY DEF F!CountPassive
<1>2. now \in Int /\ u.passiveTime + (now - u.modified) \in Int
  BY DEF FeeClock, AccountType
<1>3. Same(u, v)
  BY <1>2, TimeField
<1> HIDE DEF v
<1>4. Same(v, [v EXCEPT !.modified = now])
  BY <1>2, <1>3, TimeField DEF Same
<1>5. CASE passive
  BY <1>1, <1>3, <1>4, <1>5 DEF Same
<1>6. CASE ~passive
  BY <1>6 DEF F!CountPassive, Same
<1> QED BY <1>5, <1>6

\* the prepaid traffic,
LEMMA PrepaidIsSame ==
    ASSUME F!FeesConstants, NEW u \in AccountType
    PROVE  Same(u, F!SetPrepaidTraff(u)) /\ F!SetPrepaidTraff(u).cash = u.cash
BY TariffFields DEF AccountType, Same, F!SetPrepaidTraff, F!Tariff

\* a charge,
LEMMA ChargeIsSame ==
    ASSUME NEW u \in AccountType, NEW x \in Int
    PROVE  Same(u, F!Charge(u, x)) /\ F!Charge(u, x).cash = u.cash - x
BY DEF AccountType, Same, F!Charge

\* A share of a fee is an integer.
LEMMA DivIsNat ==
    ASSUME NEW a \in Int, NEW b \in Nat \ {0} PROVE a \div b \in Int
OBVIOUS

\* The share of a fee for the time of activity is a number.
LEMMA PartIsInt ==
    ASSUME F!FeesConstants, FeeClock, NEW u \in AccountType, NEW x \in Nat
    PROVE  F!PassivePart(u, x) \in Int
<1> DEFINE m == month + Len(DaysInMonth) - 1
           len == DaysInMonth[F!MonthOf(m)] + IF F!LeapYear /\ F!MonthOf(month) = 2 THEN 1 ELSE 0
           dt == len - u.passiveTime
<1>1. m \in Nat \ {0}
  BY DEF F!FeesConstants, FeeClock
<1>2. DaysInMonth[F!MonthOf(m)] \in Nat \ {0, 1}
  BY <1>1, MonthIsInYear
<1>3. len \in Nat \ {0}
  BY <1>2
<1>4. dt \in Int
  BY <1>3 DEF AccountType
<1>5. x * dt \in Int
  BY <1>4
<1> HIDE DEF len, dt
<1>6. (x * dt) \div len \in Int
  BY <1>3, <1>5, DivIsNat
<1> QED BY <1>6 DEF F!PassivePart, len, dt

-----------------------------------------------------------------------------
\* What a day takes from an account leaves its tariffs alone.
LEMMA SpreadIsSame ==
    ASSUME F!FeesConstants, FeeClock, NEW u \in AccountType
    PROVE  Same(u, F!ProcessDayFeeSpread(u))
<1> DEFINE fee == F!Tariff(u).fee \div F!Length(month)
           v == IF F!Chargeable(u, fee) THEN F!Charge(u, fee) ELSE u
<1>1. fee \in Int
  BY TariffFields, LengthIsNat, DivIsNat DEF AccountType, FeeClock, F!Tariff
<1>2. F!ProcessDayFeeSpread(u) \in {u, F!ResetPassiveTime(v)}
  BY DEF F!ProcessDayFeeSpread
<1> HIDE DEF fee
<1>3. Same(u, v)
  BY <1>1, ChargeIsSame DEF Same
<1> HIDE DEF v
<1>4. Same(v, F!ResetPassiveTime(v))
  BY <1>3, ResetIsSame DEF Same
<1> QED BY <1>2, <1>3, <1>4 DEF Same

\* ProcessDayFee leaves the tariff alone.
LEMMA DayFeeIsSame ==
    ASSUME F!FeesConstants, FeeClock, NEW u \in AccountType
    PROVE  Same(u, F!ProcessDayFee(u))
<1> DEFINE fee == IF F!FullFee THEN F!Tariff(u).fee ELSE F!PassivePart(u, F!Tariff(u).fee)
           r == F!ResetPassiveTime(u)
           c == F!Charge(r, fee)
<1>1. fee \in Int
  BY TariffFields, PartIsInt DEF AccountType, F!Tariff
<1>2. F!ProcessDayFee(u) \in {u, r, F!SetPrepaidTraff(r), F!SetPrepaidTraff(c)}
  BY DEF F!ProcessDayFee
<1> HIDE DEF fee
<1>3. Same(u, r)
  BY ResetIsSame
<1> HIDE DEF r
<1>4. Same(r, c)
  BY <1>1, <1>3, ChargeIsSame DEF Same
<1> HIDE DEF c
<1>5. Same(r, F!SetPrepaidTraff(r)) /\ Same(c, F!SetPrepaidTraff(c))
  BY <1>3, <1>4, PrepaidIsSame DEF Same
<1> QED BY <1>2, <1>3, <1>4, <1>5 DEF Same

\* So does ProcessDailyFee,
LEMMA DailyIsSame ==
    ASSUME F!FeesConstants, FeeClock, NEW u \in AccountType
    PROVE  Same(u, F!ProcessDailyFee(u))
<1> DEFINE fee == F!Tariff(u).fee
           v == IF F!FeeChargeType # 3 /\ F!Chargeable(u, fee) THEN F!Charge(u, fee) ELSE u
<1>1. fee \in Int
  BY TariffFields DEF AccountType, F!Tariff
<1>2. F!ProcessDailyFee(u) \in {u, F!ResetPassiveTime(v)}
  BY DEF F!ProcessDailyFee
<1> HIDE DEF fee
<1>3. Same(u, v)
  BY <1>1, ChargeIsSame DEF Same
<1> HIDE DEF v
<1>4. Same(v, F!ResetPassiveTime(v))
  BY <1>3, ResetIsSame DEF Same
<1> QED BY <1>2, <1>3, <1>4 DEF Same

\* and the services.
LEMMA ServicesAreSame ==
    ASSUME F!FeesConstants, FeeClock, NEW u \in AccountType
    PROVE  Same(u, F!ProcessServices(u))
<1> DEFINE fee == IF F!FullFee THEN F!Service.cost ELSE F!PassivePart(u, F!Service.cost)
           c == F!Charge(u, fee)
<1>1. F!Service.cost \in Nat
  BY DEF F!FeesConstants, FeeClock, F!Service
<1>2. fee \in Int
  BY <1>1, PartIsInt
<1>3. F!ProcessServices(u) \in {u, F!SetPrepaidTraff(c)}
  BY DEF F!ProcessServices
<1> HIDE DEF fee
<1>4. Same(u, c)
  BY <1>2, ChargeIsSame
<1> HIDE DEF c
<1>5. Same(c, F!SetPrepaidTraff(c))
  BY <1>4, PrepaidIsSame DEF Same
<1> QED BY <1>3, <1>4, <1>5 DEF Same

\* The day of reset may change the tariff, and nothing else but the request.
LEMMA ResetDay ==
    ASSUME NEW u \in AccountType
    PROVE  F!DayResetTraffic(u) \in AccountType /\ F!DayResetTraffic(u).cash = u.cash
<1> DEFINE t == IF u.nextTariff # NoTariff /\ F!MayChange(F!Tariff(u), Tariffs[u.nextTariff])
                  THEN u.nextTariff ELSE u.tariff
           v == [u EXCEPT !.nextTariff = NoTariff]
<1>1. F!ProcessNewMonth(u) = [v EXCEPT !.tariff = t]
  BY DEF F!ProcessNewMonth
<1>2. t \in DOMAIN Tariffs
  BY DEF AccountType
<1>3. v \in AccountType /\ v.cash = u.cash
  BY DEF AccountType
<1> HIDE DEF v, t
<1>4. [v EXCEPT !.tariff = t] \in AccountType /\ [v EXCEPT !.tariff = t].cash = v.cash
  BY <1>2, <1>3 DEF AccountType
<1> QED BY <1>1, <1>3, <1>4 DEF F!DayResetTraffic

\* A new day gives an account again; the monthly fee is that of the tariff
\* before the day if that is also the tariff after it.
LEMMA NewDayAccount ==
    ASSUME F!FeesConstants, FeeClock, NEW u \in AccountType
    PROVE  /\ F!FeesAndReset(u) \in AccountType /\ F!Before(u) \in AccountType
           /\ F!FeesAndReset(u).tariff = u.tariff => F!Before(u).tariff = u.tariff
<1> DEFINE b == F!Before(u)
           m == F!MonthlyFee(b)
           d == F!ProcessDailyFee(m)
           s == F!ProcessServices(d)
<1>1. F!FeesAndReset(u) = IF F!DayFeeIsLastDay THEN F!DayResetTraffic(s) ELSE s
  BY DEF F!FeesAndReset, F!Before
<1>2. b \in AccountType /\ (F!DayFeeIsLastDay => b = u)
  BY ResetDay DEF F!Before
<1> HIDE DEF b
<1>3. Same(b, m)
  BY <1>2, SpreadIsSame, DayFeeIsSame DEF F!MonthlyFee, Same
<1> HIDE DEF m
<1>4. Same(m, d)
  BY <1>3, DailyIsSame DEF Same
<1> HIDE DEF d
<1>5. Same(d, s)
  BY <1>4, ServicesAreSame DEF Same
<1> HIDE DEF s
<1>6. s \in AccountType /\ s.tariff = b.tariff
  BY <1>3, <1>4, <1>5 DEF Same
<1>7. F!FeesAndReset(u) \in AccountType
  BY <1>1, <1>6, ResetDay
<1>8. F!FeesAndReset(u).tariff = u.tariff => b.tariff = u.tariff
  BY <1>1, <1>2, <1>6
<1> QED BY <1>2, <1>7, <1>8 DEF b

-----------------------------------------------------------------------------
\* Arithmetic of shares.
LEMMA DivMonotone ==
    ASSUME NEW a \in Nat, NEW b \in Nat, NEW n \in Nat \ {0}, a <= b
    PROVE  a \div n \in Nat /\ a \div n <= b \div n
OBVIOUS

\* So many parts are no more than the whole.
LEMMA DivBounded ==
    ASSUME NEW a \in Nat, NEW n \in Nat \ {0} PROVE n * (a \div n) <= a
OBVIOUS

\* More days make no less.
LEMMA TimesMonotone ==
    ASSUME NEW a \in Nat, NEW b \in Nat, NEW s \in Nat, a <= b
    PROVE  a * s \in Nat /\ b * s \in Nat /\ a * s <= b * s
OBVIOUS

\* One day more is one part more.
LEMMA TimesNext ==
    ASSUME NEW a \in Nat, NEW s \in Nat PROVE (a + 1) * s = a * s + s /\ 0 * s = 0
OBVIOUS

-----------------------------------------------------------------------------
\* A day's part of the fee of a tariff.
Share(n) == Tariffs[n].fee \div F!Length(month)

\* No tariff has a higher fee.
Dearest(n) == \A k \in DOMAIN Tariffs : Tariffs[k].fee <= Tariffs[n].fee

\* The days of the month that have been dealt with, or that passed while the
\* server was down.
Elapsed == IF day = mday THEN mday ELSE mday - 1

\* What was charged in the month is the parts of the days dealt with, if the
\* month is whole so far, and otherwise no more than those of the dearest.
SpreadInv ==
    /\ user \in AccountType /\ fees \in Int
    /\ F!SpreadFee =>
         /\ \A n \in DOMAIN Tariffs : Dearest(n) => fees <= Elapsed * Share(n)
         /\ whole /\ F!FeeChargeType = 0 /\ F!IsMonthly(user) =>
              fees = Elapsed * Share(user.tariff)

\* A part of a fee is a number.
LEMMA ShareIsNat ==
    ASSUME F!FeesConstants, FeeClock, NEW n \in DOMAIN Tariffs
    PROVE  /\ Share(n) \in Nat /\ F!Length(month) * Share(n) <= Tariffs[n].fee
           /\ \A k \in DOMAIN Tariffs : Dearest(k) => Share(n) <= Share(k)
<1>1. Tariffs[n].fee \in Nat /\ F!Length(month) \in Nat \ {0}
  BY TariffFields, LengthIsNat DEF FeeClock
<1>2. \A k \in DOMAIN Tariffs : Dearest(k) => Share(n) <= Share(k)
  <2> SUFFICES ASSUME NEW k \in DOMAIN Tariffs, Dearest(k) PROVE Share(n) <= Share(k)
    OBVIOUS
  <2>1. Tariffs[k].fee \in Nat /\ Tariffs[n].fee <= Tariffs[k].fee
    BY TariffFields DEF Dearest
  <2> QED BY <1>1, <2>1, DivMonotone DEF Share
<1> QED BY <1>1, <1>2, DivMonotone, DivBounded DEF Share

\* What the monthly fee takes on one day with SpreadFee.
LEMMA SpreadTakes ==
    ASSUME F!FeesConstants, FeeClock, F!SpreadFee, NEW b \in AccountType
    PROVE  /\ b.cash - F!MonthlyFee(b).cash \in {0, Share(b.tariff)}
           /\ ~passive /\ F!IsMonthly(b) /\ F!FeeChargeType = 0
                => b.cash - F!MonthlyFee(b).cash = Share(b.tariff)
<1> DEFINE x == Share(b.tariff)
           c == F!Charge(b, x)
<1>1. x \in Nat
  BY ShareIsNat DEF AccountType
<1>2. b.cash \in Int
  BY DEF AccountType
<1>3. Same(b, c) /\ c.cash = b.cash - x
  BY <1>1, ChargeIsSame
<1>4. F!ResetPassiveTime(b).cash = b.cash /\ F!ResetPassiveTime(c).cash = c.cash
  BY <1>3, ResetIsSame DEF Same
<1>5. F!MonthlyFee(b) = IF passive \/ ~F!IsMonthly(b) THEN b
                        ELSE IF x = 0 THEN b
                        ELSE F!ResetPassiveTime(IF F!Chargeable(b, x) THEN c ELSE b)
  BY DEF F!MonthlyFee, F!ProcessDayFeeSpread, F!Tariff, Share
<1>6. F!FeeChargeType = 0 => F!Chargeable(b, x)
  BY DEF F!Chargeable
<1> HIDE DEF x, c
<1> QED BY <1>1, <1>2, <1>3, <1>4, <1>5, <1>6 DEF x

\* The invariant holds of a new user.
LEMMA SpreadInit == ASSUME F!FeesConstants, F!Init PROVE SpreadInv
<1>1. FeeClock
  BY FeeInit
<1>2. user \in AccountType
  <2>1. PICK c \in settings.Cashes, n \in DOMAIN Tariffs :
          user = [cash |-> c, freeMb |-> 0, passiveTime |-> mday - 1, modified |-> 0,
                  active |-> 0, tariff |-> n, nextTariff |-> NoTariff]
    BY DEF F!Init
  <2>2. c \in Int /\ mday - 1 \in Int
    BY <1>1, LengthIsNat DEF F!FeesConstants, FeeClock
  <2> QED BY <2>1, <2>2 DEF AccountType
<1>3. fees = 0 /\ ~whole /\ Elapsed \in Nat
  BY <1>1, LengthIsNat DEF F!Init, FeeClock, Elapsed
<1>4. \A n \in DOMAIN Tariffs : fees <= Elapsed * Share(n)
  BY <1>1, <1>3, ShareIsNat, TimesMonotone
<1> QED BY <1>2, <1>3, <1>4 DEF SpreadInv

\* A step after which at least as many days have elapsed, in the same month.
LEMMA SpreadStays ==
    ASSUME F!FeesConstants, FeeClock, SpreadInv, UNCHANGED <<settings, month, fees>>,
           user' \in AccountType, Elapsed' \in Nat, Elapsed <= Elapsed',
           whole' => whole /\ Elapsed' = Elapsed /\ user'.tariff = user.tariff
    PROVE  SpreadInv'
<1>1. /\ F!SpreadFee' = F!SpreadFee /\ F!FeeChargeType' = F!FeeChargeType
      /\ \A n : Share(n)' = Share(n)
  BY DEF F!SpreadFee, F!FeeChargeType, Share, F!Length, F!LeapYear
<1>2. Elapsed \in Nat
  BY LengthIsNat DEF FeeClock, Elapsed
<1>3. ASSUME F!SpreadFee, NEW n \in DOMAIN Tariffs, Dearest(n) PROVE fees <= Elapsed' * Share(n)
  <2>1. Share(n) \in Nat
    BY ShareIsNat
  <2>2. Elapsed * Share(n) \in Nat /\ Elapsed' * Share(n) \in Nat
        /\ Elapsed * Share(n) <= Elapsed' * Share(n)
    BY <1>2, <2>1, TimesMonotone
  <2>3. fees \in Int /\ fees <= Elapsed * Share(n)
    BY <1>3 DEF SpreadInv
  <2> QED BY <2>2, <2>3
<1>4. whole' => F!IsMonthly(user)' = F!IsMonthly(user)
  BY DEF F!IsMonthly, F!Tariff
<1>5. \A n : Dearest(n)' = Dearest(n)
  BY DEF Dearest
<1>6. F!SpreadFee /\ whole' /\ F!FeeChargeType = 0 /\ F!IsMonthly(user)' =>
        fees = Elapsed' * Share(user.tariff)
  BY <1>4 DEF SpreadInv
<1> QED BY <1>1, <1>3, <1>5, <1>6 DEF SpreadInv

\* A new day charges one part.
LEMMA SpreadNewDay ==
    ASSUME F!FeesConstants, FeeClock, SpreadInv, F!NewDay PROVE SpreadInv'
<1> DEFINE u == F!CountPassive(user)
           b == F!Before(u)
           x == b.cash - F!MonthlyFee(b).cash
<1>1. /\ user' = F!FeesAndReset(u) /\ fees' = fees + x /\ day # mday /\ day' = mday
      /\ whole' => whole /\ user'.tariff = u.tariff
      /\ UNCHANGED <<settings, month, mday, passive>>
  BY DEF F!NewDay, F!clock
<1>2. user \in AccountType /\ fees \in Int
  BY DEF SpreadInv
<1>3. u \in AccountType /\ u.tariff = user.tariff
  BY <1>2, CountIsSame DEF Same
<1> HIDE DEF u
<1>4. user' \in AccountType /\ b \in AccountType /\ (whole' => b.tariff = user.tariff)
  BY <1>1, <1>3, NewDayAccount
<1>5. Elapsed \in Nat /\ Elapsed' = Elapsed + 1
  BY <1>1, LengthIsNat DEF FeeClock, Elapsed
<1>6. /\ F!SpreadFee' = F!SpreadFee /\ F!FeeChargeType' = F!FeeChargeType
      /\ \A n : Share(n)' = Share(n) /\ Dearest(n)' = Dearest(n)
  BY <1>1 DEF F!SpreadFee, F!FeeChargeType, Share, F!Length, F!LeapYear, Dearest
<1>7. fees' \in Int
  <2>1. F!MonthlyFee(b) \in AccountType
    BY <1>4, SpreadIsSame, DayFeeIsSame DEF F!MonthlyFee, Same
  <2> QED BY <1>1, <1>2, <1>4, <2>1 DEF AccountType
<1> HIDE DEF b
<1>8. F!SpreadFee => /\ x \in {0, Share(b.tariff)}
                     /\ ~passive /\ F!IsMonthly(b) /\ F!FeeChargeType = 0 => x = Share(b.tariff)
  BY <1>4, SpreadTakes
<1> HIDE DEF x
<1>9. ASSUME F!SpreadFee, NEW n \in DOMAIN Tariffs, Dearest(n) PROVE fees' <= Elapsed' * Share(n)
  <2>1. Share(n) \in Nat /\ Share(b.tariff) \in Nat /\ Share(b.tariff) <= Share(n)
    BY <1>4, <1>9, ShareIsNat DEF AccountType
  <2>2. x \in Nat /\ x <= Share(n)
    BY <1>8, <1>9, <2>1
  <2>3. (Elapsed + 1) * Share(n) = Elapsed * Share(n) + Share(n) /\ Elapsed * Share(n) \in Nat
    BY <1>5, <2>1, TimesNext, TimesMonotone
  <2>4. fees <= Elapsed * Share(n)
    BY <1>9 DEF SpreadInv
  <2> QED BY <1>1, <1>2, <1>5, <2>1, <2>2, <2>3, <2>4
<1>10. ASSUME F!SpreadFee, whole', F!FeeChargeType = 0, F!IsMonthly(user)'
       PROVE  fees' = Elapsed' * Share(user'.tariff)
  <2>1. whole /\ ~passive /\ b.tariff = user.tariff /\ user'.tariff = user.tariff
    BY <1>1, <1>3, <1>4, <1>10 DEF FeeClock
  <2>2. F!IsMonthly(user) /\ F!IsMonthly(b)
    BY <1>10, <2>1 DEF F!IsMonthly, F!Tariff
  <2>3. fees = Elapsed * Share(user.tariff) /\ x = Share(user.tariff)
    BY <1>8, <1>10, <2>1, <2>2 DEF SpreadInv
  <2>4. Share(user.tariff) \in Nat
    BY <1>2, ShareIsNat DEF AccountType
  <2> QED BY <1>1, <1>5, <2>1, <2>3, <2>4, TimesNext
<1> QED BY <1>4, <1>6, <1>7, <1>9, <1>10 DEF SpreadInv

\* At midnight nothing is charged, and a new month begins at nothing.
LEMMA SpreadMidnight ==
    ASSUME F!FeesConstants, FeeClock, SpreadInv, F!Midnight PROVE SpreadInv'
<1>1. FeeClock'
  BY FeeClockKeeps DEF F!Next
<1>2. user \in AccountType /\ mday \in Nat \ {0} /\ F!Length(month) \in Nat \ {0, 1}
  BY LengthIsNat DEF SpreadInv, FeeClock
<1>3. Same(user, user')
  <2>1. user' \in {[user EXCEPT !.active = user.active], [user EXCEPT !.active = 1]}
    BY DEF F!Midnight
  <2>2. user.active \in {0, 1}
    BY <1>2 DEF AccountType
  <2> QED BY <1>2, <2>1, <2>2, ActiveField
<1>4. CASE mday' = mday + 1 /\ UNCHANGED <<month, fees>>
  <2>1. UNCHANGED <<settings, day>> /\ (whole' => whole /\ day = mday)
    BY <1>4 DEF F!Midnight, FeeClock
  <2>2. Elapsed' \in Nat /\ Elapsed <= Elapsed' /\ (whole' => Elapsed' = Elapsed)
    BY <1>2, <1>4, <2>1 DEF Elapsed
  <2> QED BY <1>3, <1>4, <2>1, <2>2, SpreadStays DEF Same
<1>5. CASE mday = F!Length(month) /\ mday' = 1 /\ fees' = 0
  <2>1. UNCHANGED <<settings, day>> /\ (whole' => day = mday)
    BY <1>5 DEF F!Midnight, FeeClock
  <2>2. Elapsed' \in Nat /\ (whole' => Elapsed' = 0)
    BY <1>2, <1>5, <2>1 DEF Elapsed
  <2>3. \A n \in DOMAIN Tariffs : Share(n)' \in Nat
    <3>1. F!Length(month)' \in Nat \ {0}
      BY <1>1, MonthIsInYear DEF FeeClock, F!Length
    <3> QED BY <3>1, TariffFields, DivMonotone DEF Share
  <2>4. user' \in AccountType /\ user'.tariff \in DOMAIN Tariffs
    BY <1>3 DEF Same, AccountType
  <2>5. \A n \in DOMAIN Tariffs : 0 <= Elapsed' * Share(n)' /\ 0 * Share(n)' = 0
    BY <2>2, <2>3, TimesMonotone, TimesNext
  <2> QED BY <1>5, <2>2, <2>4, <2>5 DEF SpreadInv
<1> QED BY <1>4, <1>5 DEF F!Midnight

\* Every step keeps the invariant.
LEMMA SpreadKeeps ==
    ASSUME F!FeesConstants, FeeClock, SpreadInv, [F!Next]_F!vars PROVE SpreadInv'
<1>1. user \in AccountType /\ mday \in Nat \ {0}
  BY LengthIsNat DEF SpreadInv, FeeClock
<1>2. Elapsed \in Nat /\ mday \in Nat /\ Elapsed <= mday
  BY <1>1 DEF Elapsed
<1>3. Same(user, F!CountPassive(user))
  BY <1>1, CountIsSame
<1>4. ASSUME F!Run \/ F!Spend \/ F!Stop \/ F!onPassiveChange \/ UNCHANGED F!vars
             \/ \E n \in DOMAIN Tariffs : F!SetNextTariff(n)
      PROVE SpreadInv'
  <2>1. UNCHANGED <<settings, month, fees, day, mday>>
    BY <1>4 DEF F!Run, F!Spend, F!Stop, F!onPassiveChange, F!SetNextTariff, F!clock, F!history,
                F!vars
  <2>2. Elapsed' = Elapsed
    BY <2>1 DEF Elapsed
  <2>3. user' \in AccountType /\ (whole' => whole /\ user'.tariff = user.tariff)
    <3>1. CASE F!Run \/ F!Stop
      BY <1>3, <3>1 DEF F!Run, F!Stop, Same, F!history
    <3>2. CASE F!Spend
      BY <1>1, <3>2 DEF F!Spend, F!history, AccountType
    <3>3. CASE F!onPassiveChange
      <4>1. F!Tariff(user).passiveCost \in Int
        BY <1>1, TariffFields DEF AccountType, F!Tariff
      <4>2. F!Charge(user, F!Tariff(user).passiveCost) \in AccountType
        BY <1>1, <4>1, ChargeIsSame DEF Same
      <4> QED BY <1>1, <3>3, <4>2 DEF F!onPassiveChange
    <3>4. ASSUME NEW n \in DOMAIN Tariffs, F!SetNextTariff(n)
          PROVE  user' \in AccountType /\ ~whole'
      BY <1>1, <3>4 DEF F!SetNextTariff, AccountType
    <3>5. CASE UNCHANGED F!vars
      BY <1>1, <3>5 DEF F!vars
    <3> QED BY <1>4, <3>1, <3>2, <3>3, <3>4, <3>5
  <2> QED BY <1>2, <2>1, <2>2, <2>3, SpreadStays
<1>5. CASE F!Start
  <2>1. UNCHANGED <<settings, month, fees, mday>> /\ day' = mday /\ ~whole'
    BY <1>5 DEF F!Start, F!clock
  <2>2. user' \in AccountType
    <3>1. user' = [user EXCEPT !.modified = now] /\ now \in Int
      BY <1>5 DEF F!Start, FeeClock
    <3> QED BY <1>1, <3>1 DEF AccountType
  <2>3. Elapsed' = mday
    BY <2>1 DEF Elapsed
  <2> QED BY <1>2, <2>1, <2>2, <2>3, SpreadStays
<1> QED BY <1>4, <1>5, SpreadNewDay, SpreadMidnight DEF F!Next

\* The invariant implies the property.
LEMMA SpreadHolds ==
    ASSUME F!FeesConstants, F!SharesAreWhole, FeeClock, SpreadInv PROVE F!SpreadIsExact
<1> SUFFICES ASSUME F!SpreadFee, F!FeeChargeType = 0, F!IsMonthly(user)
             PROVE  /\ F!LastDayDone => fees = F!Tariff(user).fee
                    /\ \A n \in DOMAIN Tariffs : Dearest(n) => fees <= Tariffs[n].fee
  BY DEF F!SpreadIsExact, Dearest
<1>1. F!Length(month) \in Nat \ {0, 1} /\ mday \in 1..F!Length(month)
  BY LengthIsNat DEF FeeClock
<1>2. ASSUME F!LastDayDone PROVE fees = F!Tariff(user).fee
  <2>1. Elapsed = F!Length(month)
    BY <1>2 DEF F!LastDayDone, Elapsed
  <2>2. fees = F!Length(month) * Share(user.tariff)
    BY <1>2, <2>1 DEF F!LastDayDone, SpreadInv
  <2>3. user.tariff \in DOMAIN Tariffs \ {NoTariff} /\ ~Tariffs[user.tariff].daily
    BY DEF F!IsMonthly, F!Tariff, SpreadInv, AccountType
  <2>4. F!MonthOf(month) \in DOMAIN DaysInMonth
    BY MonthIsInYear DEF FeeClock
  <2>5. F!Length(month) * (Tariffs[user.tariff].fee \div F!Length(month)) = Tariffs[user.tariff].fee
    BY <2>3, <2>4 DEF F!SharesAreWhole, FeeClock, F!Length, F!LeapYear, F!SpreadFee
  <2> QED BY <2>2, <2>5 DEF Share, F!Tariff
<1>3. ASSUME NEW n \in DOMAIN Tariffs, Dearest(n) PROVE fees <= Tariffs[n].fee
  <2>1. Share(n) \in Nat /\ F!Length(month) * Share(n) <= Tariffs[n].fee /\ Tariffs[n].fee \in Nat
    BY ShareIsNat, TariffFields
  <2>2. Elapsed \in Nat /\ Elapsed <= F!Length(month)
    BY <1>1 DEF Elapsed
  <2>3. /\ Elapsed * Share(n) \in Nat /\ F!Length(month) * Share(n) \in Nat
        /\ Elapsed * Share(n) <= F!Length(month) * Share(n)
    BY <1>1, <2>1, <2>2, TimesMonotone
  <2>4. fees \in Int /\ fees <= Elapsed * Share(n)
    BY <1>3 DEF SpreadInv
  <2> DEFINE passed == Elapsed * Share(n)
             all == F!Length(month) * Share(n)
  <2>5. /\ fees <= passed /\ passed <= all /\ all <= Tariffs[n].fee
        /\ fees \in Int /\ passed \in Nat /\ all \in Nat /\ Tariffs[n].fee \in Nat
    BY <2>1, <2>3, <2>4
  <2> HIDE DEF passed, all
  <2> QED BY <2>5
<1> QED BY <1>2, <1>3

\* With SpreadFee the daily parts of a fee make up the fee at the end of a month
\* of activity, and at no time more than the dearest fee
\* (UserImpl::ProcessDayFeeSpread, user_impl.cpp:1055-1090), when the days of
\* every month share the fees without a remainder.
THEOREM FeeIsSpread ==
    ASSUME F!FeesConstants, F!SharesAreWhole PROVE F!Spec => []F!SpreadIsExact
<1>1. F!Init => FeeClock /\ SpreadInv
  BY FeeInit, SpreadInit
<1>2. FeeClock /\ SpreadInv /\ [F!Next]_F!vars => (FeeClock /\ SpreadInv)'
  BY FeeClockKeeps, SpreadKeeps
<1>3. FeeClock /\ SpreadInv => F!SpreadIsExact
  BY SpreadHolds
<1> QED BY <1>1, <1>2, <1>3, PTL DEF F!Spec

\* Both: the monthly fee is due once a month, or its daily parts make it up.
THEOREM FeesAddUp ==
    ASSUME F!FeesConstants, F!SharesAreWhole PROVE F!Spec => []F!FeeIsWhole
<1>1. F!Spec => []F!FeeDayOnce
  BY FeeIsDueOnce
<1>2. F!Spec => []F!SpreadIsExact
  BY FeeIsSpread
<1>3. F!FeeDayOnce /\ F!SpreadIsExact => F!FeeIsWhole
  BY DEF F!FeeIsWhole
<1> QED BY <1>1, <1>2, <1>3, PTL
=============================================================================
