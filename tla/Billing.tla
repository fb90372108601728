------------------------------- MODULE Billing -------------------------------
(***************************************************************************)
(* Traffic accounting of one subscriber: UserImpl::AddTraffStatU and       *)
(* AddTraffStatD, called by the traffic counter, and WriteDetailStat,      *)
(* called by the users thread and, with hard = true, at shutdown           *)
(* (projects/stargazer/user_impl.cpp).  AddTraffStat runs under m_mutex    *)
(* and is one step; WriteDetailStat takes m_mutex only to swap the         *)
(* accumulated statistics out, so traffic arrives between its steps.       *)
(***************************************************************************)
EXTENDS Tariff

CONSTANTS
    Dirs,               \* traffic directions
    Prices,             \* [Dirs -> DirPriceData]
    TraffType,          \* GetTraffType()
    Free,               \* GetFree(): prepaid traffic of a fee, in money
    DisabledDetailStat, WriteFreeMbTraffCost,
    Lens,               \* sizes of the chunks the traffic counter reports
    Minutes,            \* times of day
    SetValues,          \* counters an administrator may set
    MaxBytes            \* bound on all the traffic accounted

ASSUME BillingConstants ==
    /\ Prices \in [Dirs -> DirPrices(Nat, Nat, Nat)]
    /\ TraffType \in TraffTypes
    /\ Free \in Int
    /\ {DisabledDetailStat, WriteFreeMbTraffCost} \subseteq BOOLEAN
    /\ Lens \subseteq Nat \ {0}
    /\ Minutes \subseteq Nat /\ SetValues \subseteq Nat
    /\ MaxBytes \in Nat

VARIABLES
    connected,
    up, down,           \* traffic of the month by direction
    sessUp, sessDown,   \* traffic of the session by direction
    cash, freeMb,
    traffStat,          \* detailed statistics not handed to the store
    saved,              \* traffStatSaved: refused by the store, to be retried
    ts,                 \* the statistics WriteDetailStat is writing
    stored,             \* what the store has accepted
    writer,             \* progress of WriteDetailStat
    hard,               \* the last, "hard" write of a shutdown has begun
    metered,            \* all bytes accounted so far, both ways
    charged,            \* price of all the accounted traffic
    spent,              \* cash taken for traffic ...
    base                \* ... since freeMb was set to this value

traffic == <<up, down, sessUp, sessDown>>
ledger  == <<cash, freeMb, metered, charged, spent, base>>
detail  == <<traffStat, saved, ts, stored, writer, hard>>
vars    == <<connected, traffic, ledger, detail>>

\* An entry of the detailed statistics: bytes and cost, summed over the
\* remote addresses that key the map of the code.
StatNode == [bytes : Nat, cost : Int]
NoStat   == [bytes |-> 0, cost |-> 0]
Plus(a, b) == [bytes |-> a.bytes + b.bytes, cost |-> a.cost + b.cost]

-----------------------------------------------------------------------------
(***************************************************************************)
(* The price of a chunk of len bytes when the counters go from u, d to     *)
(* u1, d1.  A chunk that reaches the threshold is split there.             *)
(***************************************************************************)
ChunkPrice(dir, u, d, u1, d1, len, minute) ==
    LET dp    == Prices[dir]
        traff == GetTraffByType(TraffType, u, d)
        limit == dp.threshold * MB
        old   == GetPriceWithTraffType(TraffType, dp, u, d, minute)
        new   == GetPriceWithTraffType(TraffType, dp, u1, d1, minute)
    IN  IF traff < limit /\ traff + len >= limit
          THEN old * (limit - traff) + new * (len - (limit - traff))
          ELSE old * len

\* What the chunk takes from cash: prepaid traffic is used up first.
Cost(dc) ==
    IF freeMb <= 0 THEN dc
    ELSE IF freeMb < dc THEN dc - freeMb ELSE 0

\* The cost that goes into the detailed statistics, after freeMb was reduced.
DetailCost(cost, left) == IF ~WriteFreeMbTraffCost /\ left >= 0 THEN 0 ELSE cost

\* A chunk that is charged dc (0 when its direction is free of charge).
Account(dc, len) ==
    /\ freeMb' = freeMb - dc
    /\ cash' = cash - Cost(dc)
    /\ spent' = spent + Cost(dc)
    /\ charged' = charged + dc
    /\ metered' = metered + len
    /\ traffStat' = Plus(traffStat, [bytes |-> len, cost |-> DetailCost(Cost(dc), freeMb')])
    /\ UNCHANGED <<base, saved, ts, stored, writer, hard>>

AddTraffStatU(dir, len, minute) ==
    LET newUp == up[dir] + len
        pays  == \/ TraffType \in {"up", "up+down"}
                 \/ TraffType = "max" /\ newUp > down[dir]
    IN  /\ connected /\ ~hard
        /\ metered + len <= MaxBytes
        /\ Account(IF pays THEN ChunkPrice(dir, up[dir], down[dir], newUp, down[dir], len, minute)
                   ELSE 0, len)
        /\ up' = [up EXCEPT ![dir] = newUp]
        /\ sessUp' = [sessUp EXCEPT ![dir] = @ + len]
        /\ UNCHANGED <<connected, down, sessDown>>

\* Mutant: the download of an "up+down" tariff is not charged.
AddTraffStatDFree(dir, len, minute) ==
    LET newDown == down[dir] + len
        pays    == \/ TraffType = "down"
                   \/ TraffType = "max" /\ up[dir] <= newDown
    IN  /\ connected /\ ~hard
        /\ metered + len <= MaxBytes
        /\ Account(IF pays THEN ChunkPrice(dir, up[dir], down[dir], up[dir], newDown, len, minute)
                   ELSE 0, len)
        /\ down' = [down EXCEPT ![dir] = newDown]
        /\ sessDown' = [sessDown EXCEPT ![dir] = @ + len]
        /\ UNCHANGED <<connected, up, sessUp>>

AddTraffStatD(dir, len, minute) ==
    LET newDown == down[dir] + len
        pays    == \/ TraffType \in {"down", "up+down"}
                   \/ TraffType = "max" /\ up[dir] <= newDown
    IN  /\ connected /\ ~hard
        /\ metered + len <= MaxBytes
        /\ Account(IF pays THEN ChunkPrice(dir, up[dir], down[dir], up[dir], newDown, len, minute)
                   ELSE 0, len)
        /\ down' = [down EXCEPT ![dir] = newDown]
        /\ sessDown' = [sessDown EXCEPT ![dir] = @ + len]
        /\ UNCHANGED <<connected, up, sessUp>>

\* Connect and Disconnect, as far as they matter here: a disconnection
\* resets the session counters.
Reconnect ==
    /\ connected' = ~connected
    /\ IF connected
         THEN /\ sessUp' = [d \in Dirs |-> 0]
              /\ sessDown' = [d \in Dirs |-> 0]
         ELSE UNCHANGED <<sessUp, sessDown>>
    /\ UNCHANGED <<up, down, ledger, detail>>

\* The prepaid traffic that comes with a fee replaces what was left of it.
SetPrepaidTraff ==
    /\ freeMb' = Free
    /\ base' = Free /\ spent' = 0
    /\ UNCHANGED <<connected, traffic, cash, metered, charged, detail>>

\* An administrator's request ends by setting the counters of the month, one
\* direction to what was asked for and the others to what a copy taken
\* earlier says, so any value may come out.
SetTraff ==
    /\ \E counters \in [Dirs -> SetValues] :
           \/ up' = counters /\ UNCHANGED down
           \/ down' = counters /\ UNCHANGED up
    /\ UNCHANGED <<connected, sessUp, sessDown, ledger, detail>>

-----------------------------------------------------------------------------
(***************************************************************************)
(* WriteDetailStat(h).  Step 1 retries what the store refused before and   *)
(* gives up if it refuses again; step 2 swaps the statistics out under     *)
(* m_mutex; step 3 writes them, keeping them for a retry if the store      *)
(* fails - unless the write is a hard one.                                 *)
(***************************************************************************)
WriteSaved(h) ==
    /\ writer = "idle" /\ ~hard
    /\ hard' = h
    /\ \/ /\ saved.bytes = 0
          /\ writer' = "swap"
          /\ UNCHANGED <<saved, stored>>
       \/ /\ saved.bytes > 0               \* the store accepts
          /\ stored' = Plus(stored, saved)
          /\ saved' = NoStat
          /\ writer' = "swap"
       \/ /\ saved.bytes > 0               \* the store refuses
          /\ UNCHANGED <<saved, stored, writer>>
    /\ UNCHANGED <<connected, traffic, ledger, traffStat, ts>>

SwapOut ==
    /\ writer = "swap"
    /\ ts' = traffStat
    /\ traffStat' = NoStat
    /\ writer' = "write"
    /\ UNCHANGED <<connected, traffic, ledger, saved, stored, hard>>

\* Mutant: refused statistics are not kept.
WriteCurrentForgets ==
    /\ writer = "write"
    /\ stored' \in {stored, Plus(stored, ts)}
    /\ ts' = NoStat
    /\ writer' = "idle"
    /\ UNCHANGED <<connected, traffic, ledger, traffStat, saved, hard>>

WriteCurrent ==
    /\ writer = "write"
    /\ \/ /\ ts.bytes = 0 \/ DisabledDetailStat
          /\ UNCHANGED <<saved, stored>>
       \/ /\ ts.bytes > 0 /\ ~DisabledDetailStat
          /\ stored' = Plus(stored, ts)    \* the store accepts
          /\ UNCHANGED saved
       \/ /\ ts.bytes > 0 /\ ~DisabledDetailStat
          /\ saved' = IF hard THEN saved ELSE ts
          /\ UNCHANGED stored              \* the store refuses
    /\ ts' = NoStat
    /\ writer' = "idle"
    /\ UNCHANGED <<connected, traffic, ledger, traffStat, hard>>

-----------------------------------------------------------------------------
Init ==
    /\ connected = FALSE
    /\ up = [d \in Dirs |-> 0] /\ down = up
    /\ sessUp = up /\ sessDown = up
    /\ cash = 0 /\ freeMb = Free
    /\ traffStat = NoStat /\ saved = NoStat /\ ts = NoStat /\ stored = NoStat
    /\ writer = "idle" /\ hard = FALSE
    /\ metered = 0 /\ charged = 0 /\ spent = 0 /\ base = Free

Next ==
    \/ \E dir \in Dirs, len \in Lens, m \in Minutes :
           AddTraffStatU(dir, len, m) \/ AddTraffStatD(dir, len, m)
    \/ Reconnect \/ SetPrepaidTraff \/ SetTraff
    \/ \E h \in BOOLEAN : WriteSaved(h)
    \/ SwapOut \/ WriteCurrent

Spec == Init /\ [][Next]_vars
-----------------------------------------------------------------------------
\* The variables hold values of their types.
TypeOK ==
    /\ connected \in BOOLEAN /\ hard \in BOOLEAN
    /\ {up, down, sessUp, sessDown} \subseteq [Dirs -> Nat]
    /\ {cash, freeMb, charged, spent, base} \subseteq Int /\ metered \in Nat
    /\ {traffStat, saved, ts, stored} \subseteq StatNode
    /\ writer \in {"idle", "swap", "write"}

Debt(x) == IF x < 0 THEN -x ELSE 0

\* Traffic is paid from the prepaid amount first and from cash only beyond it:
\* whatever the sizes and the order of the chunks, cash has paid exactly the
\* part of their price that freeMb no longer covered (AddTraffStatU/D, 738).
PrepaidFirst == spent = Debt(freeMb) - Debt(base)

\* The detailed statistics lose and repeat nothing while the server runs:
\* what is accumulated, being written, waiting for a retry and in the store
\* adds up to the traffic accounted, however often the store fails and
\* however chunks fall between the steps of WriteDetailStat.
DetailComplete ==
    ~hard /\ ~DisabledDetailStat =>
        traffStat.bytes + ts.bytes + saved.bytes + stored.bytes = metered

\* The costs in the detailed statistics, wherever they are on their way to the
\* store, are exactly the cash that traffic took from the account.
DetailIsCash ==
    ~hard /\ ~DisabledDetailStat =>
        traffStat.cost + ts.cost + saved.cost + stored.cost + cash = 0

\* A session counter holds traffic of a current session only, and only
\* traffic that was accounted: it never survives a disconnection, and no
\* counter exceeds the total that the ledgers have seen.
SessionIsMetered ==
    \A d \in Dirs : /\ sessUp[d] + sessDown[d] <= metered
                    /\ ~connected => sessUp[d] = 0 /\ sessDown[d] = 0

\* The account, the statistics of the month and of the session and the
\* detailed statistics agree at every moment.
BooksAgree == PrepaidFirst /\ DetailComplete /\ DetailIsCash /\ SessionIsMetered

Rates ==
    UNION {{Prices[d].priceDayA, Prices[d].priceDayB, Prices[d].priceNightA, Prices[d].priceNightB} :
             d \in Dirs}

\* Every byte of an up+down tariff is charged once, at one of the tariff's
\* prices, however chunks fall across the threshold, day and night
\* (AddTraffStatU and AddTraffStatD, user_impl.cpp:706-736, 799-829).
ChargedOnce ==
    TraffType = "up+down" =>
      /\ \A lo \in Rates : (\A r \in Rates : lo <= r) => lo * metered <= charged
      /\ \A hi \in Rates : (\A r \in Rates : r <= hi) => charged <= hi * metered
=============================================================================
