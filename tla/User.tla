-------------------------------- MODULE User --------------------------------
(***************************************************************************)
(* One subscriber: UserImpl (projects/stargazer/user_impl.cpp) as a state  *)
(* machine over authorisation, connection and the properties that decide   *)
(* whether the subscriber may use the network.                             *)
(*                                                                         *)
(* Threads: authorisers call Authorize and Unauthorize, the users thread   *)
(* calls Run, MidnightResetSessionStat and ProcessNewMonth, configuration  *)
(* threads Set properties and run the callbacks UserImpl registered in     *)
(* Init.  Every method that takes UserImpl::m_mutex is one step; Set is    *)
(* two steps where the callback runs after the value has been assigned.    *)
(*                                                                         *)
(* m_mutex is a std::mutex: a thread that locks it while it holds it never *)
(* returns, and neither does any later caller.  That outcome is `wedged'.  *)
(* Money is counted in whole units; traffic and fees, which only move cash *)
(* and freeMb here, are modelled in Billing and Fees.                      *)
(***************************************************************************)
EXTENDS Integers, FiniteSets

CONSTANTS
    Auths,          \* authoriser plugins (const Auth *)
    Addrs,          \* IP addresses, without 0.0.0.0
    NoAddr,         \* the address 0
    IPSets,         \* values of the ips property: sets of addresses
    Dirs,           \* values of enabledDirs
    Tariffs,        \* tariffs known to the server
    Fee,            \* GetFee() of a tariff
    PassiveCost,    \* GetPassiveCost() of a tariff
    Amounts,        \* values of cash and freeMb (bound)
    Credits,        \* values of credit (bound)
    FreeMbAllowInet, ShowFeeInCash, ReconnectOnTariffChange,
    DisableSessionLog

ASSUME UserConstants ==
    /\ NoAddr \notin Addrs
    /\ IPSets \subseteq SUBSET Addrs
    /\ Fee \in [Tariffs -> Int] /\ PassiveCost \in [Tariffs -> Int]
    /\ Amounts \subseteq Int /\ Credits \subseteq Int /\ 0 \in Credits
    /\ {FreeMbAllowInet, ShowFeeInCash, ReconnectOnTariffChange,
        DisableSessionLog} \subseteq BOOLEAN

VARIABLES
    authorizedBy,   \* authorisers that let the user in
    currIP,         \* m_currIP
    enabledDirs,
    sess,           \* the connection: see SessionType
    disabled, passive, tariff, ips, cash, freeMb, credit,
    creditExpire,   \* "never" (0), "later" or "past" relative to stgTime
    statDue,        \* stgTime > lastWriteStat + StatWritePeriod
    disabledCB,     \* "none", or the after-change callback of disabled that
                    \* is about to run: "on" (0 to 1) or "off" (1 to 0)
    ipsCB,          \* the after-change callback of ips is about to run
    wedged          \* m_mutex is held for ever

access == <<authorizedBy, currIP, enabledDirs>>
money  == <<cash, freeMb>>
conf   == <<disabled, passive, tariff, ips>>
loan   == <<credit, creditExpire>>
sets   == <<disabledCB, ipsCB>>
vars   == <<access, sess, conf, money, loan, statDue, sets, wedged>>

-----------------------------------------------------------------------------
(***************************************************************************)
(* The connection.  granted holds the addresses for which OnConnect has    *)
(* been run and OnDisconnect has not; open is the number of connect        *)
(* records in the session log that no disconnect record follows.           *)
(***************************************************************************)
SessionType == [connected : BOOLEAN, lastIP : Addrs \cup {NoAddr},
                granted : SUBSET (Addrs \cup {NoAddr}), open : Int]

Logged(n) == IF DisableSessionLog THEN 0 ELSE n

\* A fake connection only writes the log record.
Connect(s, fake) ==
    IF fake THEN [s EXCEPT !.open = @ + Logged(1)]
    ELSE [connected |-> TRUE, lastIP |-> currIP,
          granted |-> s.granted \cup {currIP}, open |-> s.open + Logged(1)]

\* Mutant: the OnDisconnect script is not run.
DisconnectSilent(s, fake) ==
    IF s.lastIP = NoAddr THEN s
    ELSE IF fake THEN [s EXCEPT !.open = @ - Logged(1)]
    ELSE [connected |-> FALSE, lastIP |-> NoAddr,
          granted |-> s.granted, open |-> s.open - Logged(1)]

Disconnect(s, fake) ==
    IF s.lastIP = NoAddr THEN s
    ELSE IF fake THEN [s EXCEPT !.open = @ - Logged(1)]
    ELSE [connected |-> FALSE, lastIP |-> NoAddr,
          granted |-> s.granted \ {s.lastIP}, open |-> s.open - Logged(1)]

IsInetableOn(t) ==
    /\ ~disabled /\ ~passive
    /\ \/ FreeMbAllowInet /\ freeMb >= 0
       \/ cash - (IF ShowFeeInCash THEN 0 ELSE Fee[t]) >= -credit

IsInetable == IsInetableOn(tariff)

-----------------------------------------------------------------------------
Init ==
    /\ authorizedBy = {} /\ currIP = NoAddr /\ enabledDirs \in Dirs
    /\ sess = [connected |-> FALSE, lastIP |-> NoAddr, granted |-> {}, open |-> 0]
    /\ disabled \in BOOLEAN /\ passive \in BOOLEAN
    /\ tariff \in Tariffs /\ ips \in IPSets
    /\ cash \in Amounts /\ freeMb \in Amounts /\ credit \in Credits
    /\ creditExpire \in {"never", "later"}
    /\ statDue = FALSE
    /\ disabledCB = "none" /\ ipsCB = FALSE
    /\ wedged = FALSE

\* Mutant: the check that a second authoriser names the same address is lost.
AuthorizeMovesAddress(ip, dirs, auth, inIndex) ==
    /\ ~wedged
    /\ auth \notin authorizedBy
    /\ enabledDirs' = dirs
    /\ IF inIndex = "free" /\ ip \in ips
         THEN /\ authorizedBy' = authorizedBy \cup {auth}
              /\ currIP' = ip
              /\ sess' = [sess EXCEPT !.lastIP = ip]
         ELSE UNCHANGED <<authorizedBy, currIP, sess>>
    /\ UNCHANGED <<conf, money, loan, statDue, sets, wedged>>

(***************************************************************************)
(* Authorize(ip, dirs, auth).  inIndex is what the registry answers about  *)
(* the address: in no user's possession, this user's, or another's.        *)
(***************************************************************************)
Authorize(ip, dirs, auth, inIndex) ==
    /\ ~wedged
    /\ auth \notin authorizedBy
    /\ enabledDirs' = dirs
    /\ IF authorizedBy # {}
         THEN /\ authorizedBy' = IF currIP = ip /\ inIndex # "other"
                                   THEN authorizedBy \cup {auth} ELSE authorizedBy
              /\ UNCHANGED <<currIP, sess>>
         ELSE IF inIndex = "free" /\ ip \in ips
         THEN /\ authorizedBy' = {auth}
              /\ currIP' = ip
              /\ sess' = [sess EXCEPT !.lastIP = ip]
         ELSE UNCHANGED <<authorizedBy, currIP, sess>>
    /\ UNCHANGED <<conf, money, loan, statDue, sets, wedged>>

Unauthorize(auth) ==
    /\ ~wedged
    /\ auth \in authorizedBy
    /\ authorizedBy' = authorizedBy \ {auth}
    /\ IF authorizedBy' # {}
         THEN UNCHANGED <<currIP, sess>>
         ELSE LET s == [sess EXCEPT !.lastIP = currIP]
              IN  /\ currIP' = NoAddr
                  /\ sess' = IF s.connected THEN Disconnect(s, FALSE) ELSE s
    /\ UNCHANGED <<enabledDirs, conf, money, loan, statDue, sets, wedged>>

-----------------------------------------------------------------------------
(***************************************************************************)
(* Run, called for every user on each pass of the users thread.  It holds  *)
(* m_mutex, so the pass on which WriteStat or WriteConf is called is the   *)
(* last one.                                                               *)
(***************************************************************************)
RunWritesStat ==
    /\ ~wedged
    /\ statDue
    /\ wedged' = TRUE
    /\ UNCHANGED <<access, sess, conf, money, loan, statDue, sets>>

RunExpiresCredit ==
    /\ ~wedged
    /\ ~statDue /\ creditExpire = "past"
    /\ credit' = 0 /\ creditExpire' = "never"
    /\ wedged' = TRUE
    /\ UNCHANGED <<access, sess, conf, money, statDue, sets>>

\* Mutant: nobody is disconnected by the users thread.
RunSessionConnectOnly ==
    /\ ~wedged
    /\ ~statDue /\ creditExpire # "past"
    /\ sess' = IF authorizedBy # {} /\ ~sess.connected /\ IsInetable
                 THEN Connect(sess, FALSE) ELSE sess
    /\ UNCHANGED <<access, conf, money, loan, statDue, sets, wedged>>

RunSession ==
    /\ ~wedged
    /\ ~statDue /\ creditExpire # "past"
    /\ sess' = IF authorizedBy # {}
                 THEN IF ~sess.connected /\ IsInetable THEN Connect(sess, FALSE)
                      ELSE IF sess.connected /\ ~IsInetable THEN Disconnect(sess, FALSE)
                      ELSE sess
               ELSE IF sess.connected THEN Disconnect(sess, FALSE) ELSE sess
    /\ UNCHANGED <<access, conf, money, loan, statDue, sets, wedged>>

Run == RunWritesStat \/ RunExpiresCredit \/ RunSession

(***************************************************************************)
(* The other users-thread operations.  ProcessNewMonth calls WriteMonthStat*)
(* and OnDelete calls Run with m_mutex held; neither returns.              *)
(***************************************************************************)
MidnightReset ==
    /\ ~wedged
    /\ sess' = IF sess.connected THEN Connect(Disconnect(sess, TRUE), TRUE) ELSE sess
    /\ UNCHANGED <<access, conf, money, loan, statDue, sets, wedged>>

ProcessNewMonth ==
    /\ ~wedged
    /\ sess' = IF sess.connected THEN Disconnect(sess, TRUE) ELSE sess
    /\ wedged' = TRUE
    /\ UNCHANGED <<access, conf, money, loan, statDue, sets>>

OnDelete ==
    /\ ~wedged
    /\ wedged' = TRUE
    /\ UNCHANGED <<access, sess, conf, money, loan, statDue, sets>>

-----------------------------------------------------------------------------
(***************************************************************************)
(* Configuration threads.  A Set of the value the property already has     *)
(* changes nothing and is left out.                                        *)
(***************************************************************************)
SetDisabled(v) ==
    /\ disabledCB = "none" /\ disabled # v
    /\ disabled' = v
    /\ disabledCB' = IF v THEN "on" ELSE "off"
    /\ UNCHANGED <<access, sess, passive, tariff, ips, money, loan, statDue, ipsCB, wedged>>

onDisabledChange ==
    /\ ~wedged
    /\ disabledCB # "none"
    /\ sess' = IF disabledCB = "off" /\ sess.connected THEN Disconnect(sess, FALSE)
               ELSE IF disabledCB = "on" /\ IsInetable THEN Connect(sess, FALSE)
               ELSE sess
    /\ disabledCB' = "none"
    /\ UNCHANGED <<access, conf, money, loan, statDue, ipsCB, wedged>>

SetIPs(s) ==
    /\ ~ipsCB /\ ips # s
    /\ ips' = s
    /\ ipsCB' = TRUE
    /\ UNCHANGED <<access, sess, disabled, passive, tariff, money, loan, statDue, disabledCB, wedged>>

onIPChange ==
    /\ ~wedged
    /\ ipsCB
    /\ LET s == IF sess.connected THEN Disconnect(sess, FALSE) ELSE sess
       IN  sess' = IF authorizedBy # {} /\ IsInetable THEN Connect(s, FALSE) ELSE s
    /\ ipsCB' = FALSE
    /\ UNCHANGED <<access, conf, money, loan, statDue, disabledCB, wedged>>

\* onPassiveChange runs before the value is assigned, under m_mutex.
SetPassive(v) ==
    /\ ~wedged
    /\ passive # v
    /\ passive' = v
    /\ cash' = IF v THEN cash - PassiveCost[tariff] ELSE cash
    /\ cash' \in Amounts
    /\ UNCHANGED <<access, sess, disabled, tariff, ips, freeMb, loan, statDue, sets, wedged>>

\* onTariffChange: IsInetable is asked after the tariff has been replaced.
SetTariff(t) ==
    /\ ~wedged
    /\ tariff # t
    /\ tariff' = t
    /\ LET s == IF ReconnectOnTariffChange /\ sess.connected
                  THEN Disconnect(sess, FALSE) ELSE sess
       IN  sess' = IF ReconnectOnTariffChange /\ authorizedBy # {} /\ IsInetableOn(t)
                     THEN Connect(s, FALSE) ELSE s
    /\ UNCHANGED <<access, disabled, passive, ips, money, loan, statDue, sets, wedged>>

\* cash.Set, freeMb.Set, credit.Set: none of their callbacks takes m_mutex.
SetMoney(c, f) ==
    /\ cash' = c /\ freeMb' = f
    /\ UNCHANGED <<access, sess, conf, loan, statDue, sets, wedged>>

SetCredit(c, e) ==
    /\ credit' = c /\ creditExpire' = e
    /\ UNCHANGED <<access, sess, conf, money, statDue, sets, wedged>>

\* WriteStat called from a configuration thread; the store may fail.
WriteStat ==
    /\ ~wedged
    /\ statDue' \in {statDue, FALSE}
    /\ UNCHANGED <<access, sess, conf, money, loan, sets, wedged>>

\* stgTime passes the next write of the statistics, or the end of the credit.
TimePasses ==
    /\ \/ ~statDue /\ statDue' = TRUE /\ UNCHANGED creditExpire
       \/ creditExpire = "later" /\ creditExpire' = "past" /\ UNCHANGED statDue
    /\ UNCHANGED <<access, sess, conf, money, credit, sets, wedged>>

-----------------------------------------------------------------------------
Authorizer ==
    \E auth \in Auths :
        \/ \E ip \in Addrs, d \in Dirs, i \in {"free", "own", "other"} :
               Authorize(ip, d, auth, i)
        \/ Unauthorize(auth)

UsersThread == Run \/ MidnightReset \/ ProcessNewMonth \/ OnDelete

Configurator ==
    \/ \E v \in BOOLEAN : SetDisabled(v) \/ SetPassive(v)
    \/ onDisabledChange \/ onIPChange \/ WriteStat
    \/ \E s \in IPSets : SetIPs(s)
    \/ \E t \in Tariffs : SetTariff(t)
    \/ \E c \in Amounts, f \in Amounts : SetMoney(c, f)
    \/ \E c \in Credits, e \in {"never", "later"} : SetCredit(c, e)

Next == Authorizer \/ UsersThread \/ Configurator \/ TimePasses

Spec == Init /\ [][Next]_vars

\* UsersImpl::Run calls UserImpl::Run for every user about every 100 ms.
FairSpec == Spec /\ WF_vars(Run)
-----------------------------------------------------------------------------
\* The variables hold values of their types.
TypeOK ==
    /\ authorizedBy \in SUBSET Auths
    /\ currIP \in Addrs \cup {NoAddr}
    /\ enabledDirs \in Dirs
    /\ sess \in SessionType
    /\ disabled \in BOOLEAN /\ passive \in BOOLEAN
    /\ tariff \in Tariffs /\ ips \in IPSets
    /\ cash \in Amounts /\ freeMb \in Amounts /\ credit \in Credits
    /\ creditExpire \in {"never", "later", "past"}
    /\ statDue \in BOOLEAN /\ wedged \in BOOLEAN /\ ipsCB \in BOOLEAN
    /\ disabledCB \in {"none", "on", "off"}

\* A connected user is authorised, and the address Disconnect will close is
\* the one the user is working from; a user has an address exactly while
\* some authoriser vouches for it (Authorize, Unauthorize, Run).
SessionInv ==
    /\ authorizedBy = {} <=> currIP = NoAddr
    /\ sess.connected => authorizedBy # {} /\ sess.lastIP = currIP

\* Every address opened by OnConnect is closed by OnDisconnect, for the same
\* address: access is granted exactly to the current address of a connected
\* user, whatever order authorisers, users thread and callbacks come in.
GrantInv == sess.granted = IF sess.connected THEN {currIP} ELSE {}

\* The session log of a user alternates connect and disconnect records: one
\* connect is open while the user is connected, none otherwise.  A new month
\* breaks it off (ProcessNewMonth stops between the two fake records).
LogInv == ~wedged => sess.open = (IF sess.connected THEN Logged(1) ELSE 0)

\* The session is what the network and the log make of it: SessionInv,
\* GrantInv and LogInv together (user_impl.cpp:388-700).
SessionSafe == SessionInv /\ GrantInv /\ LogInv

\* While the user stays authorised its address does not change: an authoriser
\* that joins later cannot move the session elsewhere (Authorize, line 394).
AddressStable ==
    [][authorizedBy # {} /\ authorizedBy' # {} => currIP' = currIP]_vars

\* An authorised user that may use the network from some time on ends up
\* connected for good, unless the users thread wedges in m_mutex first.
StaysConnected ==
    <>[](authorizedBy # {} /\ IsInetable) => <>wedged \/ <>[](sess.connected)

\* A user that from some time on may not use the network (disabled, frozen,
\* no cash) ends up cut off, unless the users thread wedges first.
CutOff == <>[](~IsInetable) => <>wedged \/ <>[](~sess.connected)

\* The connection follows the access: StaysConnected and CutOff together
\* (UserImpl::Run, user_impl.cpp).
FollowsAccess == StaysConnected /\ CutOff
=============================================================================
