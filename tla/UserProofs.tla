----------------------------- MODULE UserProofs -----------------------------
(***************************************************************************)
(* Proofs about User, for any authorisers, addresses, tariffs and settings.*)
(***************************************************************************)
EXTENDS User, TLAPS

\* The inductive invariant.  GrantInv and LogInv are not inductive alone:
\* that Disconnect closes what Connect opened rests on SessionInv, which ties
\* lastIPForDisconnect to the current address of a connected user.  PendingInv
\* says what the callback of `disabled' will find: the property cannot change
\* again before it has run, so its Connect branch is dead code.
PendingInv ==
    /\ disabledCB = "on" => disabled
    /\ disabledCB = "off" => ~disabled

IInv == TypeOK /\ SessionInv /\ GrantInv /\ LogInv /\ PendingInv

\* The two shapes of a session between steps.
Closed(s) ==
    s \in SessionType /\ ~s.connected /\ s.granted = {} /\ s.open = 0
Opened(s, ip) ==
    /\ s \in SessionType /\ s.connected /\ s.granted = {ip}
    /\ s.open = Logged(1) /\ s.lastIP = ip

USE UserConstants

\* Connect(false) opens exactly the current address and one log record.
LEMMA ConnectLemma ==
    ASSUME NEW s \in SessionType, currIP \in Addrs \cup {NoAddr}
    PROVE  /\ Connect(s, FALSE) \in SessionType
           /\ Connect(s, FALSE).connected
           /\ Connect(s, FALSE).open = s.open + Logged(1)
           /\ Connect(s, FALSE).granted = s.granted \cup {currIP}
           /\ Connect(s, FALSE).lastIP = currIP
BY DEF Connect, SessionType, Logged

\* Connect(true) writes one log record and leaves the connection alone.
LEMMA FakeConnectLemma ==
    ASSUME NEW s \in SessionType
    PROVE  /\ Connect(s, TRUE) \in SessionType
           /\ Connect(s, TRUE).connected = s.connected
           /\ Connect(s, TRUE).open = s.open + Logged(1)
           /\ Connect(s, TRUE).granted = s.granted
           /\ Connect(s, TRUE).lastIP = s.lastIP
BY DEF Connect, SessionType, Logged

\* Disconnect(false) closes the remembered address and one log record.
LEMMA DisconnectLemma ==
    ASSUME NEW s \in SessionType, s.lastIP # NoAddr
    PROVE  /\ Disconnect(s, FALSE) \in SessionType
           /\ ~Disconnect(s, FALSE).connected
           /\ Disconnect(s, FALSE).open = s.open - Logged(1)
           /\ Disconnect(s, FALSE).granted = s.granted \ {s.lastIP}
           /\ Disconnect(s, FALSE).lastIP = NoAddr
BY DEF Disconnect, SessionType, Logged

\* Disconnect(true) closes one log record and leaves the connection alone.
LEMMA FakeDisconnectLemma ==
    ASSUME NEW s \in SessionType, s.lastIP # NoAddr
    PROVE  /\ Disconnect(s, TRUE) \in SessionType
           /\ Disconnect(s, TRUE).connected = s.connected
           /\ Disconnect(s, TRUE).open = s.open - Logged(1)
           /\ Disconnect(s, TRUE).granted = s.granted
           /\ Disconnect(s, TRUE).lastIP = s.lastIP
BY DEF Disconnect, SessionType, Logged

\* Connecting a closed session opens it.
LEMMA OpenLemma ==
    ASSUME NEW s, Closed(s), currIP \in Addrs \cup {NoAddr}
    PROVE  Opened(Connect(s, FALSE), currIP)
<1>1. s \in SessionType
  BY DEF Closed
<1>2. s.open + Logged(1) = Logged(1)
  BY DEF Closed, Logged
<1> QED
  BY <1>1, <1>2, ConnectLemma DEF Closed, Opened

\* Disconnecting an open session closes it.
LEMMA CloseLemma ==
    ASSUME NEW s, NEW ip, Opened(s, ip), ip # NoAddr
    PROVE  Closed(Disconnect(s, FALSE))
<1>1. s \in SessionType /\ s.lastIP # NoAddr
  BY DEF Opened
<1>2. Logged(1) - Logged(1) = 0
  BY DEF Logged
<1> QED
  BY <1>1, <1>2, DisconnectLemma DEF Closed, Opened

\* In a state of the invariant the session has one of the two shapes.
LEMMA ShapeLemma ==
    ASSUME IInv, ~wedged
    PROVE  /\ sess.connected => Opened(sess, currIP) /\ authorizedBy # {} /\ currIP # NoAddr
           /\ ~sess.connected => Closed(sess)
BY DEF IInv, TypeOK, SessionInv, GrantInv, LogInv, Opened, Closed

\* Either shape, with the authorisation state it needs, restores the
\* invariants of the session in the next state.
LEMMA RestoreLemma ==
    ASSUME TypeOK', PendingInv',
           (authorizedBy' = {}) <=> (currIP' = NoAddr),
           Closed(sess') \/ (Opened(sess', currIP') /\ authorizedBy' # {})
    PROVE  IInv'
<1>1. SessionInv' /\ GrantInv'
  BY DEF SessionInv, GrantInv, Opened, Closed
<1>2. LogInv'
  BY DEF LogInv, Opened, Closed, Logged
<1> QED
  BY <1>1, <1>2 DEF IInv

\* Every step of every thread preserves the inductive invariant.
LEMMA Inductive == IInv /\ [Next]_vars => IInv'
<1> SUFFICES ASSUME IInv, [Next]_vars
             PROVE  IInv'
  OBVIOUS
<1>t. TypeOK /\ SessionInv /\ GrantInv /\ LogInv /\ PendingInv
  BY DEF IInv
<1>s. ~wedged => /\ sess.connected => /\ Opened(sess, currIP)
                                      /\ authorizedBy # {} /\ currIP # NoAddr
                 /\ ~sess.connected => Closed(sess)
  BY ShapeLemma
<1>0. (authorizedBy = {}) <=> (currIP = NoAddr)
  BY <1>t DEF SessionInv
<1>i. currIP \in Addrs \cup {NoAddr}
  BY <1>t DEF TypeOK
<1> USE DEF access, money, conf, loan, sets
<1>1. CASE UNCHANGED vars
  BY <1>1, <1>t DEF vars, IInv, TypeOK, SessionInv, GrantInv, LogInv, PendingInv, SessionType
<1>2. ASSUME NEW auth \in Auths, NEW ip \in Addrs, NEW d \in Dirs,
             NEW ix \in {"free", "own", "other"}, Authorize(ip, d, auth, ix)
      PROVE  IInv'
  <2>1. CASE authorizedBy # {}
    <3>1. /\ UNCHANGED <<currIP, sess>> /\ authorizedBy' # {}
          /\ authorizedBy' \in SUBSET Auths
      BY <1>2, <2>1, <1>t DEF Authorize, TypeOK
    <3>2. TypeOK' /\ PendingInv'
      BY <1>2, <3>1, <1>t DEF Authorize, TypeOK, PendingInv
    <3> QED
      BY <1>2, <2>1, <3>1, <3>2, <1>0, <1>s, RestoreLemma DEF Authorize
  <2>2. CASE authorizedBy = {} /\ ix = "free" /\ ip \in ips
    <3>1. ~sess.connected /\ Closed(sess)
      BY <1>2, <2>2, <1>s DEF Authorize
    <3>2. Closed(sess')
      BY <1>2, <2>2, <3>1 DEF Authorize, Closed, SessionType
    <3>3. TypeOK' /\ PendingInv'
      BY <1>2, <2>2, <3>2, <1>t DEF Authorize, TypeOK, PendingInv, Closed
    <3>4. (authorizedBy' = {}) <=> (currIP' = NoAddr)
      BY <1>2, <2>2 DEF Authorize
    <3> QED
      BY <3>2, <3>3, <3>4, RestoreLemma
  <2>3. CASE authorizedBy = {} /\ ~(ix = "free" /\ ip \in ips)
    <3>1. UNCHANGED <<authorizedBy, currIP, sess>>
      BY <1>2, <2>3 DEF Authorize
    <3>2. TypeOK' /\ PendingInv'
      BY <1>2, <3>1, <1>t DEF Authorize, TypeOK, PendingInv
    <3> QED
      BY <1>2, <2>3, <3>1, <3>2, <1>0, <1>s, RestoreLemma DEF Authorize
  <2> QED
    BY <2>1, <2>2, <2>3
<1>3. ASSUME NEW auth \in Auths, Unauthorize(auth)
      PROVE  IInv'
  <2>1. CASE authorizedBy' # {}
    <3>1. UNCHANGED <<currIP, sess>> /\ authorizedBy # {}
      BY <1>3, <2>1 DEF Unauthorize
    <3>2. TypeOK' /\ PendingInv'
      BY <1>3, <3>1, <1>t DEF Unauthorize, TypeOK, PendingInv
    <3> QED
      BY <1>3, <2>1, <3>1, <3>2, <1>0, <1>s, RestoreLemma DEF Unauthorize
  <2>2. CASE authorizedBy' = {}
    <3> DEFINE s == [sess EXCEPT !.lastIP = currIP]
    <3>1. /\ currIP' = NoAddr /\ currIP # NoAddr /\ ~wedged
          /\ sess' = IF s.connected THEN Disconnect(s, FALSE) ELSE s
      BY <1>3, <2>2, <1>0 DEF Unauthorize
    <3>2. sess \in SessionType
      BY <1>t DEF TypeOK
    <3>3. Closed(sess')
      <4>1. CASE sess.connected
        <5>1. Opened(s, currIP) /\ s.connected
          BY <3>1, <3>2, <4>1, <1>s, <1>i DEF Opened, SessionType
        <5> HIDE DEF s
        <5> QED
          BY <3>1, <5>1, CloseLemma
      <4>2. CASE ~sess.connected
        <5>1. Closed(s) /\ ~s.connected
          BY <3>1, <3>2, <4>2, <1>s, <1>i DEF Closed, SessionType
        <5> HIDE DEF s
        <5> QED
          BY <3>1, <5>1
      <4> QED
        BY <4>1, <4>2
    <3>4. TypeOK' /\ PendingInv'
      BY <1>3, <3>1, <3>3, <1>t DEF Unauthorize, TypeOK, PendingInv, Closed
    <3> QED
      BY <2>2, <3>1, <3>3, <3>4, RestoreLemma
  <2> QED
    BY <2>1, <2>2
<1>4. CASE RunWritesStat
  BY <1>4, <1>t DEF RunWritesStat, IInv, TypeOK, SessionInv, GrantInv, LogInv, PendingInv
<1>5. CASE RunExpiresCredit
  BY <1>5, <1>t DEF RunExpiresCredit, IInv, TypeOK, SessionInv, GrantInv, LogInv, PendingInv
<1>6. CASE RunSession
  <2>1. /\ Closed(sess') \/ (Opened(sess', currIP) /\ authorizedBy # {})
    <3>1. CASE authorizedBy # {} /\ ~sess.connected /\ IsInetable
      BY <1>6, <3>1, <1>s, <1>i, OpenLemma DEF RunSession
    <3>2. CASE sess.connected /\ ~IsInetable
      BY <1>6, <3>2, <1>s, CloseLemma DEF RunSession
    <3>3. CASE ~(authorizedBy # {} /\ ~sess.connected /\ IsInetable)
               /\ ~(sess.connected /\ ~IsInetable)
      <4>1. sess' = sess
        BY <1>6, <3>3, <1>s DEF RunSession
      <4> QED
        BY <1>6, <4>1, <1>s DEF RunSession
    <3> QED
      BY <3>1, <3>2, <3>3
  <2>2. TypeOK' /\ PendingInv'
    BY <1>6, <2>1, <1>t DEF RunSession, TypeOK, PendingInv, Closed, Opened
  <2> QED
    BY <1>6, <1>0, <2>1, <2>2, RestoreLemma DEF RunSession
<1>7. CASE MidnightReset
  <2>1. Closed(sess') \/ (Opened(sess', currIP) /\ authorizedBy # {})
    <3>1. CASE ~sess.connected
      BY <1>7, <3>1, <1>s DEF MidnightReset
    <3>2. CASE sess.connected
      <4> DEFINE d == Disconnect(sess, TRUE)
      <4>1. Opened(sess, currIP) /\ currIP # NoAddr /\ authorizedBy # {}
        BY <1>7, <3>2, <1>s DEF MidnightReset
      <4>a. Logged(1) - Logged(1) = 0
        BY DEF Logged
      <4>2. /\ d \in SessionType /\ d.connected /\ d.granted = {currIP}
            /\ d.open = 0 /\ d.lastIP = currIP
        BY <4>1, <4>a, FakeDisconnectLemma DEF Opened
      <4>3. sess' = Connect(d, TRUE)
        BY <1>7, <3>2 DEF MidnightReset
      <4> HIDE DEF d
      <4>4. 0 + Logged(1) = Logged(1)
        BY DEF Logged
      <4> QED
        BY <4>1, <4>2, <4>3, <4>4, FakeConnectLemma DEF Opened
    <3> QED
      BY <3>1, <3>2
  <2>2. TypeOK' /\ PendingInv'
    BY <1>7, <2>1, <1>t DEF MidnightReset, TypeOK, PendingInv, Closed, Opened
  <2> QED
    BY <1>7, <1>0, <2>1, <2>2, RestoreLemma DEF MidnightReset
<1>8. CASE ProcessNewMonth
  <2>1. /\ sess' \in SessionType /\ sess'.connected = sess.connected
        /\ sess'.granted = sess.granted /\ sess'.lastIP = sess.lastIP
    <3>1. CASE ~sess.connected
      BY <1>8, <3>1, <1>t DEF ProcessNewMonth, TypeOK
    <3>2. CASE sess.connected
      BY <1>8, <3>2, <1>s, FakeDisconnectLemma DEF ProcessNewMonth, Opened
    <3> QED
      BY <3>1, <3>2
  <2>2. TypeOK' /\ PendingInv' /\ LogInv'
    BY <1>8, <2>1, <1>t DEF ProcessNewMonth, TypeOK, PendingInv, LogInv
  <2>3. SessionInv' /\ GrantInv'
    BY <1>8, <2>1, <1>t DEF ProcessNewMonth, SessionInv, GrantInv
  <2> QED
    BY <2>2, <2>3 DEF IInv
<1>9. CASE OnDelete
  BY <1>9, <1>t DEF OnDelete, IInv, TypeOK, SessionInv, GrantInv, LogInv, PendingInv
<1>10. ASSUME NEW v \in BOOLEAN, SetDisabled(v)
       PROVE  IInv'
  BY <1>10, <1>t DEF SetDisabled, IInv, TypeOK, SessionInv, GrantInv, LogInv, PendingInv
<1>11. CASE onDisabledChange
  <2>1. ~(disabledCB = "on" /\ IsInetable)
    BY <1>t DEF PendingInv, IsInetable, IsInetableOn
  <2>2. Closed(sess') \/ (Opened(sess', currIP) /\ authorizedBy # {})
    <3>1. CASE disabledCB = "off" /\ sess.connected
      BY <1>11, <3>1, <1>s, CloseLemma DEF onDisabledChange
    <3>2. CASE ~(disabledCB = "off" /\ sess.connected)
      BY <1>11, <2>1, <3>2, <1>s DEF onDisabledChange
    <3> QED
      BY <3>1, <3>2
  <2>3. TypeOK' /\ PendingInv'
    BY <1>11, <2>2, <1>t DEF onDisabledChange, TypeOK, PendingInv, Closed, Opened
  <2> QED
    BY <1>11, <1>0, <2>2, <2>3, RestoreLemma DEF onDisabledChange
<1>12. ASSUME NEW x \in IPSets, SetIPs(x)
       PROVE  IInv'
  BY <1>12, <1>t DEF SetIPs, IInv, TypeOK, SessionInv, GrantInv, LogInv, PendingInv
<1>13. CASE onIPChange
  <2> DEFINE s == IF sess.connected THEN Disconnect(sess, FALSE) ELSE sess
  <2>1. Closed(s)
    BY <1>13, <1>s, CloseLemma DEF onIPChange
  <2>2. sess' = IF authorizedBy # {} /\ IsInetable THEN Connect(s, FALSE) ELSE s
    BY <1>13 DEF onIPChange
  <2> HIDE DEF s
  <2>3. Closed(sess') \/ (Opened(sess', currIP) /\ authorizedBy # {})
    BY <2>1, <2>2, <1>i, OpenLemma
  <2>4. TypeOK' /\ PendingInv'
    BY <1>13, <2>3, <1>t DEF onIPChange, TypeOK, PendingInv, Closed, Opened
  <2> QED
    BY <1>13, <1>0, <2>3, <2>4, RestoreLemma DEF onIPChange
<1>14. ASSUME NEW v \in BOOLEAN, SetPassive(v)
       PROVE  IInv'
  BY <1>14, <1>t DEF SetPassive, IInv, TypeOK, SessionInv, GrantInv, LogInv, PendingInv
<1>15. ASSUME NEW t \in Tariffs, SetTariff(t)
       PROVE  IInv'
  <2> DEFINE s == IF ReconnectOnTariffChange /\ sess.connected
                    THEN Disconnect(sess, FALSE) ELSE sess
  <2>1. ReconnectOnTariffChange => Closed(s)
    BY <1>15, <1>s, CloseLemma DEF SetTariff
  <2>2. ~ReconnectOnTariffChange => s = sess
    OBVIOUS
  <2>3. sess' = IF ReconnectOnTariffChange /\ authorizedBy # {} /\ IsInetableOn(t)
                  THEN Connect(s, FALSE) ELSE s
    BY <1>15 DEF SetTariff
  <2> HIDE DEF s
  <2>4. Closed(sess') \/ (Opened(sess', currIP) /\ authorizedBy # {})
    <3>1. CASE ReconnectOnTariffChange
      BY <2>1, <2>3, <3>1, <1>i, OpenLemma
    <3>2. CASE ~ReconnectOnTariffChange
      BY <1>15, <2>2, <2>3, <3>2, <1>s DEF SetTariff
    <3> QED
      BY <3>1, <3>2
  <2>5. TypeOK' /\ PendingInv'
    BY <1>15, <2>4, <1>t DEF SetTariff, TypeOK, PendingInv, Closed, Opened
  <2> QED
    BY <1>15, <1>0, <2>4, <2>5, RestoreLemma DEF SetTariff
<1>16. ASSUME NEW c \in Amounts, NEW f \in Amounts, SetMoney(c, f)
       PROVE  IInv'
  BY <1>16, <1>t DEF SetMoney, IInv, TypeOK, SessionInv, GrantInv, LogInv, PendingInv
<1>17. ASSUME NEW c \in Credits, NEW e \in {"never", "later"}, SetCredit(c, e)
       PROVE  IInv'
  BY <1>17, <1>t DEF SetCredit, IInv, TypeOK, SessionInv, GrantInv, LogInv, PendingInv
<1>18. CASE WriteStat
  <2>1. /\ UNCHANGED <<authorizedBy, currIP, enabledDirs, sess, disabled, passive, tariff, ips>>
        /\ UNCHANGED <<cash, freeMb, credit, creditExpire, disabledCB, ipsCB, wedged>>
    BY <1>18 DEF WriteStat
  <2>2. statDue' \in BOOLEAN
    BY <1>18, <1>t DEF WriteStat, TypeOK
  <2>3. TypeOK'
    BY <2>1, <2>2, <1>t DEF TypeOK
  <2>4. SessionInv' /\ GrantInv' /\ LogInv' /\ PendingInv'
    BY <2>1, <1>t DEF SessionInv, GrantInv, LogInv, PendingInv
  <2> QED BY <2>3, <2>4 DEF IInv
<1>19. CASE TimePasses
  <2>1. /\ UNCHANGED <<authorizedBy, currIP, enabledDirs, sess, disabled, passive, tariff, ips>>
        /\ UNCHANGED <<cash, freeMb, credit, disabledCB, ipsCB, wedged>>
    BY <1>19 DEF TimePasses
  <2>2. statDue' \in BOOLEAN /\ creditExpire' \in {"never", "later", "past"}
    BY <1>19, <1>t DEF TimePasses, TypeOK
  <2>3. TypeOK'
    BY <2>1, <2>2, <1>t DEF TypeOK
  <2>4. SessionInv' /\ GrantInv' /\ LogInv' /\ PendingInv'
    BY <2>1, <1>t DEF SessionInv, GrantInv, LogInv, PendingInv
  <2> QED BY <2>3, <2>4 DEF IInv
<1> QED
  BY <1>1, <1>2, <1>3, <1>4, <1>5, <1>6, <1>7, <1>8, <1>9, <1>10, <1>11, <1>12,
     <1>13, <1>14, <1>15, <1>16, <1>17, <1>18, <1>19
     DEF Next, Authorizer, UsersThread, Run, Configurator

\* The initial states satisfy the inductive invariant.
LEMMA Initially == Init => IInv
<1> SUFFICES ASSUME Init
             PROVE  IInv
  OBVIOUS
<1>1. sess \in SessionType
  BY DEF Init, SessionType
<1>2. TypeOK
  BY <1>1 DEF Init, TypeOK
<1>3. SessionInv /\ GrantInv /\ LogInv /\ PendingInv
  BY DEF Init, SessionInv, GrantInv, LogInv, PendingInv
<1> QED
  BY <1>2, <1>3 DEF IInv

\* Connection, access grants and session log agree in every reachable state,
\* for any number of authorisers and addresses and any settings: a connected
\* user is authorised (SessionInv), OnConnect and OnDisconnect are paired on
\* one address (GrantInv), and connect and disconnect records alternate
\* (LogInv).
THEOREM SessionSafety == Spec => [](TypeOK /\ SessionSafe)
<1>1. Init => IInv
  BY Initially
<1>2. IInv /\ [Next]_vars => IInv'
  BY Inductive
<1>3. IInv => TypeOK /\ SessionSafe
  BY DEF IInv, SessionSafe
<1> QED
  BY <1>1, <1>2, <1>3, PTL DEF Spec

\* The address of a user never changes while it stays authorised: only
\* Authorize from the unauthorised state and the last Unauthorize assign it.
THEOREM AddressNeverMoves == Spec => AddressStable
<1> DEFINE A == authorizedBy # {} /\ authorizedBy' # {} => currIP' = currIP
<1>1. [Next]_vars => [A]_vars
  <2> SUFFICES ASSUME Next
               PROVE  A
    OBVIOUS
  <2> USE DEF access
  <2>1. ASSUME NEW auth \in Auths, NEW ip \in Addrs, NEW d \in Dirs,
               NEW ix \in {"free", "own", "other"}, Authorize(ip, d, auth, ix)
        PROVE  A
    BY <2>1 DEF Authorize
  <2>2. ASSUME NEW auth \in Auths, Unauthorize(auth)
        PROVE  A
    BY <2>2 DEF Unauthorize
  <2>3. CASE UsersThread \/ TimePasses
    BY <2>3 DEF UsersThread, TimePasses, Run, RunWritesStat, RunExpiresCredit, RunSession,
                MidnightReset, ProcessNewMonth, OnDelete
  <2>4. CASE Configurator
    BY <2>4 DEF Configurator, SetDisabled, SetPassive, onDisabledChange, onIPChange,
                WriteStat, SetIPs, SetTariff, SetMoney, SetCredit
  <2> QED
    BY <2>1, <2>2, <2>3, <2>4 DEF Next, Authorizer
<1> QED
  BY <1>1, PTL DEF Spec, AddressStable
=============================================================================
