-------------------------- MODULE AlwaysOnlineProofs --------------------------
(***************************************************************************)
(* The authoriser AlwaysOnline keeps the registry of users sound, and with *)
(* one configuration thread it holds users only as they are configured.    *)
(*                                                                         *)
(* HeldAsConfigured is not inductive: between the two callbacks of a       *)
(* change, and after the callbacks of a deleted user stayed connected, it  *)
(* says nothing of what the plugin holds.  HoldInv does: whoever is held   *)
(* is as configured, has callbacks that will be called, and is in no       *)
(* change that is past its first callback.                                 *)
(***************************************************************************)
EXTENDS AlwaysOnline, UsersProofs

\* The changes under way, and the addresses of the users.
ChangesInv ==
    /\ ips \in [Logins -> SUBSET Addrs] /\ DOMAIN alwaysOnline = Logins
    /\ DOMAIN setting = Setters
    /\ \A t \in Setters : setting[t] # NoChange =>
         /\ DOMAIN setting[t] = {"step", "login", "property", "value", "node"}
         /\ setting[t].login \in Logins
         /\ setting[t].property = "ips" => setting[t].value \in SUBSET Addrs

\* A step of a change keeps the changes well formed.
LEMMA StepKeeps ==
    ASSUME ChangesInv, NEW t \in Setters, NEW from, from # "none", NEW to, Step(t, from, to),
           ips' \in [Logins -> SUBSET Addrs], DOMAIN alwaysOnline' = Logins
    PROVE  ChangesInv'
<1> DEFINE c == setting[t]
           next == IF to = "done" THEN NoChange ELSE [c EXCEPT !.step = to]
<1>1. setting' = [setting EXCEPT ![t] = next]
  BY DEF Step
<1>2. c # NoChange
  BY DEF Step, NoChange
<1>3. next # NoChange => /\ DOMAIN next = DOMAIN c /\ next.login = c.login
                         /\ next.property = c.property /\ next.value = c.value
  BY <1>2 DEF ChangesInv
<1> HIDE DEF next
<1>4. setting'[t] = next /\ DOMAIN setting' = Setters /\ \A s \in Setters : s # t => setting'[s] = setting[s]
  BY <1>1 DEF ChangesInv
<1> QED BY <1>2, <1>3, <1>4 DEF ChangesInv

\* A new change is well formed.
LEMMA SetBeginsKeeps ==
    ASSUME ChangesInv, NEW t \in Setters, NEW l \in Logins, SetBegins(t, l)
    PROVE  ChangesInv'
<1>1. PICK c \in Changes(l) : setting' = [setting EXCEPT ![t] = c]
  BY Zenon DEF SetBegins
<1>2. /\ DOMAIN c = {"step", "login", "property", "value", "node"} /\ c.login = l
      /\ c.property = "ips" => c.value \in SUBSET Addrs
  <2>1. CASE \E b \in BOOLEAN : c = Change(l, "alwaysOnline", b)
    BY <2>1 DEF Change
  <2>2. CASE \E S \in SUBSET Addrs : c = Change(l, "ips", S)
    BY <2>2 DEF Change
  <2> QED BY <2>1, <2>2 DEF Changes
<1>3. setting'[t] = c /\ DOMAIN setting' = Setters /\ \A s \in Setters : s # t => setting'[s] = setting[s]
  BY <1>1 DEF ChangesInv
<1>4. ips' = ips /\ alwaysOnline' = alwaysOnline
  BY DEF SetBegins, regVars
<1> QED BY <1>2, <1>3, <1>4 DEF ChangesInv

\* One step keeps the registry sound and the changes well formed.
LEMMA NextKeeps ==
    ASSUME TypeOK, RegInv, ChangesInv, [Next]_vars
    PROVE  TypeOK' /\ RegInv' /\ ChangesInv'
<1>1. ASSUME UNCHANGED regVars PROVE TypeOK' /\ RegInv' /\ ips' = ips
  BY <1>1, Unchanged DEF regVars, index, deletion, fate
<1>2. ASSUME UNCHANGED setting, ips' \in [Logins -> SUBSET Addrs], DOMAIN alwaysOnline' = Logins
      PROVE  ChangesInv'
  BY <1>2 DEF ChangesInv
<1>3. CASE UNCHANGED vars
  BY <1>1, <1>2, <1>3 DEF vars, ChangesInv
<1>4. CASE Administration /\ Defaults /\ UNCHANGED setting
  <2>1. ASSUME NEW l \in Logins, Add(l) PROVE ips' \in [Logins -> SUBSET Addrs]
    BY <2>1 DEF Add, ChangesInv
  <2>2. (\E l \in Logins : Add(l)) \/ ips' = ips
    BY <1>4, Zenon DEF Administration, DelBegins, DelNotifies, DelEnds, TimePasses, RealDelUser, Break
  <2>3. ips' \in [Logins -> SUBSET Addrs]
    BY <2>1, <2>2 DEF ChangesInv
  <2>4. DOMAIN alwaysOnline' = Logins
    BY <1>4 DEF Defaults
  <2> QED BY <1>2, <1>4, <2>3, <2>4, AdministrationKeeps
<1>5. CASE Authorization(Auths \ {AO}) /\ UNCHANGED <<alwaysOnline, setting>>
  <2>1. ips' = ips
    <3>1. ASSUME NEW l, NEW ip, NEW a, Authorize(l, ip, a) PROVE ips' = ips
      BY <3>1, Zenon DEF Authorize, Break, regVars
    <3>2. ASSUME NEW l, NEW a, Unauthorize(l, a) PROVE ips' = ips
      BY <3>2 DEF Unauthorize
    <3> QED BY <1>5, <3>1, <3>2 DEF Authorization
  <2> QED BY <1>2, <1>5, <2>1, AuthorizationKeeps DEF ChangesInv
<1>6. ASSUME NEW t \in Setters, NEW l \in Logins, SetBegins(t, l) PROVE TypeOK' /\ RegInv' /\ ChangesInv'
  BY <1>1, <1>6, SetBeginsKeeps, Zenon DEF SetBegins
<1>7. ASSUME NEW t \in Setters, UnauthorizeBefore(t) PROVE TypeOK' /\ RegInv' /\ ChangesInv'
  <2>1. TypeOK' /\ RegInv' /\ ips' = ips
    BY <1>1, <1>7, UnauthorizeKeeps DEF UnauthorizeBefore, Unauthorize
  <2> QED BY <1>7, <2>1, StepKeeps, Zenon DEF UnauthorizeBefore, ChangesInv
<1>8. ASSUME NEW t \in Setters, Assign(t) PROVE TypeOK' /\ RegInv' /\ ChangesInv'
  <2>1. DOMAIN alwaysOnline' = Logins
    BY <1>8 DEF Assign, ChangesInv
  <2>2. CASE UNCHANGED regVars
    <3>1. ips' \in [Logins -> SUBSET Addrs] /\ TypeOK' /\ RegInv'
      BY <1>1, <2>2 DEF ChangesInv
    <3> QED BY <1>8, <2>1, <3>1, StepKeeps DEF Assign
  <2>3. CASE setting[t].property = "ips" /\ SetIPs(setting[t].login, setting[t].value)
    <3>1. TypeOK' /\ RegInv'
      BY <2>3, Unchanged DEF SetIPs, index, deletion, fate
    <3>2. setting[t] # NoChange
      BY <1>8 DEF Assign, Step, NoChange
    <3>3. ips' \in [Logins -> SUBSET Addrs]
      BY <2>3, <3>2 DEF SetIPs, ChangesInv
    <3> QED BY <1>8, <2>1, <3>1, <3>3, StepKeeps DEF Assign
  <2> QED BY <1>8, <2>2, <2>3 DEF Assign
<1>9. ASSUME NEW t \in Setters, UpdateUserAuthorization(t) PROVE TypeOK' /\ RegInv' /\ ChangesInv'
  <2>1. CASE UNCHANGED regVars
    BY <1>1, <1>9, <2>1, StepKeeps, Zenon DEF UpdateUserAuthorization, ChangesInv
  <2>2. ASSUME NEW ip \in ips[setting[t].login], Authorize(setting[t].login, ip, AO)
        PROVE  TypeOK' /\ RegInv' /\ ChangesInv'
    <3>1. ip \in Addrs
      <4>1. setting[t] # NoChange
        BY <1>9 DEF UpdateUserAuthorization, Step, NoChange
      <4> QED BY <2>2, <4>1 DEF ChangesInv
    <3>2. ips' = ips
      BY <2>2, Zenon DEF Authorize, Break, regVars
    <3>3. TypeOK' /\ RegInv'
      BY <2>2, <3>1, AuthorizeKeeps, AOAssumption
    <3> QED BY <1>9, <3>2, <3>3, StepKeeps, Zenon DEF UpdateUserAuthorization, ChangesInv
  <2> QED BY <1>9, <2>1, <2>2 DEF UpdateUserAuthorization
<1>10. ASSUME NEW t \in Setters, SetFails(t) PROVE TypeOK' /\ RegInv' /\ ChangesInv'
  <2>1. TypeOK' /\ RegInv' /\ ips' = ips
    BY <1>10, BreakKeeps DEF SetFails, Break
  <2>2. setting' = [setting EXCEPT ![t] = NoChange] /\ alwaysOnline' = alwaysOnline
    BY <1>10 DEF SetFails
  <2> QED BY <2>1, <2>2 DEF ChangesInv
<1> QED BY <1>3, <1>4, <1>5, <1>6, <1>7, <1>8, <1>9, <1>10 DEF Next

\* Nobody is being reconfigured at first.
LEMMA InitKeeps == Init => TypeOK /\ RegInv /\ ChangesInv
<1> SUFFICES ASSUME Init PROVE TypeOK /\ RegInv /\ ChangesInv
  OBVIOUS
<1>1. ChangesInv
  BY DEF Init, RegInit, ChangesInv
<1> QED BY <1>1, InitHolds DEF Init

\* With the plugin AlwaysOnline among the authorisers, whose callbacks also
\* authorise users it has and may outlive a user, the address index is still
\* sound, for any number of configuration threads (users_impl.cpp:182-256,
\* 539-569, ao.cpp:87-156).
THEOREM IndexIsSound == AOSpec => []IndexSound
<1> DEFINE Inv == TypeOK /\ RegInv /\ ChangesInv
<1>1. Init => Inv
  BY InitKeeps
<1>2. Inv /\ [Next]_vars => Inv'
  BY NextKeeps
<1>3. Inv => IndexSound
  BY DEF RegInv, IndexSound, AddressInv
<1> QED BY <1>1, <1>2, <1>3, PTL DEF AOSpec

-----------------------------------------------------------------------------
\* Whom the plugin holds, between the steps of a change too.
HoldInv ==
    Sane => \A l \in DOMAIN loginIndex : HasUser(l, AO) =>
              /\ loginIndex[l] \notin unset
              /\ alwaysOnline[l] /\ ips[l] = {users[loginIndex[l]].ip}
              /\ \A t \in Setters : setting[t] # NoChange /\ setting[t].login = l =>
                   setting[t].step = "before"

\* The element a change works on has the login it was found by.
NodeInv ==
    \A t \in Setters : setting[t] # NoChange =>
      /\ setting[t].node \in 1..created
      /\ setting[t].node \in DOMAIN users => users[setting[t].node].login = setting[t].login

\* A step after which the plugin holds nobody it did not hold before, and
\* those it still holds are the same elements at the same addresses.
HoldsNoMore ==
    \A l \in DOMAIN loginIndex' : AO \in users'[loginIndex'[l]].by =>
      /\ HasUser(l, AO) /\ loginIndex'[l] = loginIndex[l]
      /\ users'[loginIndex[l]].ip = users[loginIndex[l]].ip

\* A step after which the elements have the logins they had.
NodesKept ==
    /\ created' \in Nat /\ created <= created'
    /\ \A n \in DOMAIN users' : n \in 1..created => n \in DOMAIN users /\ users'[n].login = users[n].login

\* Such a step keeps the two invariants if those still held keep their
\* properties and their callbacks.
LEMMA HoldKept ==
    ASSUME TypeOK, NodeInv, HoldInv, Sane' => Sane /\ HoldsNoMore, NodesKept, UNCHANGED setting,
           \A l \in DOMAIN loginIndex' : Sane' /\ HasUser(l, AO) /\ AO \in users'[loginIndex'[l]].by =>
             /\ loginIndex'[l] \notin unset'
             /\ alwaysOnline'[l] = alwaysOnline[l] /\ ips'[l] = ips[l]
    PROVE  HoldInv' /\ NodeInv'
<1>1. HoldInv'
  <2> SUFFICES ASSUME Sane', NEW l \in DOMAIN loginIndex', AO \in users'[loginIndex'[l]].by
               PROVE  /\ loginIndex'[l] \notin unset'
                      /\ alwaysOnline'[l] /\ ips'[l] = {users'[loginIndex'[l]].ip}
                      /\ \A t \in Setters : setting'[t] # NoChange /\ setting'[t].login = l =>
                           setting'[t].step = "before"
    BY DEF HoldInv, HasUser
  <2>1. /\ HasUser(l, AO) /\ loginIndex'[l] = loginIndex[l] /\ l \in DOMAIN loginIndex
        /\ users'[loginIndex[l]].ip = users[loginIndex[l]].ip
    BY DEF HoldsNoMore, HasUser
  <2>2. /\ alwaysOnline[l] /\ ips[l] = {users[loginIndex[l]].ip}
        /\ \A t \in Setters : setting[t] # NoChange /\ setting[t].login = l => setting[t].step = "before"
    BY <2>1 DEF HoldInv
  <2> QED BY <2>1, <2>2
<1>2. NodeInv'
  <2>1. created \in Nat /\ 1..created \subseteq 1..created'
    BY DEF TypeOK, NodesKept
  <2> QED BY <2>1 DEF NodeInv, NodesKept
<1> QED BY <1>1, <1>2

\* A user is withdrawn: if this plugin is not the one, it holds the user
\* where it did.
LEMMA WithdrawalHolds ==
    ASSUME TypeOK, NEW n \in DOMAIN users, NEW a, UnauthorizeFound(n, a),
           UNCHANGED <<loginIndex, created>>,
           \A l \in DOMAIN loginIndex : loginIndex[l] \in DOMAIN users
    PROVE  NodesKept /\ HoldsNoMore /\ a \notin users'[n].by
<1> DEFINE rest == users[n].by \ {a}
           none == IF rest = {} THEN NoAddr ELSE users[n].ip
<1>1. users \in [DOMAIN users -> UserRec] /\ created \in Nat /\ created <= created
  BY DEF TypeOK, UserRec
<1>2. users' = [users EXCEPT ![n] = Held(users[n], rest, none)]
  BY DEF UnauthorizeFound, Unauthorized
<1>3. rest \in SUBSET Auths /\ none \in Addrs \cup {NoAddr} /\ users[n] \in UserRec
  BY <1>1 DEF UserRec
<1>4. (AO \in rest => none = users[n].ip) /\ (AO \in rest => AO \in users[n].by) /\ a \notin rest
  OBVIOUS
<1> HIDE DEF rest, none
<1>5. /\ users'[n].by = rest /\ users'[n].ip = none /\ users'[n].login = users[n].login
      /\ DOMAIN users' = DOMAIN users /\ \A m \in DOMAIN users : m # n => users'[m] = users[m]
  BY <1>1, <1>2, <1>3, HeldLemma
<1>6. NodesKept
  BY <1>1, <1>5 DEF NodesKept
<1>7. HoldsNoMore
  BY <1>4, <1>5 DEF HoldsNoMore, HasUser
<1> QED BY <1>4, <1>5, <1>6, <1>7

\* Another authoriser takes a user: one that is authorised already stays at
\* its address.
LEMMA AuthorizeHolds ==
    ASSUME TypeOK, RegInv, NEW l, NEW ip \in Addrs, NEW a \in Auths \ {AO}, Authorize(l, ip, a)
    PROVE  NodesKept /\ HoldsNoMore
<1>1. /\ users \in [DOMAIN users -> UserRec] /\ created \in Nat /\ created <= created
      /\ UNCHANGED <<loginIndex, created>>
      /\ \A k \in DOMAIN loginIndex : loginIndex[k] \in DOMAIN users
  <2>1. UNCHANGED <<loginIndex, created>> /\ Sane
    BY Zenon DEF Authorize, Break, regVars, index
  <2> QED BY <2>1 DEF TypeOK, UserRec, RegInv, LoginInv
<1>2. CASE UNCHANGED users
  BY <1>1, <1>2 DEF NodesKept, HoldsNoMore, HasUser
<1>3. ASSUME NEW n \in DOMAIN users, UserAuthorizes(n, ip, a), users' = Authorized(n, ip, a), users' # users
      PROVE  NodesKept /\ HoldsNoMore
  <2>1. users' = [users EXCEPT ![n] = Held(users[n], users[n].by \cup {a}, ip)] /\ a \notin users[n].by
    BY <1>3 DEF Authorized
  <2>2. users[n] \in UserRec /\ users[n].by \cup {a} \in SUBSET Auths
    BY <1>1 DEF UserRec
  <2>3. /\ users'[n].by = users[n].by \cup {a} /\ users'[n].ip = ip /\ users'[n].login = users[n].login
        /\ DOMAIN users' = DOMAIN users /\ \A m \in DOMAIN users : m # n => users'[m] = users[m]
    BY <1>1, <2>1, <2>2, HeldLemma
  <2>4. AO \in users[n].by => users[n].ip = ip
    BY <1>3, <2>1 DEF UserAuthorizes
  <2> QED BY <1>1, <2>3, <2>4 DEF NodesKept, HoldsNoMore, HasUser
<1> QED BY <1>2, <1>3, Zenon DEF Authorize, Break, index, regVars, Relocks

\* Adding and deleting users gives the plugin nobody it did not hold.
LEMMA AdministrationHolds ==
    ASSUME TypeOK, RegInv, Sane, Administration
    PROVE  NodesKept /\ (Sane' => HoldsNoMore)
<1>1. /\ users \in [DOMAIN users -> UserRec] /\ created \in Nat /\ created <= created
      /\ \A l \in DOMAIN loginIndex : loginIndex[l] \in DOMAIN users
  BY DEF TypeOK, UserRec, RegInv, LoginInv
<1>2. ASSUME UNCHANGED <<users, loginIndex, created>> PROVE NodesKept /\ HoldsNoMore
  BY <1>1, <1>2 DEF NodesKept, HoldsNoMore, HasUser
<1>3. ASSUME NEW l \in Logins, Add(l) PROVE NodesKept /\ HoldsNoMore
  <2>1. created' = created + 1 /\ users' = Put(users, created + 1, NewUser(l))
    BY <1>3, Zenon DEF Add
  <2>2. created + 1 \notin DOMAIN users /\ created + 1 \notin 1..created
    BY <1>1 DEF TypeOK
  <2>3. /\ DOMAIN users' = DOMAIN users \cup {created + 1} /\ users'[created + 1].by = {}
        /\ \A n \in DOMAIN users : users'[n] = users[n]
    BY <2>1, <2>2 DEF Put, NewUser
  <2>4. loginIndex' = Put(loginIndex, l, created + 1) \/ loginIndex' = loginIndex
    BY <1>3, Zenon DEF Add, Relocks
  <2>5. NodesKept
    BY <1>1, <2>1, <2>2, <2>3 DEF NodesKept
  <2>6. HoldsNoMore
    BY <1>1, <2>3, <2>4 DEF HoldsNoMore, HasUser, Put
  <2> QED BY <2>5, <2>6
<1>4. ASSUME NEW d \in Admins, NEW l \in Logins, DelBegins(d, l) PROVE NodesKept /\ HoldsNoMore
  <2>1. /\ loginIndex[l] \in DOMAIN users /\ UNCHANGED <<loginIndex, created>>
        /\ users' = [users EXCEPT ![loginIndex[l]] = [users[loginIndex[l]] EXCEPT !.deleted = TRUE]]
    BY <1>1, <1>4 DEF DelBegins
  <2>2. /\ DOMAIN users' = DOMAIN users
        /\ \A n \in DOMAIN users : /\ users'[n].login = users[n].login
                                   /\ users'[n].by = users[n].by /\ users'[n].ip = users[n].ip
    BY <1>1, <2>1, MarkedLemma
  <2> QED BY <1>1, <2>1, <2>2 DEF NodesKept, HoldsNoMore, HasUser
<1>5. ASSUME NEW d \in Admins, NEW a \in Auths, DelNotifies(d, a) PROVE NodesKept /\ HoldsNoMore
  <2>1. CASE Break
    BY <1>2, <2>1 DEF Break, index
  <2>2. CASE UNCHANGED <<users, loginIndex, created>>
    BY <1>2, <2>2
  <2>3. ASSUME NEW l \in DOMAIN loginIndex, UnauthorizeFound(loginIndex[l], a), UNCHANGED <<loginIndex, created>>
        PROVE  NodesKept /\ HoldsNoMore
    BY <1>1, <2>3, WithdrawalHolds
  <2> QED BY <1>5, <2>1, <2>2, <2>3, Zenon DEF DelNotifies
<1>6. ASSUME NEW d \in Admins, DelEnds(d) PROVE NodesKept /\ HoldsNoMore
  <2>1. UNCHANGED <<users, created>>
    BY <1>6, Zenon DEF DelEnds, Break, index
  <2>2. loginIndex' = loginIndex \/ \E k : loginIndex' = Drop(loginIndex, {k})
    BY <1>6, Zenon DEF DelEnds, Break, index, Relocks
  <2> QED BY <1>1, <2>1, <2>2 DEF NodesKept, HoldsNoMore, HasUser, Drop
<1>7. CASE TimePasses
  BY <1>2, <1>7 DEF TimePasses, index
<1>8. CASE RealDelUser
  <2>1. CASE Break
    BY <1>2, <2>1 DEF Break, index
  <2>2. CASE Erase /\ UNCHANGED <<loginIndex, created, fate>>
    <3>1. Sane' /\ \A l \in DOMAIN loginIndex : loginIndex[l] \in DOMAIN users'
      BY <1>8, <2>2, EraseKeeps DEF fate, Sane, RegInv, LoginInv
    <3>2. \A n \in DOMAIN users' : n \in DOMAIN users /\ users'[n] = users[n]
      BY <2>2 DEF Erase, Drop
    <3> QED BY <1>1, <2>2, <3>1, <3>2 DEF NodesKept, HoldsNoMore, HasUser
  <2> QED BY <1>8, <2>1, <2>2, Zenon DEF RealDelUser
<1> QED BY <1>3, <1>4, <1>5, <1>6, <1>7, <1>8, Zenon DEF Administration

\* When Del tells the plugin of a user, the plugin holds the user no more.
LEMMA ToldHoldsNot ==
    ASSUME TypeOK, RegInv, Sane, Administration, Sane',
           NEW e \in Admins, AO \in deleting[e].left \ deleting'[e].left,
           NEW l \in DOMAIN loginIndex', loginIndex'[l] = deleting[e].node
    PROVE  AO \notin users'[loginIndex'[l]].by
<1>1. /\ deleting \in [Admins -> {Idle} \cup [node : 1..created, left : SUBSET Auths]]
      /\ \A k \in DOMAIN loginIndex : loginIndex[k] \in DOMAIN users /\ users[loginIndex[k]].login = k
      /\ users \in [DOMAIN users -> UserRec]
  BY DEF TypeOK, UserRec, RegInv, LoginInv
<1>2. deleting' # deleting
  OBVIOUS
<1>3. ASSUME NEW d \in Admins, NEW k \in Logins, DelBegins(d, k) PROVE FALSE
  <2>1. deleting[d].left = {} /\ \A c \in Admins : c # d => deleting'[c] = deleting[c]
    BY <1>1, <1>3 DEF DelBegins, Idle
  <2> QED BY <2>1
<1>4. ASSUME NEW d \in Admins, DelEnds(d), ~Break PROVE FALSE
  <2>1. deleting[d].left = {} /\ deleting' = [deleting EXCEPT ![d] = Idle]
    BY <1>2, <1>4, Zenon DEF DelEnds, Relocks
  <2>2. \A c \in Admins : c # d => deleting'[c] = deleting[c]
    BY <1>1, <2>1
  <2> QED BY <2>1, <2>2
<1>5. ~Break
  BY DEF Break, Sane
<1>6. (\A k \in Logins : ~Add(k)) /\ ~TimePasses /\ ~RealDelUser
  BY <1>2, <1>5, Zenon DEF Add, TimePasses, RealDelUser, deletion
<1>7. PICK d \in Admins, a \in Auths : DelNotifies(d, a)
  BY <1>3, <1>4, <1>5, <1>6, Zenon DEF Administration
<1>8. deleting' = [deleting EXCEPT ![d].left = deleting[d].left \ {a}] /\ UNCHANGED loginIndex
      /\ deleting[d].node \in DOMAIN users
  BY <1>5, <1>7 DEF DelNotifies
<1>9. e = d /\ a = AO
  <2>1. \A c \in Admins : c # d => deleting'[c] = deleting[c]
    BY <1>1, <1>8
  <2>2. deleting'[d].left = deleting[d].left \ {a}
    BY <1>1, <1>8
  <2> QED BY <2>1, <2>2
<1>10. users[deleting[d].node].login = l /\ loginIndex[l] = deleting[d].node
  BY <1>1, <1>8, <1>9
<1>11. CASE AO \in users[deleting[d].node].by
  <2>1. UnauthorizeFound(loginIndex[l], AO)
    BY <1>5, <1>7, <1>8, <1>9, <1>10, <1>11 DEF DelNotifies
  <2>2. UNCHANGED <<loginIndex, created>>
    BY <1>5, <1>7 DEF DelNotifies
  <2> QED BY <1>1, <1>8, <1>10, <2>1, <2>2, WithdrawalHolds
<1>12. CASE AO \notin users[deleting[d].node].by
  BY <1>5, <1>7, <1>8, <1>9, <1>10, <1>12 DEF DelNotifies
<1> QED BY <1>11, <1>12

-----------------------------------------------------------------------------
Hold == TypeOK /\ RegInv /\ ChangesInv /\ NodeInv /\ HoldInv

\* A step of a change leaves the other changes alone and goes on with its own.
LEMMA StepMoves ==
    ASSUME ChangesInv, NEW t \in Setters, NEW from, from # "none", NEW to, Step(t, from, to)
    PROVE  /\ \A s \in Setters : s # t => setting'[s] = setting[s]
           /\ setting[t] # NoChange /\ setting[t].node \in DOMAIN users /\ setting[t].login \in Logins
           /\ setting'[t] # NoChange =>
                to # "done" /\ setting'[t].node = setting[t].node /\ setting'[t].login = setting[t].login
  BY DEF Step, ChangesInv, NoChange

\* A change begins: what is held stays as it is.
LEMMA SetBeginsHolds ==
    ASSUME Hold, NEW t \in Setters, NEW l \in Logins, SetBegins(t, l)
    PROVE  HoldInv' /\ NodeInv'
<1>1. PICK c \in Changes(l) : setting' = [setting EXCEPT ![t] = c]
  BY Zenon DEF SetBegins
<1>2. c.login = l /\ c.step = "before" /\ c.node = loginIndex[l]
  BY DEF Changes, Change
<1>3. setting'[t] = c /\ \A s \in Setters : s # t => setting'[s] = setting[s]
  BY <1>1 DEF Hold, ChangesInv
<1>4. UNCHANGED <<users, loginIndex, created, ips, mutex, broken, alwaysOnline, unset>>
  BY Zenon DEF SetBegins, regVars, index, fate
<1>5. loginIndex[l] \in DOMAIN users /\ users[loginIndex[l]].login = l /\ loginIndex[l] \in 1..created
  BY DEF SetBegins, Hold, RegInv, LoginInv, TypeOK
<1>6. HoldInv'
  BY <1>2, <1>3, <1>4 DEF Hold, HoldInv, HasUser, Sane
<1>7. NodeInv'
  BY <1>2, <1>3, <1>4, <1>5 DEF Hold, NodeInv
<1> QED BY <1>6, <1>7

\* The element a change works on is the one the login leads to.
LEMMA FoundByLogin ==
    ASSUME Hold, Sane, NEW t \in Setters, setting[t] # NoChange, setting[t].node \in DOMAIN users,
           setting[t].login \in DOMAIN loginIndex
    PROVE  loginIndex[setting[t].login] = setting[t].node
  BY DEF Hold, NodeInv, RegInv, LoginInv

\* The elements have the logins they had, so the changes under way still
\* work on theirs.
LEMMA StepKeepsNodes ==
    ASSUME Hold, NEW t \in Setters, NEW from, from # "none", NEW to, Step(t, from, to), NodesKept
    PROVE  NodeInv'
<1>1. created \in Nat /\ 1..created \subseteq 1..created'
  BY DEF Hold, TypeOK, NodesKept
<1>2. \A s \in Setters : setting'[s] # NoChange =>
        setting[s] # NoChange /\ setting'[s].node = setting[s].node /\ setting'[s].login = setting[s].login
  BY StepMoves DEF Hold
<1> QED BY <1>1, <1>2 DEF Hold, NodeInv, NodesKept

\* The callback before a change withdraws the user.
LEMMA UnauthorizeBeforeHolds ==
    ASSUME Hold, NEW t \in Setters, UnauthorizeBefore(t)
    PROVE  HoldInv' /\ NodeInv'
<1> DEFINE l == setting[t].login
<1>1. /\ Sane /\ Step(t, "before", "assign") /\ "before" # "none"
      /\ UNCHANGED <<loginIndex, created, ips, alwaysOnline, unset>>
  BY DEF UnauthorizeBefore, Step, Unauthorize, regVars, index
<1>2. /\ \A s \in Setters : s # t => setting'[s] = setting[s]
      /\ setting[t] # NoChange /\ setting[t].node \in DOMAIN users
      /\ setting'[t] # NoChange => setting'[t].login = l
  BY <1>1, StepMoves DEF Hold
<1>3. \A k \in DOMAIN loginIndex : loginIndex[k] \in DOMAIN users
  BY <1>1 DEF Hold, RegInv, LoginInv
<1>4. NodesKept /\ HoldsNoMore /\ (l \in DOMAIN loginIndex => AO \notin users'[loginIndex[l]].by)
  <2>1. CASE Unauthorize(l, AO)
    BY <1>3, <2>1, WithdrawalHolds DEF Unauthorize, Hold
  <2>2. CASE UNCHANGED regVars /\ ~(Notified(setting[t].node) /\ HasUser(l, AO))
    <3>1. UNCHANGED <<users, loginIndex, created>> /\ created \in Nat /\ created <= created
      BY <2>2 DEF regVars, index, Hold, TypeOK
    <3>2. NodesKept /\ HoldsNoMore
      BY <1>3, <3>1 DEF NodesKept, HoldsNoMore, HasUser
    <3>3. ~HasUser(l, AO)
      BY <1>1, <1>2, <2>2, FoundByLogin DEF Hold, HoldInv, HasUser, Notified
    <3> QED BY <3>1, <3>2, <3>3 DEF HasUser
  <2> QED BY <2>1, <2>2 DEF UnauthorizeBefore
<1>5. NodeInv'
  BY <1>1, <1>4, StepKeepsNodes
<1>6. HoldInv'
  <2> SUFFICES ASSUME NEW k \in DOMAIN loginIndex', AO \in users'[loginIndex'[k]].by
               PROVE  /\ loginIndex'[k] \notin unset'
                      /\ alwaysOnline'[k] /\ ips'[k] = {users'[loginIndex'[k]].ip}
                      /\ \A s \in Setters : setting'[s] # NoChange /\ setting'[s].login = k =>
                           setting'[s].step = "before"
    BY DEF HoldInv, HasUser
  <2>1. /\ k # l /\ HasUser(k, AO) /\ k \in DOMAIN loginIndex /\ loginIndex'[k] = loginIndex[k]
        /\ users'[loginIndex[k]].ip = users[loginIndex[k]].ip
    BY <1>1, <1>4 DEF HoldsNoMore, HasUser
  <2>2. /\ loginIndex[k] \notin unset /\ alwaysOnline[k] /\ ips[k] = {users[loginIndex[k]].ip}
        /\ \A s \in Setters : setting[s] # NoChange /\ setting[s].login = k => setting[s].step = "before"
    BY <1>1, <2>1 DEF Hold, HoldInv
  <2> QED BY <1>1, <1>2, <2>1, <2>2
<1> QED BY <1>5, <1>6

\* The property changes: the user it belongs to is not held.
LEMMA AssignHolds ==
    ASSUME Hold, NEW t \in Setters, Assign(t)
    PROVE  HoldInv' /\ NodeInv'
<1> DEFINE l == setting[t].login
<1>1. /\ Sane /\ Step(t, "assign", "after") /\ "assign" # "none" /\ setting[t].step = "assign"
      /\ UNCHANGED <<users, loginIndex, created, unset>>
  BY DEF Assign, Step, SetIPs, regVars, index
<1>2. /\ \A s \in Setters : s # t => setting'[s] = setting[s]
      /\ setting[t] # NoChange /\ l \in Logins
      /\ setting'[t] # NoChange => setting'[t].login = l
  BY <1>1, StepMoves DEF Hold
<1>3. /\ \A k \in Logins : k # l => ips'[k] = ips[k] /\ alwaysOnline'[k] = alwaysOnline[k]
  BY <1>2 DEF Assign, SetIPs, regVars, Hold, ChangesInv
<1>4. ~HasUser(l, AO)
  BY <1>1, <1>2 DEF Hold, HoldInv, HasUser
<1>5. NodeInv'
  <2>1. NodesKept
    BY <1>1 DEF NodesKept, Hold, TypeOK
  <2> QED BY <1>1, <2>1, StepKeepsNodes
<1>6. HoldInv'
  <2> SUFFICES ASSUME NEW k \in DOMAIN loginIndex, HasUser(k, AO)
               PROVE  /\ loginIndex[k] \notin unset
                      /\ alwaysOnline'[k] /\ ips'[k] = {users[loginIndex[k]].ip}
                      /\ \A s \in Setters : setting'[s] # NoChange /\ setting'[s].login = k =>
                           setting'[s].step = "before"
    BY <1>1 DEF HoldInv, HasUser
  <2>1. k # l /\ k \in Logins
    BY <1>4 DEF Hold, TypeOK
  <2>2. /\ loginIndex[k] \notin unset /\ alwaysOnline[k] /\ ips[k] = {users[loginIndex[k]].ip}
        /\ \A s \in Setters : setting[s] # NoChange /\ setting[s].login = k => setting[s].step = "before"
    BY <1>1 DEF Hold, HoldInv
  <2> QED BY <1>2, <1>3, <2>1, <2>2
<1> QED BY <1>5, <1>6

\* This plugin takes a user it does not hold: the user gets the address.
LEMMA AuthorizeTakes ==
    ASSUME TypeOK, RegInv, NEW l, ~HasUser(l, AO), NEW ip \in Addrs, Authorize(l, ip, AO)
    PROVE  /\ NodesKept
           /\ \A k \in DOMAIN loginIndex : AO \in users'[loginIndex[k]].by =>
                \/ k = l /\ users'[loginIndex[k]].ip = ip
                \/ k # l /\ users'[loginIndex[k]] = users[loginIndex[k]]
<1>1. /\ users \in [DOMAIN users -> UserRec] /\ created \in Nat /\ created <= created
      /\ UNCHANGED created /\ LoginInv
  <2>1. UNCHANGED created /\ Sane
    BY Zenon DEF Authorize, Break, regVars
  <2> QED BY <2>1 DEF TypeOK, UserRec, RegInv
<1>2. CASE UNCHANGED users
  BY <1>1, <1>2 DEF NodesKept, HasUser
<1>3. ASSUME NEW n \in DOMAIN users, users[n].login = l, users' = Authorized(n, ip, AO), users' # users
      PROVE  /\ NodesKept
             /\ \A k \in DOMAIN loginIndex : AO \in users'[loginIndex[k]].by =>
                  \/ k = l /\ users'[loginIndex[k]].ip = ip
                  \/ k # l /\ users'[loginIndex[k]] = users[loginIndex[k]]
  <2>1. users' = [users EXCEPT ![n] = Held(users[n], users[n].by \cup {AO}, ip)]
    BY <1>3 DEF Authorized
  <2>2. users[n] \in UserRec /\ users[n].by \cup {AO} \in SUBSET Auths
    BY <1>1, AOAssumption DEF UserRec
  <2>3. /\ users'[n].ip = ip /\ users'[n].login = users[n].login
        /\ DOMAIN users' = DOMAIN users /\ \A m \in DOMAIN users : m # n => users'[m] = users[m]
    BY <1>1, <2>1, <2>2, HeldLemma
  <2>4. \A k \in DOMAIN loginIndex : loginIndex[k] \in DOMAIN users /\ (k = l <=> loginIndex[k] = n)
    BY <1>1, <1>3 DEF LoginInv
  <2> QED BY <1>1, <2>3, <2>4 DEF NodesKept
<1> QED BY <1>2, <1>3, Zenon DEF Authorize, Break, index, regVars, Relocks

\* The callback after a change authorises the user at the address it has,
\* if nobody else is changing it.
LEMMA UpdateHolds ==
    ASSUME \A s, t \in Setters : s = t, Hold, NEW t \in Setters, UpdateUserAuthorization(t)
    PROVE  HoldInv' /\ NodeInv'
<1> DEFINE l == setting[t].login
<1>1. /\ Sane /\ Step(t, "after", "done") /\ "after" # "none" /\ setting[t].step = "after"
      /\ UNCHANGED <<alwaysOnline, unset>>
  BY DEF UpdateUserAuthorization, Step
<1>2. /\ setting[t] # NoChange /\ setting[t].node \in DOMAIN users /\ l \in Logins
      /\ \A s \in Setters : setting'[s] = NoChange
  BY <1>1, StepMoves DEF Hold
<1>3. ~HasUser(l, AO)
  BY <1>1, <1>2 DEF Hold, HoldInv, HasUser
<1>4. CASE UNCHANGED regVars
  <2>1. UNCHANGED <<users, loginIndex, created, ips, mutex, broken>>
    BY <1>4 DEF regVars, index, fate
  <2>2. NodesKept
    BY <2>1 DEF NodesKept, Hold, TypeOK
  <2>3. HoldInv'
    BY <1>1, <1>2, <2>1 DEF Hold, HoldInv, HasUser, Sane
  <2> QED BY <1>1, <2>2, <2>3, StepKeepsNodes
<1>5. ASSUME Notified(setting[t].node), alwaysOnline[l], OnlyOneIP(l),
             NEW ip \in ips[l], Authorize(l, ip, AO)
      PROVE  HoldInv' /\ NodeInv'
  <2>1. ips[l] = {ip} /\ ip \in Addrs
    BY <1>2, <1>5 DEF OnlyOneIP, Hold, ChangesInv
  <2>2. UNCHANGED <<loginIndex, ips>>
    BY <1>5, Zenon DEF Authorize, Break, regVars, index
  <2>3. /\ NodesKept
        /\ \A k \in DOMAIN loginIndex : AO \in users'[loginIndex[k]].by =>
             \/ k = l /\ users'[loginIndex[k]].ip = ip
             \/ k # l /\ users'[loginIndex[k]] = users[loginIndex[k]]
    BY <1>3, <1>5, <2>1, AuthorizeTakes DEF Hold
  <2>4. NodeInv'
    BY <1>1, <2>3, StepKeepsNodes
  <2>5. HoldInv'
    <3> SUFFICES ASSUME NEW k \in DOMAIN loginIndex, AO \in users'[loginIndex[k]].by
                 PROVE  /\ loginIndex[k] \notin unset
                        /\ alwaysOnline[k] /\ ips[k] = {users'[loginIndex[k]].ip}
      BY <1>1, <1>2, <2>2 DEF HoldInv, HasUser
    <3>1. CASE k = l
      BY <1>1, <1>2, <1>5, <2>1, <2>3, <3>1, FoundByLogin DEF Notified
    <3>2. CASE k # l
      BY <1>1, <2>3, <3>2 DEF Hold, HoldInv, HasUser
    <3> QED BY <3>1, <3>2
  <2> QED BY <2>4, <2>5
<1> QED BY <1>4, <1>5 DEF UpdateUserAuthorization

\* What others do to the users: those still held are as configured.
LEMMA OthersHold ==
    ASSUME Hold, \/ Administration /\ UnSetUserNotifiers /\ Defaults /\ UNCHANGED setting
                 \/ Authorization(Auths \ {AO}) /\ UNCHANGED <<alwaysOnline, setting, unset>>
    PROVE  HoldInv' /\ NodeInv'
<1>1. CASE ~Sane
  <2>1. TimePasses
    BY <1>1, Zenon DEF Administration, Authorization, Add, DelBegins, DelNotifies, DelEnds, RealDelUser,
                       Authorize, Unauthorize
  <2>2. UNCHANGED <<users, created, setting, mutex, broken>>
    BY <2>1, Zenon DEF TimePasses, index, fate
  <2> QED BY <1>1, <2>2 DEF Hold, HoldInv, NodeInv, Sane
<1>2. CASE Sane /\ Administration /\ UnSetUserNotifiers /\ Defaults /\ UNCHANGED setting
  <2>1. NodesKept /\ (Sane' => HoldsNoMore)
    BY <1>2, AdministrationHolds DEF Hold
  <2>2. ASSUME Sane', NEW l \in DOMAIN loginIndex', HasUser(l, AO), AO \in users'[loginIndex'[l]].by
        PROVE  /\ loginIndex'[l] \notin unset'
               /\ alwaysOnline'[l] = alwaysOnline[l] /\ ips'[l] = ips[l]
    <3>1. l \in DOMAIN loginIndex /\ loginIndex'[l] = loginIndex[l] /\ l \in stored /\ l \in Logins
      BY <1>2, <2>1, <2>2 DEF HoldsNoMore, HasUser, Hold, RegInv, LoginInv, TypeOK
    <3>2. loginIndex[l] \notin unset /\ alwaysOnline[l]
      BY <1>2, <2>2, <3>1 DEF Hold, HoldInv
    <3>3. loginIndex'[l] \notin unset'
      BY <1>2, <2>2, <3>1, <3>2, ToldHoldsNot DEF UnSetUserNotifiers, Hold
    <3>4. alwaysOnline'[l] = alwaysOnline[l]
      BY <1>2, <3>1, <3>2 DEF Defaults
    <3>5. ips'[l] = ips[l]
      <4>1. ASSUME NEW k \in Logins, Add(k) PROVE ips'[l] = ips[l]
        BY <3>1, <4>1 DEF Add, Hold, ChangesInv
      <4>2. (\E k \in Logins : Add(k)) \/ ips' = ips
        BY <1>2, Zenon DEF Administration, DelBegins, DelNotifies, DelEnds, TimePasses, RealDelUser, Break
      <4> QED BY <4>1, <4>2
    <3> QED BY <3>3, <3>4, <3>5
  <2> QED BY <1>2, <2>1, <2>2, HoldKept DEF Hold
<1>3. CASE Sane /\ Authorization(Auths \ {AO}) /\ UNCHANGED <<alwaysOnline, setting, unset>>
  <2>1. /\ NodesKept /\ HoldsNoMore /\ ips' = ips
    <3>1. ASSUME NEW l, NEW ip \in Addrs, NEW a \in Auths \ {AO}, Authorize(l, ip, a)
          PROVE  NodesKept /\ HoldsNoMore /\ ips' = ips
      <4>1. ips' = ips
        BY <3>1, Zenon DEF Authorize, Break, regVars
      <4> QED BY <3>1, <4>1, AuthorizeHolds DEF Hold
    <3>2. ASSUME NEW l, NEW a, Unauthorize(l, a) PROVE NodesKept /\ HoldsNoMore /\ ips' = ips
      <4>1. \A k \in DOMAIN loginIndex : loginIndex[k] \in DOMAIN users
        BY <1>3 DEF Hold, RegInv, LoginInv
      <4> QED BY <3>2, <4>1, WithdrawalHolds DEF Unauthorize, Hold
    <3> QED BY <1>3, <3>1, <3>2 DEF Authorization
  <2>2. ASSUME Sane', NEW l \in DOMAIN loginIndex', HasUser(l, AO), AO \in users'[loginIndex'[l]].by
        PROVE  loginIndex'[l] \notin unset'
    BY <1>3, <2>1, <2>2 DEF HoldsNoMore, HasUser, Hold, HoldInv
  <2> QED BY <1>3, <2>1, <2>2, HoldKept DEF Hold
<1> QED BY <1>1, <1>2, <1>3

\* With one configuration thread, a user the plugin holds is always online
\* at the only address the user has, whenever nobody is changing the user:
\* neither a change, nor the callbacks that stay connected after a user was
\* removed, nor the other authorisers leave it holding anybody by values
\* that are gone (ao.cpp:87-156, user_property.h:211-223).
THEOREM HeldIfOneSets ==
    ASSUME \A s, t \in Setters : s = t
    PROVE  AOSpec => []HeldAsConfigured
<1>1. Init => Hold
  <2> SUFFICES ASSUME Init PROVE NodeInv /\ HoldInv
    BY InitKeeps DEF Hold
  <2> QED BY DEF Init, RegInit, NodeInv, HoldInv
<1>2. Hold /\ [Next]_vars => Hold'
  <2> SUFFICES ASSUME Hold, [Next]_vars PROVE HoldInv' /\ NodeInv'
    BY NextKeeps DEF Hold
  <2>1. CASE UNCHANGED vars
    <3>1. UNCHANGED <<users, loginIndex, created, ips, mutex, broken, alwaysOnline, setting, unset>>
      BY <2>1 DEF vars, regVars, index, fate
    <3> QED BY <3>1 DEF Hold, HoldInv, NodeInv, HasUser, Sane
  <2>2. ASSUME NEW t \in Setters, SetFails(t) PROVE HoldInv' /\ NodeInv'
    <3>1. /\ setting'[t] = NoChange /\ \A s \in Setters : s # t => setting'[s] = setting[s]
          /\ UNCHANGED <<users, created>> /\ ~Sane'
      BY <2>2 DEF SetFails, Break, Sane, index, Hold, ChangesInv
    <3> QED BY <3>1 DEF Hold, HoldInv, NodeInv
  <2> QED BY <2>1, <2>2, OthersHold, SetBeginsHolds, UnauthorizeBeforeHolds, AssignHolds, UpdateHolds DEF Next
<1>3. Hold => HeldAsConfigured
  BY DEF Hold, HoldInv, HeldAsConfigured
<1> QED BY <1>1, <1>2, <1>3, PTL DEF AOSpec
=============================================================================
