------------------------------- MODULE Config -------------------------------
(***************************************************************************)
(* The server's configuration by its administrators while it runs.  Three  *)
(* threads share the tables of Tables.tla and the properties of the users: *)
(* the sgconfig plugin ("sg", one select loop, parser_*.cpp), the XML-RPC  *)
(* plugin ("rpc", one server loop, *_methods.cpp), and the users' thread,  *)
(* which charges fees.  A request is carried out in steps: a step is what  *)
(* one lock covers, the reads a later step relies on are kept in the job.  *)
(*                                                                         *)
(* One property stands for all those treated alike: note for every plain   *)
(* configuration property, freeMb for every plain statistics property, up  *)
(* for the month's traffic.                                                *)
(***************************************************************************)
EXTENDS Tables, FiniteSets

LOCAL INSTANCE SequencesExt

CONSTANTS
    Logins,         \* the users' logins
    Menus,          \* what administrators send: to sgconfig, to XML-RPC
    Start0,         \* the tables and users the server has at the beginning
    PassiveCost,    \* what a tariff charges for freezing an account
    MaxRequests,    \* bound: requests served by each thread
    MaxEvents,      \* bound: for each kind of event, how many: store calls
                    \* that fail, fees charged, restarts, seconds that pass
    MaxTotal        \* bound: events of all kinds

VARIABLES
    core,       \* the tables and the users in memory
    disk,       \* the store
    job,        \* what each plugin thread is doing
    cookies,    \* the XML-RPC sessions: cookie -> administrator's login
    billing,    \* the users' thread: idle, or the cash it read and the fee
    alive,      \* the process has not been terminated
    now,        \* time(NULL)
    left,       \* what the bounds still allow
    menu,       \* the requests of this behaviour
    unsaved,    \* users with changes the server knows it has not written
    books,      \* history: the last fee, and what it should have been
    poll        \* a configurator that polls GetUsers with LastUpdate

vars == <<core, disk, job, cookies, billing, alive, now, left, menu, unsaved, books, poll>>

Threads == {"sg", "rpc"}

Rights == {"userStat", "userConf", "userCash", "userPasswd", "userAddDel",
           "adminChg", "tariffChg", "serviceChg", "corpChg"}

StatProps == {"cash", "freeMb", "up"}

ConfProps == {"ips", "alwaysOnline", "note", "passive", "password", "tariffName", "nextTariff"}

Idle == [pc |-> "idle"]

(* The users in the login index; a deleted one is still in the list. *)
Known == DOMAIN core.users \ core.gone

----------------------------------------------------------------------------
(* UserPropertyLogged::Set *)

MaySet(priv, f) ==
    \/ "userConf" \in priv /\ f \notin StatProps
    \/ "userStat" \in priv /\ f \in StatProps
    \/ "userPasswd" \in priv /\ f = "password"
    \/ "userCash" \in priv /\ f = "cash"

AssignUntimed(c, u, f, v) == [c EXCEPT !.users[u][f] = v]

(* UserProperty::Set without the notifiers: the value and its time. *)
Assign(c, u, f, v) == [c EXCEPT !.users[u][f] = v, !.users[u].mt[f] = now]

(* UserImpl::onPassiveChange: freezing an account costs. *)
onPassiveChange(c, u, v) ==
    IF v = 1 /\ c.users[u].passive = 0 /\ c.users[u].tariff # Null
    THEN Assign(c, u, "cash", c.users[u].cash - PassiveCost)
    ELSE c

(* UserImpl::onTariffChange: the user's pointer follows the name. *)
onTariffChange(c, u, v) == [c EXCEPT !.users[u].tariff = TariffFindByName(c, v)]

(* UserProperty::Set: the notifiers, then the value. *)
SetProp(c, u, f, v) ==
    Assign(CASE f = "passive"    -> onPassiveChange(c, u, v)
             [] f = "tariffName" -> onTariffChange(c, u, v)
             [] OTHER            -> c,
           u, f, v)

(* UserImpl::WriteConf and WriteStat: what the store gets of a user. *)
Part(c, u, props) == [f \in props |-> c.users[u][f]]

WriteConf(c, d, u) == [d EXCEPT !.conf[u] = Part(c, u, ConfProps)]

WriteStat(c, d, u) == [d EXCEPT !.stat[u] = Part(c, u, StatProps)]

(* The rights behind an Admin* a thread keeps. *)
PrivOf(p) ==
    IF p = Aside THEN {Rights}
    ELSE {a.priv : a \in Deref(core, "admins", p, {[priv |-> {}], [priv |-> Rights]})}

----------------------------------------------------------------------------
(* Starting and ending a request. *)

Accept(th, r, adm, pc) ==
    /\ job[th] = Idle
    /\ left.requests[th] > 0
    /\ left' = [left EXCEPT !.requests[th] = @ - 1]
    /\ job' = [job EXCEPT ![th] = [pc |-> pc, r |-> r, adm |-> adm]]

Goto(th, pc) == job' = [job EXCEPT ![th].pc = pc]

Answer(th) == job' = [job EXCEPT ![th] = Idle]

At(th, pc) == alive /\ job[th].pc = pc

(* An event the bounds allow. *)
Event(e) ==
    /\ left.events[e] > 0 /\ left.total > 0
    /\ left' = [left EXCEPT !.events[e] = @ - 1, !.total = @ - 1]

(* A call of the store: carried out, or refused within the bound.  The     *)
(* file store also refuses to delete what it does not have.                *)
Stored(ok, possible) ==
    /\ ok => possible
    /\ IF ok \/ ~possible
       THEN UNCHANGED left
       ELSE Event("fault")

Outcome(o) == core' = o.core /\ disk' = o.disk

(* sgconfig: the connection keeps the Admin* its login found, a request of *)
(* an unknown administrator is not read.  One operator per command: where  *)
(* it begins.                                                              *)
Sg(r, op, pc) ==
    /\ r.op = op
    /\ AdminFind(core, r.admin) # Null
    /\ Accept("sg", r, AdminFind(core, r.admin), pc)

ADD_SERVICE(r) == Sg(r, "AddService", "row")

DEL_SERVICE(r) == Sg(r, "DelService", "row")

CHG_SERVICE(r) == Sg(r, "SetService", "row")

ADD_ADMIN(r) == Sg(r, "AddAdmin", "row")

DEL_ADMIN(r) == Sg(r, "DelAdmin", "row")

CHG_ADMIN(r) == Sg(r, "ChgAdmin", "row")

ADD_TARIFF(r) == Sg(r, "AddTariff", "add")

DEL_TARIFF(r) == Sg(r, "DelTariff", "inuse")

CHG_TARIFF(r) == Sg(r, "SetTariff", "copy")

ADD_USER(r) == Sg(r, "AddUser", "user")

DEL_USER(r) == Sg(r, "DelUser", "user")

CHG_USER(r) == Sg(r, "SetUser", "check")

GET_USERS(r) == Sg(r, "GetUsers", "get")

SgRequest ==
    /\ alive
    /\ \E r \in menu.sg :
          \/ ADD_SERVICE(r) \/ DEL_SERVICE(r) \/ CHG_SERVICE(r)
          \/ ADD_ADMIN(r) \/ DEL_ADMIN(r) \/ CHG_ADMIN(r)
          \/ ADD_TARIFF(r) \/ DEL_TARIFF(r) \/ CHG_TARIFF(r)
          \/ ADD_USER(r) \/ DEL_USER(r) \/ CHG_USER(r) \/ GET_USERS(r)
    /\ UNCHANGED <<core, disk, cookies, billing, alive, now, unsaved, books, poll>>

(* XML-RPC: every method but login looks its cookie up, then the           *)
(* administrator of that name.                                             *)
GetAdminInfo(r) == r.cookie \in DOMAIN cookies

Rpc(r, op, pc) ==
    /\ r.op = op
    /\ GetAdminInfo(r)
    /\ AdminFind(core, cookies[r.cookie]) # Null
    /\ Accept("rpc", r, AdminFind(core, cookies[r.cookie]), pc)

METHOD_ADMIN_ADD(r) == Rpc(r, "AddAdmin", "row")

METHOD_ADMIN_DEL(r) == Rpc(r, "DelAdmin", "row")

METHOD_ADMIN_CHG(r) == Rpc(r, "ChgAdmin", "row")

METHOD_TARIFF_ADD(r) == Rpc(r, "AddTariff", "add")

METHOD_TARIFF_DEL(r) == Rpc(r, "DelTariff", "inuse")

METHOD_TARIFF_CHG(r) == Rpc(r, "SetTariff", "copy")

METHOD_USER_ADD(r) == Rpc(r, "AddUser", "user")

METHOD_USER_DEL(r) == Rpc(r, "DelUser", "user")

METHOD_USER_CHG(r) == Rpc(r, "SetUser", "check")

METHOD_USER_CASH_ADD(r) == Rpc(r, "Cash", "find") /\ r.add

METHOD_USER_CASH_SET(r) == Rpc(r, "Cash", "find") /\ ~r.add

METHOD_USER_TARIFF_CHANGE(r) == Rpc(r, "Tariff", "find")

RpcRequest ==
    /\ alive
    /\ \E r \in menu.rpc :
          \/ METHOD_ADMIN_ADD(r) \/ METHOD_ADMIN_DEL(r) \/ METHOD_ADMIN_CHG(r)
          \/ METHOD_TARIFF_ADD(r) \/ METHOD_TARIFF_DEL(r) \/ METHOD_TARIFF_CHG(r)
          \/ METHOD_USER_ADD(r) \/ METHOD_USER_DEL(r) \/ METHOD_USER_CHG(r)
          \/ METHOD_USER_CASH_ADD(r) \/ METHOD_USER_CASH_SET(r)
          \/ METHOD_USER_TARIFF_CHANGE(r)
    /\ UNCHANGED <<core, disk, cookies, billing, alive, now, unsaved, books, poll>>

(* METHOD_LOGIN, CheckAdmin: with an empty table correct() says yes and    *)
(* leaves the pointer NULL, which is then read.                            *)
CheckAdmin ==
    /\ alive
    /\ job["rpc"] = Idle
    /\ \E r \in menu.rpc :
          /\ r.op = "login"
          /\ r.cookie \notin DOMAIN cookies
          /\ AdminCorrect(core, r.admin, r.password)
          /\ alive' = (core.admins # <<>>)
          /\ cookies' = [k \in DOMAIN cookies \cup {r.cookie} |->
                           IF k = r.cookie THEN r.admin ELSE cookies[k]]
    /\ UNCHANGED <<core, disk, job, billing, now, left, unsaved, books, poll>>

LogoutAdmin ==
    /\ alive
    /\ job["rpc"] = Idle
    /\ \E r \in menu.rpc :
          /\ r.op = "logout"
          /\ GetAdminInfo(r)
          /\ cookies' = [k \in DOMAIN cookies \ {r.cookie} |-> cookies[k]]
    /\ UNCHANGED <<core, disk, job, billing, alive, now, left, unsaved, books, poll>>

----------------------------------------------------------------------------
(* Tables: one step each, but for the tariffs. *)

(* SetService asks Exists, which is TRUE of an empty table; what the       *)
(* request does not name stays.                                            *)
Splice(row, set) == [f \in DOMAIN row |-> IF f \in DOMAIN set THEN set[f] ELSE row[f]]

ChgService(r, priv, ok) ==
    IF ~ServiceExists(core, r.name) \/ ServiceFind(core, r.name) = "no"
    THEN Done(core, disk, "missing")
    ELSE ServiceChange(core, disk, Splice(core.services[IndexOf(core.services, r.name)], r.set), priv, ok)

(* ChgAdmin: in an empty table NO-ADMIN is found, and then not changed. *)
ChgAdmin(r, priv, ok) ==
    IF AdminFind(core, r.name) \in {Null, Aside}
    THEN Done(core, disk, "missing")
    ELSE AdminChange(core, disk, Splice(core.admins[IndexOf(core.admins, r.name)], r.set), priv, ok)

RowOutcome(r, priv, ok) ==
    CASE r.op = "AddService" -> ServiceAdd(core, disk, [name |-> r.name, cost |-> 0], priv, ok)
      [] r.op = "DelService" -> ServiceDel(core, disk, r.name, priv, ok)
      [] r.op = "SetService" -> ChgService(r, priv, ok)
      [] r.op = "AddAdmin"   -> AdminAdd(core, disk, r.name, priv, ok)
      [] r.op = "DelAdmin"   -> AdminDel(core, disk, r.name, priv, ok)
      [] r.op = "ChgAdmin"   -> ChgAdmin(r, priv, ok)

RowRequest(th) ==
    /\ At(th, "row")
    /\ \E priv \in PrivOf(job[th].adm), ok \in BOOLEAN :
          LET o == RowOutcome(job[th].r, priv, ok)
          IN /\ Outcome(o)
             /\ ok \/ o.res = "store"
             /\ Stored(ok, TRUE)
    /\ Answer(th)
    /\ UNCHANGED <<cookies, billing, alive, now, unsaved, books, poll>>

(* SetTariff, chg_tariff: the tariff is copied when the request begins,    *)
(* the copy with the change is written when it ends.                       *)
CopyTariff(th) ==
    /\ At(th, "copy")
    /\ LET r == job[th].r
           i == IndexOf(core.tariffs, r.name)
       IN IF i = 0
          THEN Answer(th)
          ELSE job' = [job EXCEPT ![th] = [pc |-> "chg", adm |-> @.adm,
                                           r |-> [core.tariffs[i] EXCEPT ![r.what] = r.val]]]
    /\ UNCHANGED <<core, disk, cookies, billing, alive, now, left, unsaved, books, poll>>

ChgTariff(th) ==
    /\ At(th, "chg")
    /\ \E priv \in PrivOf(job[th].adm), ok \in BOOLEAN :
          LET o == TariffChg(core, disk, job[th].r, priv, ok)
          IN /\ Outcome(o)
             /\ ok \/ o.res = "store"
             /\ Stored(ok, TRUE)
    /\ Answer(th)
    /\ UNCHANGED <<cookies, billing, alive, now, unsaved, books, poll>>

(* DelTariff, del_tariff: a tariff some user has is not deleted; the       *)
(* deletion itself is a second step.                                       *)
TariffInUse(c, name) == \E u \in DOMAIN c.users : c.users[u].tariffName = name

CheckInUse(th) ==
    /\ At(th, "inuse")
    /\ IF TariffInUse(core, job[th].r.name) THEN Answer(th) ELSE Goto(th, "del")
    /\ UNCHANGED <<core, disk, cookies, billing, alive, now, left, unsaved, books, poll>>

DelTariff(th) ==
    /\ At(th, "del")
    /\ \E priv \in PrivOf(job[th].adm), ok \in BOOLEAN :
          LET o == TariffDel(core, disk, job[th].r.name, priv, ok)
          IN /\ Outcome(o)
             /\ ok \/ o.res = "store"
             /\ Stored(ok, o.res \in {"ok", "store"} => job[th].r.name \in DOMAIN disk.tariffs)
    /\ Answer(th)
    /\ UNCHANGED <<cookies, billing, alive, now, unsaved, books, poll>>

(* AddTariff, add_tariff: the lock is released before the store is asked. *)
AddTariff(th) ==
    /\ At(th, "add")
    /\ \E priv \in PrivOf(job[th].adm) :
          LET o == TariffAdd(core, disk, job[th].r.name, priv)
          IN /\ Outcome(o)
             /\ IF o.res = "more" THEN Goto(th, "store") ELSE Answer(th)
    /\ UNCHANGED <<cookies, billing, alive, now, left, unsaved, books, poll>>

AddTariffStore(th) ==
    /\ At(th, "store")
    /\ \E ok \in BOOLEAN :
          /\ Outcome(TariffAddStore(core, disk, job[th].r.name, ok))
          /\ Stored(ok, TRUE)
    /\ Answer(th)
    /\ UNCHANGED <<cookies, billing, alive, now, unsaved, books, poll>>

----------------------------------------------------------------------------
(* SetUser and chg_user. *)

(* The order in which CHG_USER::ApplyChanges sets properties, and that of  *)
(* USER_HELPER::SetUserInfo.                                               *)
SgOrder == <<"ips", "alwaysOnline", "freeMb", "note", "passive", "password", "cash",
             "tariffName", "nextTariff", "up">>

RpcOrder == <<"ips", "alwaysOnline", "password", "cash", "freeMb", "passive", "note", "up",
              "tariffName", "nextTariff">>

OnlyOneIP(ips) == ips # "any"

(* UsersImpl::IsIPInUse: another user has this very address. *)
IsIPInUse(c, u, ips) == OnlyOneIP(ips) /\ \E w \in DOMAIN c.users \ {u} : c.users[w].ips = ips

Wants(r, f) == f \in DOMAIN r.set

(* An account that is always online needs exactly one address. *)
Forbidden(c, r) ==
    LET ao  == IF Wants(r, "alwaysOnline") THEN r.set.alwaysOnline ELSE c.users[r.u].alwaysOnline
        ips == IF Wants(r, "ips") THEN r.set.ips ELSE c.users[r.u].ips
    IN /\ Wants(r, "alwaysOnline") \/ Wants(r, "ips")
       /\ ao = 1
       /\ ~OnlyOneIP(ips)

Work(th, todo) == job' = [job EXCEPT ![th] = [pc |-> "set", r |-> @.r, adm |-> @.adm, todo |-> todo]]

(* The checks at the head of ApplyChanges.  The loop over the new          *)
(* addresses reads m_ucr.ips.value(): a request without addresses throws,  *)
(* in a thread that catches nothing.                                       *)
SgCheck ==
    /\ At("sg", "check")
    /\ LET r == job["sg"].r
       IN IF r.u \notin Known \/ (r.u \in Known /\ Forbidden(core, r))
          THEN Answer("sg") /\ UNCHANGED alive
          ELSE IF ~Wants(r, "ips")
          THEN alive' = FALSE /\ UNCHANGED job
          ELSE /\ UNCHANGED alive
               /\ IF IsIPInUse(core, r.u, r.set.ips)
                  THEN Answer("sg")
                  ELSE Work("sg", SelectSeq(SgOrder, LAMBDA f : Wants(r, f)))
    /\ UNCHANGED <<core, disk, cookies, billing, now, left, unsaved, books, poll>>

(* The checks of SetUserInfo.  Whatever it returns, METHOD_USER_CHG goes   *)
(* on to write the user.                                                   *)
RpcCheck ==
    /\ At("rpc", "check")
    /\ LET r == job["rpc"].r
       IN IF r.u \notin Known
          THEN Answer("rpc")
          ELSE IF Forbidden(core, r) \/ (Wants(r, "ips") /\ IsIPInUse(core, r.u, r.set.ips))
          THEN Goto("rpc", "conf")
          ELSE Work("rpc", SelectSeq(RpcOrder, LAMBDA f : Wants(r, f)))
    /\ UNCHANGED <<core, disk, cookies, billing, alive, now, left, unsaved, books, poll>>

(* add_user_cash, set_user_cash and chg_user_tariff set one property. *)
RpcFind ==
    /\ At("rpc", "find")
    /\ IF job["rpc"].r.u \in Known
       THEN Work("rpc", SelectSeq(RpcOrder, LAMBDA f : Wants(job["rpc"].r, f)))
       ELSE Answer("rpc")
    /\ UNCHANGED <<core, disk, cookies, billing, alive, now, left, unsaved, books, poll>>

AtField(th, fs) == At(th, "set") /\ job[th].todo # <<>> /\ Head(job[th].todo) \in fs

Advance(th) == job' = [job EXCEPT ![th].pc = "set", ![th].todo = Tail(@)]

(* chg_user ignores what SetUserInfo returns, and so never fails. *)
Lenient(th) == th = "rpc" /\ job[th].r.op = "SetUser"

(* A property the administrator may not set ends the request: an error is  *)
(* answered and nothing written, but chg_user writes what is set.          *)
Refused(th) == IF Lenient(th) THEN Goto(th, "conf") ELSE Answer(th)

Half(th, u) == unsaved' = IF th = "sg" THEN unsaved \cup {u} ELSE unsaved

(* SetUserInfo sets a property only when the value differs. *)
Same(th, u, f, v) == Lenient(th) /\ f \notin {"ips", "up"} /\ core.users[u][f] = v

SetOrRefuse(th, f, v) ==
    LET u == job[th].r.u
    IN \/ /\ Same(th, u, f, v)
          /\ Advance(th)
          /\ UNCHANGED <<core, unsaved>>
       \/ /\ ~Same(th, u, f, v)
          /\ \E priv \in PrivOf(job[th].adm) :
                IF MaySet(priv, f)
                THEN core' = SetProp(core, u, f, v) /\ Advance(th) /\ UNCHANGED unsaved
                ELSE UNCHANGED core /\ Refused(th) /\ Half(th, u)

SetField(th) ==
    /\ AtField(th, {"ips", "alwaysOnline", "freeMb", "note", "passive", "password"})
    /\ SetOrRefuse(th, Head(job[th].todo), job[th].r.set[Head(job[th].todo)])
    /\ UNCHANGED <<disk, cookies, billing, alive, now, left, books, poll>>

(* The cash: a sum to be added is added to the cash read before Set. *)
ReadCash(th) ==
    /\ AtField(th, {"cash"})
    /\ job[th].r.add
    /\ job' = [job EXCEPT ![th].pc = "cash",
                          ![th].r.set.cash = @ + core.users[job[th].r.u].cash]
    /\ UNCHANGED <<core, disk, cookies, billing, alive, now, left, unsaved, books, poll>>

SetCash(th) ==
    /\ At(th, "cash") \/ (AtField(th, {"cash"}) /\ ~job[th].r.add)
    /\ SetOrRefuse(th, "cash", job[th].r.set.cash)
    /\ UNCHANGED <<disk, cookies, billing, alive, now, left, books, poll>>

(* The tariff: it must exist, and the one the user has must let the user   *)
(* go (TariffChangeIsAllowed; a prohibited change is only logged).         *)
CheckTariff(th) ==
    /\ AtField(th, {"tariffName"})
    /\ LET u == core.users[job[th].r.u]
           new == TariffFindByName(core, job[th].r.set.tariffName)
       IN \/ /\ new = Null
             /\ IF Lenient(th) THEN Advance(th) /\ UNCHANGED unsaved
                               ELSE Answer(th) /\ Half(th, job[th].r.u)
             /\ UNCHANGED alive
          \/ /\ new # Null /\ u.tariff = Null
             /\ alive' = FALSE
             /\ UNCHANGED <<job, unsaved>>
          \/ /\ new # Null /\ u.tariff # Null
             /\ \/ Goto(th, "tariff")
                \/ IF job[th].r.op = "Tariff" THEN Answer(th) ELSE Advance(th)
             /\ UNCHANGED <<alive, unsaved>>
    /\ UNCHANGED <<core, disk, cookies, billing, now, left, books, poll>>

(* The change; SetUser and chg_user_tariff also forget the next tariff. *)
SetTariff(th) ==
    /\ At(th, "tariff")
    /\ LET u == job[th].r.u
           v == job[th].r.set.tariffName
       IN IF Same(th, u, "tariffName", v)
          THEN Advance(th) /\ UNCHANGED <<core, unsaved>>
          ELSE \E priv \in PrivOf(job[th].adm) :
                 IF MaySet(priv, "tariffName")
                 THEN /\ core' = LET c == SetProp(core, u, "tariffName", v)
                                 IN IF Lenient(th) THEN c ELSE Assign(c, u, "nextTariff", "")
                      /\ Advance(th)
                      /\ UNCHANGED unsaved
                 ELSE UNCHANGED core /\ Refused(th) /\ Half(th, u)
    /\ UNCHANGED <<disk, cookies, billing, alive, now, left, books, poll>>

(* The next tariff must exist.  chg_user then stores the name of the       *)
(* current one in its place.                                               *)
SetNextTariff(th) ==
    /\ AtField(th, {"nextTariff"})
    /\ LET r == job[th].r
       IN IF TariffFindByName(core, r.set.nextTariff) = Null
          THEN /\ UNCHANGED core
               /\ IF Lenient(th) THEN Advance(th) /\ UNCHANGED unsaved
                                 ELSE Answer(th) /\ Half(th, r.u)
          ELSE IF Same(th, r.u, "nextTariff", r.set.nextTariff)
          THEN Advance(th) /\ UNCHANGED <<core, unsaved>>
          ELSE \E priv \in PrivOf(job[th].adm) :
                 IF MaySet(priv, "nextTariff")
                 THEN /\ core' = Assign(core, r.u, "nextTariff",
                                        IF Lenient(th) THEN r.set.tariffName ELSE r.set.nextTariff)
                      /\ Advance(th)
                      /\ UNCHANGED unsaved
                 ELSE UNCHANGED core /\ Refused(th) /\ Half(th, r.u)
    /\ UNCHANGED <<disk, cookies, billing, alive, now, left, books, poll>>

(* The month's traffic: read, changed in some directions, set. *)
SetTraffic(th) ==
    /\ AtField(th, {"up"})
    /\ SetOrRefuse(th, "up", job[th].r.set.up)
    /\ UNCHANGED <<disk, cookies, billing, alive, now, left, books, poll>>

(* Everything is set: WriteConf, then WriteStat, whose failures are only   *)
(* logged.  add_user_cash and set_user_cash write the statistics only,     *)
(* chg_user_tariff the configuration only.                                 *)
EndSet(th) ==
    /\ At(th, "set") /\ job[th].todo = <<>>
    /\ Goto(th, IF job[th].r.op = "Cash" THEN "stat" ELSE "conf")
    /\ UNCHANGED <<core, disk, cookies, billing, alive, now, left, unsaved, books, poll>>

SaveConf(th) ==
    /\ At(th, "conf")
    /\ \E ok \in BOOLEAN :
          /\ Stored(ok, TRUE)
          /\ disk' = IF ok THEN WriteConf(core, disk, job[th].r.u) ELSE disk
          /\ unsaved' = IF ok THEN unsaved \ {job[th].r.u} ELSE unsaved \cup {job[th].r.u}
    /\ IF job[th].r.op = "Tariff" THEN Answer(th) ELSE Goto(th, "stat")
    /\ UNCHANGED <<core, cookies, billing, alive, now, books, poll>>

SaveStat(th) ==
    /\ At(th, "stat")
    /\ \E ok \in BOOLEAN :
          /\ Stored(ok, TRUE)
          /\ disk' = IF ok THEN WriteStat(core, disk, job[th].r.u) ELSE disk
    /\ Answer(th)
    /\ UNCHANGED <<core, cookies, billing, alive, now, unsaved, books, poll>>

----------------------------------------------------------------------------
(* Adding and deleting a user (UsersImpl::Add, Del). *)

NewUser ==
    [ips |-> "any", alwaysOnline |-> 0, note |-> "", passive |-> 0, password |-> "",
     tariffName |-> NO_TARIFF_NAME, nextTariff |-> "", cash |-> 0, freeMb |-> 0, up |-> 0,
     tariff |-> Aside, mt |-> [f \in ConfProps \cup StatProps |-> now]]

AddUser(th) ==
    /\ At(th, "user") /\ job[th].r.op = "AddUser"
    /\ LET u == job[th].r.u
       IN \E priv \in PrivOf(job[th].adm), ok \in BOOLEAN :
            IF u \in DOMAIN core.users \/ "userAddDel" \notin priv
            THEN ok /\ UNCHANGED <<core, disk, left>>
            ELSE /\ Stored(ok, TRUE)
                 /\ IF ok
                    THEN /\ core' = [core EXCEPT !.users = [w \in DOMAIN @ \cup {u} |->
                                                              IF w = u THEN NewUser ELSE @[w]]]
                         /\ disk' = [disk EXCEPT
                              !.conf = [w \in DOMAIN @ \cup {u} |-> IF w = u THEN Part(core', u, ConfProps) ELSE @[w]],
                              !.stat = [w \in DOMAIN @ \cup {u} |-> IF w = u THEN Part(core', u, StatProps) ELSE @[w]]]
                    ELSE UNCHANGED <<core, disk>>
    /\ Answer(th)
    /\ UNCHANGED <<cookies, billing, alive, now, unsaved, books, poll>>

(* Del takes the user out of the indexes; DEL_USER and METHOD_USER_DEL     *)
(* answer "ok" whether Del was allowed or not.                             *)
DelUser(th) ==
    /\ At(th, "user") /\ job[th].r.op = "DelUser"
    /\ \E priv \in PrivOf(job[th].adm) :
          core' = IF job[th].r.u \in Known /\ "userAddDel" \in priv
                  THEN [core EXCEPT !.gone = @ \cup {job[th].r.u}] ELSE core
    /\ Answer(th)
    /\ UNCHANGED <<disk, cookies, billing, alive, now, left, unsaved, books, poll>>

(* UsersImpl::RealDelUser, minutes later: no thread uses the user by then. *)
RealDelUser ==
    /\ alive
    /\ \E u \in core.gone :
          /\ \A th \in Threads : job[th] = Idle
          /\ billing.u # u
          /\ core' = [core EXCEPT !.gone = @ \ {u},
                                  !.users = [w \in DOMAIN @ \ {u} |-> @[w]]]
          /\ disk' = [disk EXCEPT !.conf = [w \in DOMAIN @ \ {u} |-> @[w]],
                                  !.stat = [w \in DOMAIN @ \ {u} |-> @[w]]]
          /\ unsaved' = unsaved \ {u}
    /\ UNCHANGED <<job, cookies, billing, alive, now, left, books, poll>>

----------------------------------------------------------------------------
(* GetUsers with LastUpdate.  UserToXML reports the properties modified    *)
(* after that second; the answer carries the second of the answer, which   *)
(* the configurator sends the next time.                                   *)

UserToXML(u, lastTime) == {f \in ConfProps \cup StatProps : core.users[u].mt[f] > lastTime}

GetUsers ==
    /\ At("sg", "get")
    /\ poll' = [last |-> now, times |-> poll.times \cup {now},
                seen |-> [u \in Known |->
                            [f \in ConfProps \cup StatProps |->
                               IF f \in UserToXML(u, poll.last) \/ u \notin DOMAIN poll.seen
                               THEN core.users[u][f] ELSE poll.seen[u][f]]]]
    /\ Answer("sg")
    /\ UNCHANGED <<core, disk, cookies, billing, alive, now, left, unsaved, books>>

----------------------------------------------------------------------------
(* The users' thread.  UserImpl::ProcessDayFee reads the fee through the   *)
(* user's Tariff*, the cash, and sets the difference.                      *)

NoBilling == [u |-> "", cash |-> 0, fee |-> 0]

AnyTariff == [name : {""}, fee : {t.fee : t \in Start0.rows}, free : {0}]

ReadForFee ==
    /\ alive
    /\ billing = NoBilling
    /\ \E u \in Known :
          /\ core.users[u].tariff \notin {Null, Aside}
          /\ \E t \in Deref(core, "tariffs", core.users[u].tariff, AnyTariff) :
                /\ t.fee # 0
                /\ billing' = [u |-> u, cash |-> core.users[u].cash, fee |-> t.fee]
                /\ books' = [fee |-> t.fee,
                     due |-> IF IndexOf(core.tariffs, core.users[u].tariffName) = 0 THEN -1
                             ELSE core.tariffs[IndexOf(core.tariffs, core.users[u].tariffName)].fee]
    /\ Event("charge")
    /\ UNCHANGED <<core, disk, job, cookies, alive, now, unsaved, poll>>

ChargeFee ==
    /\ alive
    /\ billing # NoBilling
    /\ core' = Assign(core, billing.u, "cash", billing.cash - billing.fee)
    /\ billing' = NoBilling
    /\ UNCHANGED <<disk, job, cookies, alive, now, left, unsaved, books, poll>>

Tick ==
    /\ alive
    /\ Event("second")
    /\ now' = now + 1
    /\ UNCHANGED <<core, disk, job, cookies, billing, alive, unsaved, books, poll>>

(* A stop between requests and a start: the tables are read again, then    *)
(* the users, and a user whose tariff is unknown stops the start.          *)
RestoredUser(c, u) ==
    LET conf == disk.conf[u]
        stat == disk.stat[u]
    IN [f \in ConfProps \cup StatProps \cup {"tariff", "mt"} |->
          CASE f \in ConfProps -> conf[f]
            [] f \in StatProps -> stat[f]
            [] f = "tariff"    -> TariffFindByName(c, conf.tariffName)
            [] f = "mt"        -> [g \in ConfProps \cup StatProps |-> now]]

Restart ==
    /\ \A th \in Threads : job[th] = Idle \/ ~alive
    /\ billing = NoBilling
    /\ LET all(t) == SetToSeq(DOMAIN disk[t])
           c1 == ReadTariffs(core, disk, all("tariffs"), Len(all("tariffs")))
           c2 == ReadServices(c1, disk, all("services"), Len(all("services")))
           c3 == ReadCorps(c2, disk, all("corps"), Len(all("corps")))
           c4 == ReadAdmins(c3, disk, all("admins"), Len(all("admins")))
       IN /\ core' = [c4 EXCEPT !.users = [u \in DOMAIN disk.conf |-> RestoredUser(c4, u)],
                                !.gone = {}]
          /\ alive' = \A u \in DOMAIN disk.conf : TariffFindByName(c4, disk.conf[u].tariffName) # Null
    /\ job' = [th \in Threads |-> Idle]
    /\ cookies' = <<>>
    /\ unsaved' = {}
    /\ Event("restart")
    /\ UNCHANGED <<disk, billing, now, books, poll>>

----------------------------------------------------------------------------
Init ==
    /\ core = Start0.core
    /\ disk = Start0.disk
    /\ job = [th \in Threads |-> Idle]
    /\ cookies = <<>>
    /\ billing = NoBilling
    /\ alive = TRUE
    /\ now = 2
    /\ left = [requests |-> MaxRequests, events |-> MaxEvents, total |-> MaxTotal]
    /\ menu \in Menus
    /\ unsaved = {}
    /\ books = [fee |-> 0, due |-> 0]
    /\ poll = [last |-> 1, times |-> {}, seen |-> <<>>]

ThreadStep(th) ==
    \/ RowRequest(th) \/ CopyTariff(th) \/ ChgTariff(th) \/ CheckInUse(th) \/ DelTariff(th)
    \/ AddTariff(th) \/ AddTariffStore(th) \/ SetField(th) \/ ReadCash(th) \/ SetCash(th)
    \/ CheckTariff(th) \/ SetTariff(th) \/ SetNextTariff(th) \/ SetTraffic(th)
    \/ EndSet(th) \/ SaveConf(th) \/ SaveStat(th) \/ AddUser(th) \/ DelUser(th)

Next ==
    /\ \/ SgRequest \/ SgCheck \/ GetUsers
       \/ RpcRequest \/ RpcCheck \/ RpcFind \/ CheckAdmin \/ LogoutAdmin
       \/ \E th \in Threads : ThreadStep(th)
       \/ ReadForFee \/ ChargeFee \/ RealDelUser \/ Tick \/ Restart
    /\ UNCHANGED menu

Spec == Init /\ [][Next]_vars

----------------------------------------------------------------------------
Quiet == alive /\ \A th \in Threads : job[th] = Idle

(* Between requests the store has what the memory has, as long as it never *)
(* refused a call: the rows of services and corporations, and the same     *)
(* tariffs, although their operations ask the store in different orders    *)
(* and adding a tariff does so without the lock.                           *)
TablesAgree ==
    Quiet /\ left.events.fault = MaxEvents.fault =>
        /\ \A t \in {"services", "corps"} :
              {core[t][i] : i \in DOMAIN core[t]} = {disk[t][n] : n \in DOMAIN disk[t]}
        /\ Names(core.tariffs) = DOMAIN disk.tariffs

(* Between requests the stored configuration of a user is the one in       *)
(* memory, whatever two administrators changed at the same time through    *)
(* the two interfaces; only a request that sgconfig refused half way       *)
(* (parser_users.cpp:462) or a write the store refused leaves a user       *)
(* behind, and the next successful request saves that user too.            *)
SavedWhenQuiet ==
    Quiet => \A u \in Known \ unsaved : disk.conf[u] = Part(core, u, ConfProps)

(* What administrators changed is in memory and in the store alike         *)
(* (tariffs_impl.cpp, services_impl.cpp, corps_impl.cpp, parser_users.cpp, *)
(* user_helper.cpp).                                                       *)
ChangesAreKept == TablesAgree /\ SavedWhenQuiet

(* A configurator that polls GetUsers with the LastUpdate of the previous  *)
(* answer knows every property, but for those modified since and those     *)
(* modified in a second in which an answer was made: UserToXML compares    *)
(* whole seconds with ">".                                                 *)
PollMissesOnlySameSecond ==
    \A u \in Known \cap DOMAIN poll.seen : \A f \in ConfProps \cup StatProps :
        poll.seen[u][f] # core.users[u][f] =>
            core.users[u].mt[f] >= poll.last \/ core.users[u].mt[f] \in poll.times

(* The fee ProcessDayFee takes is that of the tariff the user has, also    *)
(* after administrators added and deleted other tariffs.                   *)
ChargedOwnTariff == books.fee = books.due

============================================================================
