------------------------------ MODULE SqlStores ------------------------------
(***************************************************************************)
(* The three stores that speak SQL: the statements of every operation of   *)
(* POSTGRESQL_STORE, MYSQL_STORE and FIREBIRD_STORE.                       *)
(***************************************************************************)
EXTENDS StoreData, TLC

(***************************************************************************)
(* The PostgreSQL store: the statements of every operation of              *)
(* POSTGRESQL_STORE, inside the transaction that Stores opens and closes.  *)
(* The escaping of strings (EscapeString) fails as any statement may.      *)
(* The stored procedures of inst/var/00-base-00.postgresql.sql are what    *)
(* their bodies do; the foreign keys of users cascade on tariffs and on    *)
(* corporations, the one of a user's services restricts.  full: the schema *)
(* has the columns of version 8 (policy of tariff changes).                *)
(***************************************************************************)
PgAddUser(l)  == << New("users", l, NewUser) >>
PgDelUser(l)  == << Cascade("users", l) >>

(* SaveStat: the row of the user, then sp_add_stats_traffic, which refuses *)
(* an unknown login and otherwise updates or inserts the row of the month. *)
PgSaveStat(l, s, m) ==
    << Set("users", l, Whole, [stat |-> s]), Need("users", l),
       Put("traffic", l, [m |-> m], [m |-> m, v |-> s]) >>
PgSaveUserStat(l, s, now) == PgSaveStat(l, s, now)
PgSaveMonthStat(l, s, m)  == PgSaveStat(l, s, m)

PgSaveUserServices(l, svcs) ==
    << Drop("svcs", l, Whole) >>
    \o ForEach(svcs, LAMBDA s : Row("svcs", l, [svc |-> s], {<<"services", s>>}))
PgSaveUserData(l, v) == << Put("data", l, Whole, [v |-> v]) >>
PgSaveUserIPs(l, v)  == << Drop("ips", l, Whole), Row("ips", l, [v |-> v], {<<"users", l>>}) >>
PgSaveUserConf(l, c) ==
    << Need("users", l),
       SetRefs(l, [conf |-> c.v, tariff |-> c.tariff, next |-> c.next, corp |-> c.corp]) >>
    \o PgSaveUserServices(l, c.svc) \o PgSaveUserData(l, c.v) \o PgSaveUserIPs(l, c.v)

(* Traffic is only restored from the rows of the current month.            *)
PgRestoreUserStat(d, l, now) ==
    IF ~Has(d, "users", l) THEN Failed
    ELSE [cash |-> Cols(d, "users", l).stat,
          traff |-> IF \E c \in RowsOf(d, "traffic", l) : c.m = now
                    THEN (CHOOSE c \in RowsOf(d, "traffic", l) : c.m = now).v ELSE 0]
PgRestoreUserConf(d, l) ==
    IF ~Has(d, "users", l) THEN Failed
    ELSE LET u == Cols(d, "users", l) IN
         [v |-> u.conf, tariff |-> u.tariff, next |-> u.next, corp |-> u.corp,
          svc |-> {c.svc : c \in RowsOf(d, "svcs", l)},
          data |-> {c.v : c \in RowsOf(d, "data", l)}, ips |-> {c.v : c \in RowsOf(d, "ips", l)}]

(* sp_add_param_log_entry wants both the user and the administrator.       *)
PgWriteUserChgLog(l, a)    == << Row("chglog", l, [admin |-> a], {<<"users", l>>, <<"admins", a>>}) >>
PgWriteUserConnect(l)      == << Row("connlog", l, [ev |-> "c"], {<<"users", l>>}) >>
PgWriteUserDisconnect(l)   == << Row("connlog", l, [ev |-> "d"], {<<"users", l>>}),
                                 Row("connlog", l, [ev |-> "data"], {<<"users", l>>}) >>
PgWriteDetailedStat(l, ns) ==
    ForEach(ns, LAMBDA n : Row("detail", l, [node |-> n], {<<"users", l>>}))

(* SaveAdmin and RestoreAdmin leave out the privileges on services and on  *)
(* corporations (x).                                                       *)
PgAddAdmin(n)        == << New("admins", n, NewAdmin) >>
PgDelAdmin(n)        == << Cascade("admins", n) >>
PgSaveAdmin(n, a)    == << Set("admins", n, Whole, [v |-> a.v]) >>
PgRestoreAdmin(d, n) == IF Has(d, "admins", n) THEN [v |-> Cols(d, "admins", n).v, x |-> 0] ELSE Failed

PgAddTariff(n) == << New("tariffs", n, NewTariff) >>
PgDelTariff(n) == << Cascade("tariffs", n) >>
PgSaveTariff(n, t, full) ==
    << Need("tariffs", n),
       Set("tariffs", n, Whole, IF full THEN [v |-> t.v, policy |-> t.policy, tmo |-> t.tmo]
                                      ELSE [v |-> t.v]),
       Set("tariffs", n, Whole, [day |-> t.day * Mega,
                               night |-> (IF t.single THEN t.day ELSE t.night) * Mega,
                               thr |-> IF t.nodisc THEN NoDiscount ELSE t.thr]) >>
PgRestoreTariff(d, n, full) ==
    IF ~Has(d, "tariffs", n) THEN Failed
    ELSE LET r == Cols(d, "tariffs", n) IN
         [v |-> r.v, day |-> r.day \div Mega, night |-> r.night \div Mega, single |-> r.day = r.night,
          thr |-> r.thr, nodisc |-> r.thr = NoDiscount,
          policy |-> IF full THEN r.policy ELSE 0, tmo |-> IF full THEN r.tmo ELSE 0]

(* RestoreService reads comment, cost and day of payment as words of one   *)
(* text: a blank comment takes the word of the cost, a comment of several  *)
(* words leaves no number where the cost is expected.                      *)
PgAddService(n)     == << New("services", n, NewService) >>
PgDelService(n)     == << DropFree("services", n) >>
PgSaveService(n, s) == << Set("services", n, Whole, s) >>
PgRestoreService(d, n) ==
    IF ~Has(d, "services", n) THEN Failed
    ELSE LET r == Cols(d, "services", n) IN
         CASE r.text = "word"  -> r
           [] r.text = "blank" -> [r EXCEPT !.text = "number", !.cost = r.day, !.day = 0]
           [] OTHER            -> [r EXCEPT !.text = "word", !.cost = 0, !.day = 0]

PgAddCorp(n)     == << New("corps", n, NewCorp) >>
PgDelCorp(n)     == << Cascade("corps", n) >>
PgSaveCorp(n, v) == << Set("corps", n, Whole, [v |-> v]) >>
PgRestoreCorp(d, n) == IF Has(d, "corps", n) THEN Cols(d, "corps", n) ELSE Failed

PgAddMessage(l, id, v)  == << Row("messages", l, [id |-> id, v |-> v], {<<"users", l>>}) >>
PgEditMessage(l, id, v) == << Set("messages", l, [id |-> id], [v |-> v]) >>
PgDelMessage(l, id)     == << Drop("messages", l, [id |-> id]) >>
PgGetMessage(d, l, id)  == IF \E c \in RowsOf(d, "messages", l) : c.id = id
                           THEN [v |-> (CHOOSE c \in RowsOf(d, "messages", l) : c.id = id).v] ELSE Failed
PgGetMessageHdrs(d, l)  == {c.id : c \in RowsOf(d, "messages", l)}

PgGetUsersList(d)    == {r.k : r \in d["users"]}
PgGetAdminsList(d)   == {r.k : r \in d["admins"]}
PgGetTariffsList(d)  == {r.k : r \in d["tariffs"]}
PgGetServicesList(d) == {r.k : r \in d["services"]}
PgGetCorpsList(d)    == {r.k : r \in d["corps"]}

-----------------------------------------------------------------------------
(***************************************************************************)
(* The MySQL store.  There is no transaction and no lock: every statement  *)
(* takes effect at once, on a connection of its own.  Many operations      *)
(* print their statement into one static buffer, qbuf, and pass the buffer *)
(* to MysqlQuery: Format and Exec are those two moments, and between them  *)
(* another thread may print its own statement.  The tables have no foreign *)
(* keys, and there are none for services and corporations.                 *)
(***************************************************************************)
Format(s) == [do |-> "format", stmt |-> s, t |-> "users", k |-> None, at |-> Whole]
Exec      == [do |-> "exec", t |-> "users", k |-> None, at |-> Whole]
InQbuf(s) == << Format(s), Exec >>

MyAddUser(l)         == << New("users", l, NewUser) >>
MyDelUser(l)         == InQbuf(Drop("users", l, Whole))
MySaveUserStat(l, s) == << Set("users", l, Whole, [stat |-> s]) >>
MySaveUserConf(l, c) == << Set("users", l, Whole,
                               [conf |-> c.v, tariff |-> c.tariff, next |-> c.next]) >>
MySaveMonthStat(l, s, m) == << Row("months", l, [m |-> m, v |-> s], {}) >>

(* A user whose tariff is blank, as AddUser leaves it, is not restored.    *)
MyRestoreUserConf(d, l) ==
    IF ~Has(d, "users", l) \/ (Has(d, "users", l) /\ Cols(d, "users", l).conf = 0) THEN Failed
    ELSE LET u == Cols(d, "users", l) IN
         [v |-> u.conf, tariff |-> u.tariff, next |-> u.next, corp |-> None,
          svc |-> {}, data |-> {u.conf}, ips |-> {u.conf}]
MyRestoreUserStat(d, l) ==
    IF Has(d, "users", l)
    THEN [cash |-> Cols(d, "users", l).stat, traff |-> Cols(d, "users", l).stat] ELSE Failed

(* The first entry of a month creates the table of that month.             *)
CreateTable(first)            == IF first THEN InQbuf(Ask) ELSE <<>>
MyWriteLogString(l, e, first) == CreateTable(first) \o << Row("connlog", l, [ev |-> e], {}) >>
MyWriteUserChgLog(l, first)     == MyWriteLogString(l, "chg", first)
MyWriteUserConnect(l, first)    == MyWriteLogString(l, "c", first)
MyWriteUserDisconnect(l, first) == MyWriteLogString(l, "d", first)
MyWriteDetailedStat(l, ns, first) ==
    CreateTable(first) \o ForEach(ns, LAMBDA n : Row("detail", l, [node |-> n], {}))

MyAddAdmin(n)        == InQbuf(New("admins", n, NewAdmin))
MyDelAdmin(n)        == InQbuf(Drop("admins", n, Whole))
MySaveAdmin(n, a)    == InQbuf(Set("admins", n, Whole, [v |-> a.v]))
MyRestoreAdmin(d, n) == IF Has(d, "admins", n) THEN [v |-> Cols(d, "admins", n).v, x |-> 0] ELSE Failed

(* SaveTariff writes the policy where the time limit of the policy belongs.*)
MyAddTariff(n) == InQbuf(New("tariffs", n, NewTariff))
MyDelTariff(n) == InQbuf(Drop("tariffs", n, Whole))
MySaveTariff(n, t, full) ==
    LET plain == [v |-> t.v, day |-> t.day * Mega, night |-> t.night * Mega, thr |-> t.thr,
                  single |-> t.single, nodisc |-> t.nodisc]
    IN  << Set("tariffs", n, Whole,
               IF full THEN plain @@ [policy |-> t.policy, tmo |-> t.policy] ELSE plain) >>
MyRestoreTariff(d, n, full) ==
    IF ~Has(d, "tariffs", n) THEN Failed
    ELSE LET r == Cols(d, "tariffs", n) IN
         [v |-> r.v, day |-> r.day \div Mega, night |-> r.night \div Mega, single |-> r.single,
          thr |-> r.thr, nodisc |-> r.nodisc,
          policy |-> IF full THEN r.policy ELSE 0, tmo |-> IF full THEN r.tmo ELSE 0]

(* AddMessage inserts an empty row and lets EditMessage fill it.           *)
MyEditMessage(l, id, v) == << Set("messages", l, [id |-> id], [v |-> v]) >>
MyAddMessage(l, id, v)  == InQbuf(Row("messages", l, [id |-> id, v |-> 0], {})) \o MyEditMessage(l, id, v)
MyDelMessage(l, id)     == InQbuf(Drop("messages", l, [id |-> id]))
MyGetMessage(d, l, id)  == IF \E c \in RowsOf(d, "messages", l) : c.id = id
                           THEN [v |-> (CHOOSE c \in RowsOf(d, "messages", l) : c.id = id).v] ELSE Failed
MyGetMessageHdrs(d, l)  == {c.id : c \in RowsOf(d, "messages", l)}

(* GetUsersList, GetAdminsList and GetTariffsList.                         *)
MyGetAllParams(d, t) == {r.k : r \in d[t]}

(* The version of the schema: info is the one kept in the database, ver    *)
(* the one the server works with, cols whether the columns of version 2    *)
(* are there.  A start that creates the tables writes version 1 and goes   *)
(* on with version 2; a later start finds version 1, fails to add columns  *)
(* that exist, and ignores that failure.                                   *)
MyCheckAllTables(s, create) ==
    IF create THEN [s EXCEPT !.info = 1, !.ver = 2, !.cols = TRUE] ELSE [s EXCEPT !.ver = s.info]
MyMakeUpdates(s) ==
    IF s.ver < 2 /\ ~s.cols THEN [s EXCEPT !.info = 2, !.ver = 2, !.cols = TRUE] ELSE s
MyParseSettings(s, create) == MyMakeUpdates(MyCheckAllTables(s, create))

-----------------------------------------------------------------------------
(***************************************************************************)
(* The Firebird store: the statements of every operation of                *)
(* FIREBIRD_STORE, inside the IBPP transaction that Stores opens and       *)
(* closes.  The stored procedures of inst/var/00-base-00.sql are what      *)
(* their bodies do; every foreign key restricts.  The balance of a user is *)
(* kept in rows dated by month, the latest of which is the current one.    *)
(***************************************************************************)
OfUser(l) == {<<"users", l>>}

(* sp_add_user: the user, and a row of statistics dated today.             *)
FbAddUser(l, now) == << New("users", l, NewUser), Row("stats", l, [m |-> now, v |-> 0], OfUser(l)) >>
FbDelUser(l)      == << Cascade("users", l) >>

(* SaveStat writes the latest row, its date included.                      *)
FbSaveStat(l, s, m)        == << Need("users", l), SetLast(l, [m |-> m, v |-> s]) >>
FbSaveUserStat(l, s, now)  == FbSaveStat(l, s, now)

(* SaveMonthStat closes the row of the month in one transaction, and opens *)
(* a row of zeroes dated today in a second one.                            *)
FbSaveMonthStat(l, s, m, now) ==
    FbSaveStat(l, s, m)
    \o << CommitHere, Row("stats", l, [m |-> now, v |-> 0], OfUser(l)) >>

FbSaveUserConf(l, c) ==
    << Need("users", l),
       SetRefs(l, [conf |-> c.v, tariff |-> c.tariff, next |-> c.next, corp |-> c.corp]),
       Drop("svcs", l, Whole) >>
    \o ForEach(c.svc, LAMBDA s : Row("svcs", l, [svc |-> s], {<<"services", s>>}))
    \o << Drop("data", l, Whole), Row("data", l, [v |-> c.v], {}),
          Drop("ips", l, Whole), Row("ips", l, [v |-> c.v], {}) >>

FbRestoreUserStat(d, l) ==
    IF RowsOf(d, "stats", l) = {} THEN Failed
    ELSE [cash |-> Latest(d, l).v, traff |-> Latest(d, l).v]
FbRestoreUserConf(d, l) ==
    IF ~Has(d, "users", l) THEN Failed
    ELSE LET u == Cols(d, "users", l) IN
         [v |-> u.conf, tariff |-> u.tariff, next |-> u.next, corp |-> u.corp,
          svc |-> {c.svc : c \in RowsOf(d, "svcs", l)},
          data |-> {c.v : c \in RowsOf(d, "data", l)}, ips |-> {c.v : c \in RowsOf(d, "ips", l)}]

(* The administrator is text in the comment.  WriteUserConnect prepares    *)
(* its statement and never executes it.                                    *)
FbWriteUserChgLog(l, a)    == << Row("chglog", l, [admin |-> a], OfUser(l)) >>
FbWriteUserConnect(l)      == << Ask >>
FbWriteUserDisconnect(l)   == << Row("connlog", l, [ev |-> "d"], OfUser(l)),
                                 Row("connlog", l, [ev |-> "data"], {}) >>
FbWriteDetailedStat(l, ns) == ForEach(ns, LAMBDA n : Row("detail", l, [node |-> n], OfUser(l)))

FbAddAdmin(n)        == << New("admins", n, NewAdmin) >>
FbDelAdmin(n)        == << Drop("admins", n, Whole) >>
FbSaveAdmin(n, a)    == << Set("admins", n, Whole, [v |-> a.v]) >>
FbRestoreAdmin(d, n) == IF Has(d, "admins", n) THEN [v |-> Cols(d, "admins", n).v, x |-> 0] ELSE Failed

(* The day prices are stored per megabyte, the night prices as they are.   *)
FbAddTariff(n) == << New("tariffs", n, NewTariff) >>
FbDelTariff(n) == << DropFree("tariffs", n) >>
FbSaveTariff(n, t, full) ==
    << Need("tariffs", n),
       Set("tariffs", n, Whole, IF full THEN [v |-> t.v, policy |-> t.policy, tmo |-> t.tmo]
                                      ELSE [v |-> t.v]),
       Set("tariffs", n, Whole, [day |-> t.day * Mega,
                               night |-> IF t.single THEN t.day * Mega ELSE t.night,
                               thr |-> IF t.nodisc THEN NoDiscount ELSE t.thr]) >>
FbRestoreTariff(d, n, full) ==
    IF ~Has(d, "tariffs", n) THEN Failed
    ELSE LET r == Cols(d, "tariffs", n) IN
         [v |-> r.v, day |-> r.day \div Mega, night |-> r.night \div Mega, single |-> r.day = r.night,
          thr |-> r.thr, nodisc |-> r.thr = NoDiscount,
          policy |-> IF full THEN r.policy ELSE 0, tmo |-> IF full THEN r.tmo ELSE 0]

(* The statements of SaveService, SaveCorp, AddCorp and EditMessage do not *)
(* fit the tables and are always refused.                                  *)
FbAddService(n)     == << New("services", n, NewService) >>
FbDelService(n)     == << Cascade("services", n) >>
FbSaveService(n, s) == << Never >>
FbRestoreService(d, n) == IF Has(d, "services", n) THEN Cols(d, "services", n) ELSE Failed

FbAddCorp(n)     == << Never >>
FbDelCorp(n)     == << DropFree("corps", n) >>
FbSaveCorp(n, v) == << Never >>
FbRestoreCorp(d, n) == IF Has(d, "corps", n) THEN Cols(d, "corps", n) ELSE Failed

FbAddMessage(l, id, v)  == << Row("messages", l, [id |-> id, v |-> v], OfUser(l)) >>
FbEditMessage(l, id, v) == << Never >>
FbDelMessage(l, id)     == << Drop("messages", l, [id |-> id]) >>
FbGetMessage(d, l, id)  == IF \E c \in RowsOf(d, "messages", l) : c.id = id
                           THEN [v |-> (CHOOSE c \in RowsOf(d, "messages", l) : c.id = id).v] ELSE Failed
FbGetMessageHdrs(d, l)  == {c.id : c \in RowsOf(d, "messages", l)}

FbGetUsersList(d)    == {r.k : r \in d["users"]}
FbGetAdminsList(d)   == {r.k : r \in d["admins"]}
FbGetTariffsList(d)  == {r.k : r \in d["tariffs"]}
FbGetServicesList(d) == {r.k : r \in d["services"]}
FbGetCorpsList(d)    == {r.k : r \in d["corps"]}
=============================================================================
