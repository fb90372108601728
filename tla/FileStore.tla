------------------------------ MODULE FileStore ------------------------------
(***************************************************************************)
(* The file store.  A user is a directory with the files conf and stat,    *)
(* an administrator, a tariff and a service are one file each: a row       *)
(* stands for the file, a value of 0 for one that is empty or cut short.   *)
(* There is no transaction and no lock.  A configuration file is written   *)
(* beside the old one and renamed over it when the CONFIGFILE of the       *)
(* operation is destroyed (Flush), after the last chance to report an      *)
(* error; a file that cannot be unlinked is not reported either.  There    *)
(* are no corporations.                                                    *)
(***************************************************************************)
EXTENDS StoreData

Spent == 7   \* a message whose repeat count is negative

InDirOf(l) == {<<"users", l>>}

(* mkdir, which refuses a name in use, and Touch for conf and for stat.    *)
FiAddUser(l) == << New("users", l, NewUser), Ask, Ask >>
(* The directory is renamed into the one of the deleted users.             *)
FiDelUser(l) == << Ask, Need("users", l), Cascade("users", l) >>

FiSaveUserConf(l, c) ==
    << Flush("users", l, Whole, [conf |-> c.v, tariff |-> c.tariff, next |-> c.next,
                               corp |-> c.corp, svc |-> c.svc]) >>
FiSaveUserStat(l, s) == << Flush("users", l, Whole, [stat |-> s]) >>
FiSaveMonthStat(l, s, m) ==
    << Flush("months", l, [m |-> m, file |-> "stat2"], [m |-> m, file |-> "stat2", v |-> s]),
       Flush("months", l, [m |-> m, file |-> "stat"], [m |-> m, file |-> "stat", v |-> s]) >>

(* A blank password is refused; the copies .bak that ReadBak asks for are  *)
(* written by nobody.                                                      *)
FiRestoreUserConf(d, l) ==
    IF ~Has(d, "users", l) \/ (Has(d, "users", l) /\ Cols(d, "users", l).conf = 0) THEN Failed
    ELSE LET u == Cols(d, "users", l) IN
         [v |-> u.conf, tariff |-> u.tariff, next |-> u.next, corp |-> u.corp,
          svc |-> u.svc, data |-> {u.conf}, ips |-> {u.conf}]
FiRestoreUserStat(d, l) ==
    IF ~Has(d, "users", l) \/ (Has(d, "users", l) /\ Cols(d, "users", l).stat = 0) THEN Failed
    ELSE [cash |-> Cols(d, "users", l).stat, traff |-> Cols(d, "users", l).stat]

(* A connection is written to both logs of the user, a change to one.      *)
FiWriteLogString(l, e)     == << Row("connlog", l, [ev |-> e], InDirOf(l)) >>
FiWriteLog2String(l, e)    == << Row("connlog", l, [ev |-> e], InDirOf(l)) >>
FiWriteUserChgLog(l, a)    == FiWriteLogString(l, "chg")
FiWriteUserConnect(l)      == FiWriteLogString(l, "c") \o FiWriteLog2String(l, "c2")
FiWriteUserDisconnect(l)   == FiWriteLogString(l, "d") \o FiWriteLog2String(l, "d2")
(* The directories of the year and month, then one file for all nodes.     *)
FiWriteDetailedStat(l, ns) ==
    << Need("users", l), Ask >> \o ForEach(ns, LAMBDA n : Row("detail", l, [node |-> n], InDirOf(l)))

FiAddAdmin(n)        == << Touch("admins", n, NewAdmin) >>
FiDelAdmin(n)        == << Unlink("admins", n) >>
FiSaveAdmin(n, a)    == << Flush("admins", n, Whole, a) >>
FiRestoreAdmin(d, n) ==
    IF ~Has(d, "admins", n) \/ (Has(d, "admins", n) /\ Cols(d, "admins", n).v = 0) THEN Failed
    ELSE Cols(d, "admins", n)

FiAddTariff(n) == << Touch("tariffs", n, NewTariff) >>
FiDelTariff(n) == << Unlink("tariffs", n) >>
FiSaveTariffPerByte(n, t) == << Flush("tariffs", n, Whole, t) >>   \* mutant: no conversion to pt_mega
FiSaveTariff(n, t) ==
    << Flush("tariffs", n, Whole, [t EXCEPT !.day = @ * Mega, !.night = @ * Mega]) >>
FiRestoreTariff(d, n) ==
    IF ~Has(d, "tariffs", n) \/ (Has(d, "tariffs", n) /\ Cols(d, "tariffs", n).v = 0) THEN Failed
    ELSE [Cols(d, "tariffs", n) EXCEPT !.day = @ \div Mega, !.night = @ \div Mega]

FiAddService(n)     == << Touch("services", n, NewService) >>
FiDelService(n)     == << Unlink("services", n) >>
FiSaveService(n, s) == << Flush("services", n, Whole, s) >>
FiRestoreService(d, n) ==
    IF ~Has(d, "services", n) \/ (Has(d, "services", n) /\ Cols(d, "services", n).v = 0) THEN Failed
    ELSE Cols(d, "services", n)

(* EditMessage wants the file to be there, and writes it beside the old    *)
(* one (an error leaves the old one); AddMessage leaves an empty file for  *)
(* EditMessage to fill.                                                    *)
MessageThere(l, id)     == [do |-> "needat", t |-> "messages", k |-> l, at |-> [id |-> id]]
FiEditMessage(l, id, v) == << MessageThere(l, id), Ask, Set("messages", l, [id |-> id], [v |-> v]) >>
FiAddMessage(l, id, v)  ==
    << Row("messages", l, [id |-> id, v |-> 0], InDirOf(l)) >> \o FiEditMessage(l, id, v)
FiDelMessage(l, id)     == << MessageThere(l, id), Drop("messages", l, [id |-> id]) >>

FiReadMessage(d, l, id) ==
    LET vs == {c.v : c \in {c \in RowsOf(d, "messages", l) : c.id = id}}
    IN  IF vs = {} \/ 0 \in vs THEN Failed ELSE [v |-> CHOOSE v \in vs : TRUE]
FiGetMessage(d, l, id)  == FiReadMessage(d, l, id)
(* Listing removes the messages that are spent, and gives up at the first  *)
(* one that cannot be read.                                                *)
FiListMessages(l)       == << Drop("messages", l, [v |-> Spent]) >>
FiGetMessageHdrs(d, l)  ==
    IF \E c \in RowsOf(d, "messages", l) : c.v = 0 THEN Failed
    ELSE {c.id : c \in {c \in RowsOf(d, "messages", l) : c.v # Spent}}

FiGetFileList(d, t)  == {r.k : r \in d[t]}
FiGetUsersList(d)    == FiGetFileList(d, "users")
FiGetAdminsList(d)   == FiGetFileList(d, "admins")
FiGetTariffsList(d)  == FiGetFileList(d, "tariffs")
FiGetServicesList(d) == FiGetFileList(d, "services")
============================================================================
