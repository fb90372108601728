------------------------------- MODULE Stores -------------------------------
(***************************************************************************)
(* The stores at work.  Threads of the server (the main loop, the          *)
(* configuration plugins) call operations of STG::Store; the store the     *)
(* server was configured with (backend) carries their statements out.      *)
(*                                                                         *)
(*  - PostgreSQL and Firebird: one mutex around an operation, one          *)
(*    transaction per operation.  A connection may be lost at any moment;  *)
(*    PostgreSQL reconnects at the start of the next operation.            *)
(*  - MySQL: no mutex, no transaction, a connection per statement, and the *)
(*    static buffer qbuf.                                                  *)
(*  - files: no mutex, no transaction; writes fail without a report.       *)
(*                                                                         *)
(* kept is what the callers may rely on: the values whose saving was       *)
(* acknowledged, until somebody saves or deletes the same object again.    *)
(***************************************************************************)
EXTENDS SqlStores, FileStore, SequencesExt

CONSTANTS
    Threads, MsgIds, Nodes,
    MaxCalls,     \* bound on the operations started
    MaxFaults,    \* bound on faults: refused statements, lost connections, crashes
    MaxMonth      \* bound on the month

VARIABLES
    backend,   \* "pg", "my", "fb" or "fi": store_module of stargazer.conf
    db,        \* the tables
    work,      \* the tables as the open transaction sees them
    up,        \* the connection of pg and fb
    now,       \* the month
    sc,        \* the schema: its version, and whether this month's log table exists
    qbuf,      \* the static buffer of the MySQL store
    call,      \* the operation each thread is in
    calls, faults,
    kept

vars == <<backend, db, work, up, now, sc, qbuf, call, calls, faults, kept>>

Idle == [st |-> "idle"]
Busy(t) == call[t].st # "idle"
Tx   == backend \in {"pg", "fb"}

----------------------------------------------------------------------------
(* The statements of an operation o = [f, k, v, n]; the rest are reads.    *)
PgProgram(o, m, s) ==
    CASE o.f = "AddUser"              -> PgAddUser(o.k)
      [] o.f = "DelUser"              -> PgDelUser(o.k)
      [] o.f = "SaveUserStat"         -> PgSaveUserStat(o.k, o.v.s, m)
      [] o.f = "SaveUserConf"         -> PgSaveUserConf(o.k, o.v)
      [] o.f = "SaveMonthStat"        -> PgSaveMonthStat(o.k, o.v.s, m - 1)
      [] o.f = "WriteUserChgLog"      -> PgWriteUserChgLog(o.k, o.v.a)
      [] o.f = "WriteUserConnect"     -> PgWriteUserConnect(o.k)
      [] o.f = "WriteUserDisconnect"  -> PgWriteUserDisconnect(o.k)
      [] o.f = "WriteDetailedStat"    -> PgWriteDetailedStat(o.k, o.v.ns)
      [] o.f = "AddAdmin"             -> PgAddAdmin(o.k)
      [] o.f = "DelAdmin"             -> PgDelAdmin(o.k)
      [] o.f = "SaveAdmin"            -> PgSaveAdmin(o.k, o.v)
      [] o.f = "AddTariff"            -> PgAddTariff(o.k)
      [] o.f = "DelTariff"            -> PgDelTariff(o.k)
      [] o.f = "SaveTariff"           -> PgSaveTariff(o.k, o.v, s.full)
      [] o.f = "AddService"           -> PgAddService(o.k)
      [] o.f = "DelService"           -> PgDelService(o.k)
      [] o.f = "SaveService"          -> PgSaveService(o.k, o.v)
      [] o.f = "AddCorp"              -> PgAddCorp(o.k)
      [] o.f = "DelCorp"              -> PgDelCorp(o.k)
      [] o.f = "SaveCorp"             -> PgSaveCorp(o.k, o.v.v)
      [] o.f = "AddMessage"           -> PgAddMessage(o.k, o.n, o.v.v)
      [] o.f = "EditMessage"          -> PgEditMessage(o.k, o.n, o.v.v)
      [] o.f = "DelMessage"           -> PgDelMessage(o.k, o.n)
      [] OTHER                    -> << Ask >>
MyProgram(o, m, s) ==
    CASE o.f = "AddUser"              -> MyAddUser(o.k)
      [] o.f = "DelUser"              -> MyDelUser(o.k)
      [] o.f = "SaveUserStat"         -> MySaveUserStat(o.k, o.v.s)
      [] o.f = "SaveUserConf"         -> MySaveUserConf(o.k, o.v)
      [] o.f = "SaveMonthStat"        -> MySaveMonthStat(o.k, o.v.s, m - 1)
      [] o.f = "WriteUserChgLog"      -> MyWriteUserChgLog(o.k, ~s.log)
      [] o.f = "WriteUserConnect"     -> MyWriteUserConnect(o.k, ~s.log)
      [] o.f = "WriteUserDisconnect"  -> MyWriteUserDisconnect(o.k, ~s.log)
      [] o.f = "WriteDetailedStat"    -> MyWriteDetailedStat(o.k, o.v.ns, ~s.log)
      [] o.f = "AddAdmin"             -> MyAddAdmin(o.k)
      [] o.f = "DelAdmin"             -> MyDelAdmin(o.k)
      [] o.f = "SaveAdmin"            -> MySaveAdmin(o.k, o.v)
      [] o.f = "AddTariff"            -> MyAddTariff(o.k)
      [] o.f = "DelTariff"            -> MyDelTariff(o.k)
      [] o.f = "SaveTariff"           -> MySaveTariff(o.k, o.v, s.ver >= 2)
      [] o.f = "AddMessage"           -> MyAddMessage(o.k, o.n, o.v.v)
      [] o.f = "EditMessage"          -> MyEditMessage(o.k, o.n, o.v.v)
      [] o.f = "DelMessage"           -> MyDelMessage(o.k, o.n)
      [] o.f = "Read"                  -> InQbuf(Ask)
      [] OTHER                    -> <<>>
FbProgram(o, m, s) ==
    CASE o.f = "AddUser"              -> FbAddUser(o.k, m)
      [] o.f = "DelUser"              -> FbDelUser(o.k)
      [] o.f = "SaveUserStat"         -> FbSaveUserStat(o.k, o.v.s, m)
      [] o.f = "SaveUserConf"         -> FbSaveUserConf(o.k, o.v)
      [] o.f = "SaveMonthStat"        -> FbSaveMonthStat(o.k, o.v.s, m - 1, m)
      [] o.f = "WriteUserChgLog"      -> FbWriteUserChgLog(o.k, o.v.a)
      [] o.f = "WriteUserConnect"     -> FbWriteUserConnect(o.k)
      [] o.f = "WriteUserDisconnect"  -> FbWriteUserDisconnect(o.k)
      [] o.f = "WriteDetailedStat"    -> FbWriteDetailedStat(o.k, o.v.ns)
      [] o.f = "AddAdmin"             -> FbAddAdmin(o.k)
      [] o.f = "DelAdmin"             -> FbDelAdmin(o.k)
      [] o.f = "SaveAdmin"            -> FbSaveAdmin(o.k, o.v)
      [] o.f = "AddTariff"            -> FbAddTariff(o.k)
      [] o.f = "DelTariff"            -> FbDelTariff(o.k)
      [] o.f = "SaveTariff"           -> FbSaveTariff(o.k, o.v, s.full)
      [] o.f = "AddService"           -> FbAddService(o.k)
      [] o.f = "DelService"           -> FbDelService(o.k)
      [] o.f = "SaveService"          -> FbSaveService(o.k, o.v)
      [] o.f = "AddCorp"              -> FbAddCorp(o.k)
      [] o.f = "DelCorp"              -> FbDelCorp(o.k)
      [] o.f = "SaveCorp"             -> FbSaveCorp(o.k, o.v.v)
      [] o.f = "AddMessage"           -> FbAddMessage(o.k, o.n, o.v.v)
      [] o.f = "EditMessage"          -> FbEditMessage(o.k, o.n, o.v.v)
      [] o.f = "DelMessage"           -> FbDelMessage(o.k, o.n)
      [] OTHER                    -> << Ask >>
FiProgram(o, m, s) ==
    CASE o.f = "AddUser"              -> FiAddUser(o.k)
      [] o.f = "DelUser"              -> FiDelUser(o.k)
      [] o.f = "SaveUserStat"         -> FiSaveUserStat(o.k, o.v.s)
      [] o.f = "SaveUserConf"         -> FiSaveUserConf(o.k, o.v)
      [] o.f = "SaveMonthStat"        -> FiSaveMonthStat(o.k, o.v.s, m - 1)
      [] o.f = "WriteUserChgLog"      -> FiWriteUserChgLog(o.k, o.v.a)
      [] o.f = "WriteUserConnect"     -> FiWriteUserConnect(o.k)
      [] o.f = "WriteUserDisconnect"  -> FiWriteUserDisconnect(o.k)
      [] o.f = "WriteDetailedStat"    -> FiWriteDetailedStat(o.k, o.v.ns)
      [] o.f = "AddAdmin"             -> FiAddAdmin(o.k)
      [] o.f = "DelAdmin"             -> FiDelAdmin(o.k)
      [] o.f = "SaveAdmin"            -> FiSaveAdmin(o.k, o.v)
      [] o.f = "AddTariff"            -> FiAddTariff(o.k)
      [] o.f = "DelTariff"            -> FiDelTariff(o.k)
      [] o.f = "SaveTariff"           -> FiSaveTariff(o.k, o.v)
      [] o.f = "AddService"           -> FiAddService(o.k)
      [] o.f = "DelService"           -> FiDelService(o.k)
      [] o.f = "SaveService"          -> FiSaveService(o.k, o.v)
      [] o.f = "AddMessage"           -> FiAddMessage(o.k, o.n, o.v.v)
      [] o.f = "EditMessage"          -> FiEditMessage(o.k, o.n, o.v.v)
      [] o.f = "DelMessage"           -> FiDelMessage(o.k, o.n)
      [] o.f = "Read"                 -> FiListMessages(o.k)
      [] OTHER                    -> <<>>
Program(b, o, m, s) ==
    CASE b = "pg" -> PgProgram(o, m, s) [] b = "my" -> MyProgram(o, m, s)
      [] b = "fb" -> FbProgram(o, m, s) [] b = "fi" -> FiProgram(o, m, s)

(* What a restart reads back of object k of kind t.                        *)
Restored(b, d, t, k, m, s) ==
    CASE t = "conf" -> (CASE b = "pg" -> PgRestoreUserConf(d, k) [] b = "my" -> MyRestoreUserConf(d, k)
                          [] b = "fb" -> FbRestoreUserConf(d, k) [] b = "fi" -> FiRestoreUserConf(d, k))
      [] t = "stat" -> (CASE b = "pg" -> PgRestoreUserStat(d, k, m) [] b = "my" -> MyRestoreUserStat(d, k)
                          [] b = "fb" -> FbRestoreUserStat(d, k) [] b = "fi" -> FiRestoreUserStat(d, k))
      [] t = "admins" -> (CASE b = "pg" -> PgRestoreAdmin(d, k) [] b = "my" -> MyRestoreAdmin(d, k)
                            [] b = "fb" -> FbRestoreAdmin(d, k) [] b = "fi" -> FiRestoreAdmin(d, k))
      [] t = "tariffs" -> (CASE b = "pg" -> PgRestoreTariff(d, k, s.full)
                             [] b = "my" -> MyRestoreTariff(d, k, s.ver >= 2)
                             [] b = "fb" -> FbRestoreTariff(d, k, s.full) [] b = "fi" -> FiRestoreTariff(d, k))
      [] t = "services" -> (CASE b = "pg" -> PgRestoreService(d, k) [] b = "fb" -> FbRestoreService(d, k)
                              [] b = "fi" -> FiRestoreService(d, k))
      [] t = "corps" -> (CASE b = "pg" -> PgRestoreCorp(d, k) [] b = "fb" -> FbRestoreCorp(d, k))

Message(b, d, l, id) ==
    CASE b = "pg" -> PgGetMessage(d, l, id) [] b = "my" -> MyGetMessage(d, l, id)
      [] b = "fb" -> FbGetMessage(d, l, id) [] b = "fi" -> FiGetMessage(d, l, id)

(* A whole program, for a database that accepts all of it; what is printed *)
(* into qbuf is executed.                                                  *)
RunAll(prog, d) ==
    FoldLeft(LAMBDA acc, s : IF s.do = "format" THEN Apply(s.stmt, acc) ELSE Apply(s, acc), d, prog)

(* The operations, and what they may be called with.                       *)
Nil == [nil |-> 0]
Op(f, k, v, n) == [f |-> f, k |-> k, v |-> v, n |-> n]
Ops ==
    {Op(f, l, Nil, 0) : f \in {"AddUser", "DelUser", "WriteUserConnect", "WriteUserDisconnect", "Read"},
                      l \in Logins}
    \cup {Op(f, l, [s |-> s], 0) : f \in {"SaveUserStat", "SaveMonthStat"}, l \in Logins, s \in Stats}
    \cup {Op("SaveUserConf", l, c, 0) : l \in Logins, c \in Confs}
    \cup {Op("WriteUserChgLog", l, [a |-> a], 0) : l \in Logins, a \in AdminNames}
    \cup {Op("WriteDetailedStat", l, [ns |-> Nodes], 0) : l \in Logins}
    \cup {Op(f, a, Nil, 0) : f \in {"AddAdmin", "DelAdmin"}, a \in AdminNames}
    \cup {Op("SaveAdmin", a, c, 0) : a \in AdminNames, c \in AdminConfs}
    \cup {Op(f, t, Nil, 0) : f \in {"AddTariff", "DelTariff"}, t \in TariffNames}
    \cup {Op("SaveTariff", t, c, 0) : t \in TariffNames, c \in TariffDatas}
    \cup {Op(f, x, Nil, 0) : f \in {"AddService", "DelService"}, x \in ServiceNames}
    \cup {Op("SaveService", x, c, 0) : x \in ServiceNames, c \in ServiceConfs}
    \cup {Op(f, x, Nil, 0) : f \in {"AddCorp", "DelCorp"}, x \in CorpNames}
    \cup {Op("SaveCorp", x, [v |-> 1], 0) : x \in CorpNames}
    \cup {Op(f, l, [v |-> v], i) : f \in {"AddMessage", "EditMessage"}, l \in Logins, v \in {1, Spent}, i \in MsgIds}
    \cup {Op("DelMessage", l, Nil, i) : l \in Logins, i \in MsgIds}

Kind(f) ==
    CASE f \in {"SaveUserConf"}                               -> "conf"
      [] f \in {"SaveUserStat", "SaveMonthStat"}              -> "stat"
      [] f \in {"SaveAdmin", "DelAdmin", "AddAdmin"}          -> "admins"
      [] f \in {"SaveTariff", "DelTariff", "AddTariff"}       -> "tariffs"
      [] f \in {"SaveService", "DelService", "AddService"}    -> "services"
      [] f \in {"SaveCorp", "DelCorp", "AddCorp"}             -> "corps"
      [] f \in {"AddMessage", "EditMessage", "DelMessage"}    -> "msg"
      [] OTHER                                                -> "none"

OfUsers(ls) == {"conf", "stat"} \X ls \cup {"msg"} \X (ls \X MsgIds)

(* The objects operation o is entitled to change.  In PostgreSQL the       *)
(* users that refer to a tariff or a corporation go with it; in Firebird a *)
(* service leaves its subscribers, and the close of a month leaves the     *)
(* balance at zero until the user is saved again.                          *)
Touched(b, o, d) ==
    CASE o.f = "DelUser" -> OfUsers({o.k})
      [] o.f \in {"DelTariff", "DelCorp"} ->
            {<<Kind(o.f), o.k>>} \cup
            (IF b = "pg" THEN OfUsers({r.k : r \in {x \in d["users"] : o.k \in Refs("users", x, Kind(o.f))}})
             ELSE {})
      [] o.f = "DelService" ->
            {<<"services", o.k>>} \cup
            (IF b = "fb" THEN {<<"conf", r.k>> : r \in {x \in d["svcs"] : x.c.svc = o.k}} ELSE {})
      [] o.f = "SaveMonthStat" -> IF b = "fb" THEN {<<"stat", o.k>>} ELSE {}
      [] Kind(o.f) = "msg"     -> {<<"msg", <<o.k, o.n>>>>}
      [] o.f = "Read"          -> IF b = "fi" THEN {<<"msg", <<o.k, i>>>> : i \in MsgIds} ELSE {}
      [] Kind(o.f) = "none" \/ o.f \in {"AddAdmin", "AddTariff", "AddService", "AddCorp"} -> {}
      [] OTHER                 -> {<<Kind(o.f), o.k>>}

(* What an acknowledged operation lets its caller rely on.                 *)
Promise(b, o, d, m) ==
    CASE o.f \in {"SaveUserConf", "SaveUserStat"} /\ Has(d, "users", o.k) ->
            {[t |-> Kind(o.f), k |-> o.k, v |-> o.v, m |-> m]}
      [] o.f \in {"SaveAdmin", "SaveTariff", "SaveService"} /\ Has(d, Kind(o.f), o.k) ->
            {[t |-> Kind(o.f), k |-> o.k, v |-> o.v, m |-> m]}
      [] o.f = "SaveCorp" /\ Has(d, "corps", o.k) -> {[t |-> "corps", k |-> o.k, v |-> o.v, m |-> m]}
      [] o.f \in {"AddMessage", "EditMessage"} /\ Message(b, d, o.k, o.n) # Failed ->
            {[t |-> "msg", k |-> <<o.k, o.n>>, v |-> o.v, m |-> m]}
      [] OTHER -> {}

----------------------------------------------------------------------------
Schemas(b) ==
    LET s0 == [info |-> 0, ver |-> 0, cols |-> FALSE, log |-> FALSE, full |-> FALSE] IN
    CASE b = "my" -> {MyParseSettings(s0, TRUE), MyParseSettings(s0, FALSE)}
      [] b = "fi" -> {s0}
      [] OTHER    -> {s0, [s0 EXCEPT !.full = TRUE]}

(* A database somebody has worked with: every object added and saved.      *)
Populated(b, s) ==
    LET adds == {Op("AddUser", l, Nil, 0) : l \in Logins} \cup {Op("AddAdmin", a, Nil, 0) : a \in AdminNames}
                \cup {Op("AddTariff", t, Nil, 0) : t \in TariffNames}
                \cup {Op("AddService", x, Nil, 0) : x \in ServiceNames}
                \cup {Op("AddCorp", x, Nil, 0) : x \in CorpNames}
        base == CHOOSE c \in Confs : c.v = 1
        saves == {Op("SaveUserConf", l, base, 0) : l \in Logins}
                 \cup {Op("SaveUserStat", l, [s |-> 1], 0) : l \in Logins}
                 \cup {Op("SaveTariff", t, CHOOSE c \in TariffDatas : c.v = 1, 0) : t \in TariffNames}
        done(o) == LET p == Program(b, o, 1, s)
                   IN  IF p # <<>> /\ p[1].do # "never" THEN p ELSE <<>>
        all(S) == FlattenSeq([i \in 1..Cardinality(S) |-> done(SetToSeq(S)[i])])
    IN  RunAll(all(adds) \o all(saves), EmptyDb)

Init ==
    /\ backend \in {"pg", "my", "fb", "fi"}
    /\ sc \in Schemas(backend)
    /\ db \in {EmptyDb, Populated(backend, sc)}
    /\ work = EmptyDb /\ up = TRUE /\ now = 1 /\ qbuf = Ask
    /\ call = [t \in Threads |-> Idle]
    /\ calls = 0 /\ faults = 0 /\ kept = {}

(* A thread enters an operation.  pg and fb hold the mutex throughout, so  *)
(* that a second thread only waits.                                        *)
Enter(t, o) ==
    /\ ~Busy(t) /\ calls < MaxCalls
    /\ Tx => \A u \in Threads : ~Busy(u)
    /\ o.f = "SaveMonthStat" => now > 1
    /\ o.f = "AddMessage" => \* the store numbers the messages
           /\ \A r \in db["messages"] : r.c.id # o.n
           /\ \A u \in Threads : ~(Busy(u) /\ call[u].o.f = "AddMessage" /\ call[u].o.n = o.n)
    /\ LET mine  == Touched(backend, o, db)
           rival == {u \in Threads : Busy(u) /\ (call[u].o.k = o.k \/ Touched(backend, call[u].o, db) \cap mine # {})}
       IN  /\ call' = [u \in Threads |->
                 IF u = t THEN [st |-> IF Tx THEN "begin" ELSE "run", o |-> o, at |-> 1, ret |-> 0,
                                prog |-> Program(backend, o, now, sc), pre |-> db, m |-> now, clean |-> rival = {},
                                alone |-> \A x \in Threads : ~Busy(x)]
                 ELSE IF Busy(u) THEN [call[u] EXCEPT !.clean = @ /\ u \notin rival, !.alone = FALSE]
                 ELSE call[u]]
           /\ kept' = {e \in kept : <<e.t, e.k>> \notin mine}
    /\ calls' = calls + 1
    /\ UNCHANGED <<backend, db, work, up, now, sc, qbuf, faults>>

Return(t, ret) == call' = [call EXCEPT ![t].st = "ret", ![t].ret = ret]

(* PQstatus is not CONNECTION_OK: only PostgreSQL connects again.          *)
Reset(t) ==
    /\ call[t].st = "begin" /\ ~up
    /\ \/ backend = "pg" /\ up' = TRUE /\ UNCHANGED call
       \/ Return(t, -1) /\ UNCHANGED up
    /\ UNCHANGED <<backend, db, work, now, sc, qbuf, calls, faults, kept>>

(* StartTransaction; tr->Start().                                          *)
Begin(t) ==
    /\ call[t].st = "begin" /\ up
    /\ call' = [call EXCEPT ![t].st = "run"]
    /\ work' = db
    /\ UNCHANGED <<backend, db, up, now, sc, qbuf, calls, faults, kept>>

Now(t) == call[t].prog[call[t].at]
Running(t) == call[t].st = "run" /\ call[t].at <= Len(call[t].prog)

\* Mutants: statements outside a transaction; a commit where there is an error.
StatementAtOnce(t) ==
    /\ Running(t) /\ Now(t).do \notin {"format", "exec"}
    /\ IF Accepts(Now(t), db) THEN db' = Apply(Now(t), db) /\ call' = [call EXCEPT ![t].at = @ + 1] /\ work' = db'
       ELSE Return(t, -1) /\ UNCHANGED <<db, work>>
    /\ UNCHANGED <<backend, up, now, sc, qbuf, calls, faults, kept>>
(* One statement.  An error ends the operation, and the transaction.       *)
Statement(t) ==
    /\ Running(t) /\ Now(t).do \notin {"format", "exec"}
    /\ IF (Tx => up) /\ Accepts(Now(t), IF Tx THEN work ELSE db)
       THEN /\ call' = [call EXCEPT ![t].at = @ + 1]
            /\ IF Tx THEN /\ work' = Apply(Now(t), work)
                         /\ db' = IF Now(t).do = "commit" THEN work ELSE db
               ELSE db' = Apply(Now(t), db) /\ UNCHANGED work
       ELSE Return(t, -1) /\ UNCHANGED <<db, work>>
    /\ UNCHANGED <<backend, up, now, sc, qbuf, calls, faults, kept>>

FormatQbuf(t) ==
    /\ Running(t) /\ Now(t).do = "format"
    /\ qbuf' = Now(t).stmt
    /\ call' = [call EXCEPT ![t].at = @ + 1]
    /\ UNCHANGED <<backend, db, work, up, now, sc, calls, faults, kept>>

(* MysqlSetQuery(qbuf): whatever qbuf holds by now.                        *)
ExecQbuf(t) ==
    /\ Running(t) /\ Now(t).do = "exec"
    /\ LET own == qbuf = call[t].prog[call[t].at - 1].stmt
       IN  /\ IF Accepts(qbuf, db)
              THEN /\ db' = Apply(qbuf, db)
                   /\ call' = [u \in Threads |->
                         IF u = t THEN [call[t] EXCEPT !.at = @ + 1, !.clean = @ /\ own]
                         ELSE IF Busy(u) THEN [call[u] EXCEPT !.clean = @ /\ own] ELSE call[u]]
              ELSE Return(t, -1) /\ UNCHANGED db
           /\ kept' = IF own THEN kept ELSE {}
    /\ UNCHANGED <<backend, work, up, now, sc, qbuf, calls, faults>>

(* The end: COMMIT, and the value 0.                                       *)
Finish(t) ==
    /\ call[t].st = "run" /\ call[t].at > Len(call[t].prog)
    /\ IF Tx /\ ~up THEN Return(t, -1) /\ UNCHANGED <<db, kept>>
       ELSE /\ db' = IF Tx THEN work ELSE db
            /\ Return(t, 0)
            /\ kept' = IF call[t].clean
                       THEN kept \cup Promise(backend, call[t].o, IF Tx THEN work ELSE db, call[t].m) ELSE kept
    /\ sc' = IF call[t].o.f \in {"WriteUserChgLog", "WriteUserConnect", "WriteUserDisconnect"}
             THEN [sc EXCEPT !.log = TRUE] ELSE sc
    /\ UNCHANGED <<backend, work, up, now, qbuf, calls, faults>>

Leave(t) ==
    /\ call[t].st = "ret"
    /\ call' = [call EXCEPT ![t] = Idle]
    /\ UNCHANGED <<backend, db, work, up, now, sc, qbuf, calls, faults, kept>>

(* Faults.  A file that cannot be written is either the old one, or cut    *)
(* short and renamed over the old one, and the operation goes on.          *)
CutShort(s) == [s EXCEPT !.c = [x \in DOMAIN @ |-> IF x \in {"conf", "stat", "v"} THEN 0 ELSE @[x]]]

Fault(t) ==
    /\ faults < MaxFaults /\ faults' = faults + 1
    /\ Running(t) /\ Now(t).do \notin {"format", "commit"}
    /\ IF Now(t).do \in {"flush", "unlink"}
       THEN /\ call' = [call EXCEPT ![t].at = @ + 1, ![t].clean = FALSE]
            /\ \/ UNCHANGED db
               \/ Now(t).do = "flush" /\ db' = Apply(CutShort(Now(t)), db)
       ELSE Return(t, -1) /\ UNCHANGED db
    /\ UNCHANGED <<backend, work, up, now, sc, qbuf, calls, kept>>

(* The answer to COMMIT is lost with the connection.                       *)
CommitLost(t) ==
    /\ faults < MaxFaults /\ faults' = faults + 1
    /\ Tx /\ up /\ call[t].st = "run" /\ call[t].at > Len(call[t].prog)
    /\ db' \in {db, work} /\ up' = FALSE
    /\ call' = [call EXCEPT ![t].st = "ret", ![t].ret = -1, ![t].clean = FALSE]
    /\ UNCHANGED <<backend, work, now, sc, qbuf, calls, kept>>

LoseConnection ==
    /\ faults < MaxFaults /\ faults' = faults + 1
    /\ Tx /\ up /\ up' = FALSE
    /\ UNCHANGED <<backend, db, work, now, sc, qbuf, call, calls, kept>>

(* The server dies and is started again.                                   *)
Crash ==
    /\ faults < MaxFaults /\ faults' = faults + 1
    /\ call' = [t \in Threads |-> Idle]
    /\ work' = EmptyDb /\ up' = TRUE /\ qbuf' = Ask
    /\ sc' = IF backend = "my" THEN MyParseSettings(sc, FALSE) ELSE sc
    /\ UNCHANGED <<backend, db, now, calls, kept>>

(* An operation takes the month when it starts.                            *)
NextMonth ==
    /\ \A t \in Threads : ~Busy(t)
    /\ now < MaxMonth /\ now' = now + 1
    /\ sc' = [sc EXCEPT !.log = FALSE]
    /\ UNCHANGED <<backend, db, work, up, qbuf, call, calls, faults, kept>>

Step(t) == Reset(t) \/ Begin(t) \/ Statement(t) \/ FormatQbuf(t) \/ ExecQbuf(t) \/ Finish(t) \/ Leave(t)
Next ==
    \/ \E t \in Threads : Step(t) \/ Fault(t) \/ CommitLost(t) \/ \E o \in Ops : Enter(t, o)
    \/ LoseConnection \/ Crash \/ NextMonth

Spec == Init /\ [][Next]_vars

----------------------------------------------------------------------------
(* Properties.                                                             *)

(* What a tariff makes a user pay.                                         *)
Charges(t) == [v |-> t.v, day |-> t.day, night |-> IF t.single THEN t.day ELSE t.night,
               thr |-> IF t.nodisc THEN NoDiscount ELSE t.thr]
HasPolicy == CASE backend = "my" -> sc.ver >= 2 [] backend = "fi" -> TRUE [] OTHER -> sc.full

(* Whether r, read back, is what was saved as e.v, up to what a store is   *)
(* known not to keep: MySQL has no services and corporations and writes    *)
(* the policy over its time limit; only files keep all privileges;         *)
(* Firebird mixes up the units of night prices; PostgreSQL restores the    *)
(* traffic of the current month only, and of services those with a comment *)
(* of one word.                                                            *)
Matches(e, r) ==
    CASE e.t = "conf" ->
            /\ r.v = e.v.v /\ r.data = {e.v.v} /\ r.ips = {e.v.v}
            /\ r.tariff \in {e.v.tariff} \cup (IF Tx THEN {None} ELSE {})
            /\ r.next \in {e.v.next} \cup (IF Tx THEN {None} ELSE {})
            /\ backend # "my" => /\ r.svc = e.v.svc
                                 /\ r.corp \in {e.v.corp} \cup (IF Tx THEN {None} ELSE {})
      [] e.t = "stat" -> /\ r.cash = e.v.s
                         /\ (backend = "pg" /\ now > e.m) \/ r.traff = e.v.s
      [] e.t = "admins" -> r.v = e.v.v /\ (backend = "fi" => r.x = e.v.x)
      [] e.t = "tariffs" ->
            /\ IF backend = "fb" /\ ~e.v.single THEN Charges(r).day = Charges(e.v).day
               ELSE Charges(r) = Charges(e.v)
            /\ HasPolicy => r.policy = e.v.policy /\ (backend # "my" => r.tmo = e.v.tmo)
      [] e.t = "services" -> (backend = "pg" /\ e.v.text # "word") \/ r = e.v
      [] OTHER -> r = e.v

(* What was acknowledged stays, through operations on other objects,       *)
(* operations that fail, lost connections and restarts.                    *)
SavedIsRestored ==
    \A e \in kept :
        LET r == IF e.t = "msg" THEN Message(backend, db, e.k[1], e.k[2])
                 ELSE Restored(backend, db, e.t, e.k, now, sc)
        IN  r # Failed /\ Matches(e, r)

(* The transactions of an operation, in order.                             *)
TransactionsOf(prog) ==
    LET cut == {i \in DOMAIN prog : prog[i].do = "commit"}
    IN  IF cut = {} THEN {prog}
        ELSE LET c == CHOOSE i \in cut : TRUE
             IN  {SubSeq(prog, 1, c - 1), SubSeq(prog, c + 1, Len(prog))}

(* In PostgreSQL and Firebird the tables only change by a whole            *)
(* transaction of an operation that is about to report its result.         *)
AllOrNothing ==
    [][(db' # db /\ Tx) => \E t \in Threads : /\ call[t].st = "run"
                                              /\ \E p \in TransactionsOf(call[t].prog) : db' = RunAll(p, db)]_vars

(* An operation that reports an error has changed nothing, unless the      *)
(* answer to COMMIT was lost.  Without transactions that is not so: a user *)
(* or a message may be left half added.  With two of them the month may be *)
(* left closed with no row opened.                                         *)
RefusedIsUndone ==
    \A t \in Threads :
        LET c == call[t] IN
        (c.st = "ret" /\ c.ret = -1 /\ c.clean /\ c.alone) =>
            \/ db = c.pre
            \/ backend = "fi" /\ c.o.f \in {"AddUser", "AddMessage", "WriteUserConnect", "WriteUserDisconnect",
                                             "WriteDetailedStat"}
            \/ backend = "my" /\ c.o.f \in {"AddMessage", "WriteDetailedStat"}
            \/ backend = "fb" /\ c.o.f = "SaveMonthStat"

(* Deleting a user leaves no row of the user behind; MySQL keeps the rows  *)
(* of its other tables.                                                    *)
NothingLeft ==
    \A t \in Threads :
        (call[t].st = "ret" /\ call[t].ret = 0 /\ call[t].clean /\ call[t].o.f = "DelUser") =>
            \A x \in {"users"} \cup (IF backend = "my" THEN {} ELSE UserTables) : ~Has(db, x, call[t].o.k)

(* A store keeps what it acknowledged, undoes what it refused and leaves   *)
(* nothing of what it deleted (the Save, Add and Del functions of the four *)
(* plugins under projects/stargazer/plugins/store).                        *)
StoreSound == SavedIsRestored /\ RefusedIsUndone /\ NothingLeft
============================================================================
