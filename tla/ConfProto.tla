----------------------------- MODULE ConfProto ------------------------------
(***************************************************************************)
(* The configuration protocol of the sgconfig plugin over TCP: the server  *)
(* loop and its connections (configproto.cpp, conn.cpp, stgconfig.cpp) and *)
(* the transaction of the administration library (netunit.cpp,             *)
(* servconf.cpp).                                                          *)
(*                                                                         *)
(* Both directions of a connection are streams.  The control words (the    *)
(* header, the logins and their answers) have a fixed length and are read  *)
(* whole; a request is a stream of bytes that the server reads in chunks   *)
(* of any size, decrypts in blocks and gives to its XML parser.  Of the    *)
(* bytes of a request the model keeps their number (len, the closing NUL   *)
(* included, padded to whole blocks), and the place of the first zero byte *)
(* of the encrypted text, if there is one (zero), because Conn::HandleData *)
(* looks for it.  The answer is read by the client as its text and its NUL,*)
(* which may arrive apart.                                                 *)
(***************************************************************************)
EXTENDS Integers, Sequences, FiniteSets

CONSTANTS
    Clients,    \* administration clients, each with one call to make
    Plans,      \* the calls: functions from Clients to [call, adm, len, zero], where
                \* adm is what the header and the login are worth; an
                \* "Idle" client makes none
    BLOCK,      \* the cipher's block (8)
    BUF,        \* sizeof(m_data) (1024)
    MaxBreaks   \* connections that break

VARIABLES
    plan,       \* one of Plans
    cl,         \* the library's side of each client
    link,       \* the connection as the two kernels see it
    conn,       \* the server's Conn of each client
    serving,    \* "run", "stopped" after STG_CONFIG::Stop, "exited" with the process
    breaks

vars == <<plan, cl, link, conn, serving, breaks>>

----------------------------------------------------------------------------
(***************************************************************************)
(* What the commands answer (the parsers of the plugin) and what the       *)
(* library makes of an answer (libs/srvconf).  An answer is an XML         *)
(* document of which the tag of the root and the value of its first        *)
(* attribute are kept: "ok", "error", some other text, or none.  What the  *)
(* library makes of it is the sequence of reports the callback gets: TRUE  *)
(* for success, FALSE for failure.                                         *)
(***************************************************************************)
Doc(root, first) == [root |-> root, first |-> first]

----------------------------------------------------------------------------
(* The server.  out is what became of the request: "ok", "missing" when    *)
(* its object does not exist (or does already), "refused" by rights, the   *)
(* store or a check.                                                       *)

(* The commands on administrators, tariffs and services: Result="Ok", or   *)
(* the reason.                                                             *)
Result(tag, out) == Doc(tag, IF out = "ok" THEN "ok" ELSE "text")

(* ADD_USER and CHG_USER: result="ok" or result="error". *)
ChgUserAnswer(tag, out) == Doc(tag, IF out = "ok" THEN "ok" ELSE "error")

(* DEL_USER answers when it has found the user, before it deletes. *)
DelUserAnswer(out) == Doc("deluser", IF out = "missing" THEN "error" ELSE "ok")

CheckUserAnswer(out) == Doc("checkuser", IF out = "ok" THEN "ok" ELSE "text")

SendMessageAnswer(out) == Doc("sendmessageresult", IF out = "ok" THEN "ok" ELSE "text")

GetAdminsAnswer(out) == IF out = "refused" THEN Doc("error", "text") ELSE Doc("admins", "none")

GetTariffsAnswer == Doc("tariffs", "none")

GetServicesAnswer == Doc("services", "none")

GetUsersAnswer == Doc("users", "none")

GetUserAnswer(out) == Doc("user", IF out = "missing" THEN "error" ELSE "ok")

AuthByAnswer(out) == Doc("authorizedby", IF out = "missing" THEN "error" ELSE "ok")

UserInfoAnswer(out) == Doc("userinfo", IF out = "missing" THEN "error" ELSE "ok")

ServerInfoAnswer == Doc("serverinfo", "none")

(* The registry of commands: GET_SERVICE registers itself as AddService    *)
(* and is replaced by ADD_SERVICE; corporations have no commands.          *)
Registry ==
    {"GetServerInfo", "GetAdmins", "AddAdmin", "DelAdmin", "ChgAdmin",
     "GetTariffs", "AddTariff", "DelTariff", "SetTariff",
     "GetUsers", "GetUser", "AddUser", "DelUser", "SetUser", "CheckUser",
     "GetServices", "AddService", "DelService", "SetService",
     "Message", "GetUserAuthBy", "GetUserInfo"}

UnknownCommand == Doc("error", "text")

(* Conn::WriteResponse *)
AnswerTo(cmd, out) ==
    CASE cmd \notin Registry -> UnknownCommand
      [] cmd = "AddAdmin"   -> Result("addadmin", out)
      [] cmd = "DelAdmin"   -> Result("deladmin", out)
      [] cmd = "ChgAdmin"   -> Result("chgadmin", out)
      [] cmd = "AddTariff"  -> Result("addtariff", out)
      [] cmd = "DelTariff"  -> Result("deltariff", out)
      [] cmd = "SetTariff"  -> Result("settariff", out)
      [] cmd = "AddService" -> Result("addservice", out)
      [] cmd = "DelService" -> Result("delservice", out)
      [] cmd = "SetService" -> Result("setservice", out)
      [] cmd = "AddUser"    -> ChgUserAnswer("adduser", out)
      [] cmd = "SetUser"    -> ChgUserAnswer("setuser", out)
      [] cmd = "DelUser"    -> DelUserAnswer(out)
      [] cmd = "CheckUser"  -> CheckUserAnswer(out)
      [] cmd = "Message"    -> SendMessageAnswer(out)
      [] cmd = "GetAdmins"  -> GetAdminsAnswer(out)
      [] cmd = "GetTariffs" -> GetTariffsAnswer
      [] cmd = "GetServices" -> GetServicesAnswer
      [] cmd = "GetUsers"   -> GetUsersAnswer
      [] cmd = "GetUser"    -> GetUserAnswer(out)
      [] cmd = "GetUserAuthBy" -> AuthByAnswer(out)
      [] cmd = "GetUserInfo" -> UserInfoAnswer(out)
      [] cmd = "GetServerInfo" -> ServerInfoAnswer

----------------------------------------------------------------------------
(* The library's parsers. *)

SimpleAnyTag(tag, a) == <<a.first # "error">>

(* Simple::Parser reports when the root is the tag it was made for. *)
Simple(tag, a) == IF a.root = tag THEN <<a.first = "ok">> ELSE <<>>

(* ChgUser::Parser *)
ChgUser(a) == IF a.root \in {"setuser", "deluser", "adduser"} THEN <<a.first = "ok">> ELSE <<>>

(* GetContainer::Parser: the elements are parsed by one of the parsers     *)
(* below; the server writes them well-formed.                              *)
GetContainer(tag, a) == IF a.root = tag THEN <<TRUE>> ELSE <<>>

(* GetUser::Parser also reports errors. *)
GetUser(a) == IF a.root = "user" THEN <<a.first # "error">> ELSE <<>>

(* GetAdmin, GetTariff, GetService and GetCorp note an error and do not    *)
(* report it: parsingAnswer stays false.                                   *)
GetOne(tag, a) == IF a.root = tag /\ a.first # "error" THEN <<TRUE>> ELSE <<>>

GetAdmin(a) == GetOne("admin", a)

GetTariff(a) == GetOne("tariff", a)

GetService(a) == GetOne("service", a)

GetCorp(a) == GetOne("corp", a)

(* AuthBy::Parser reports at the end of any root. *)
AuthBy(a) == <<~(a.root = "authorizedby" /\ a.first = "error")>>

(* ServerInfo::Parser waits for the tag of the request. *)
ServerInfo(a) == IF a.root = "getserverinfo" THEN <<TRUE>> ELSE <<>>

----------------------------------------------------------------------------
(* ServConf: the requests a call sends, one connection each; the second is *)
(* sent when the first was answered, whatever the answer.                  *)
ServConf ==
    [ServerInfo |-> <<"GetServerInfo">>,
     GetAdmins  |-> <<"GetAdmins">>,   GetAdmin   |-> <<"GetAdmin">>,
     AddAdmin   |-> <<"AddAdmin", "ChgAdmin">>,
     ChgAdmin   |-> <<"ChgAdmin">>,    DelAdmin   |-> <<"DelAdmin">>,
     GetTariffs |-> <<"GetTariffs">>,  GetTariff  |-> <<"GetTariff">>,
     AddTariff  |-> <<"AddTariff", "SetTariff">>,
     ChgTariff  |-> <<"SetTariff">>,   DelTariff  |-> <<"DelTariff">>,
     GetUsers   |-> <<"GetUsers">>,    GetUser    |-> <<"GetUser">>,
     AddUser    |-> <<"AddUser", "SetUser">>,
     ChgUser    |-> <<"SetUser">>,     DelUser    |-> <<"DelUser">>,
     CheckUser  |-> <<"CheckUser">>,   AuthBy     |-> <<"GetUserAuthBy">>,
     SendMessage |-> <<"Message">>,
     GetServices |-> <<"GetServices">>, GetService |-> <<"GetService">>,
     AddService |-> <<"AddService", "SetService">>,
     ChgService |-> <<"SetService">>,  DelService |-> <<"DelService">>,
     GetCorporations |-> <<"GetCorporations">>, GetCorp |-> <<"GetCorp">>,
     AddCorp    |-> <<"AddCorp", "SetCorp">>,
     ChgCorp    |-> <<"SetCorp">>,     DelCorp    |-> <<"DelCorp">>,
     RawXML     |-> <<"GetUserInfo">>]

(* The parser each request is given; RawXML has none and reports the text. *)
Exec(cmd, a) ==
    CASE cmd = "AddAdmin"   -> Simple("addadmin", a)
      [] cmd = "DelAdmin"   -> Simple("deladmin", a)
      [] cmd = "ChgAdmin"   -> Simple("chgadmin", a)
      [] cmd = "AddTariff"  -> Simple("addtariff", a)
      [] cmd = "DelTariff"  -> Simple("deltariff", a)
      [] cmd = "SetTariff"  -> Simple("settariff", a)
      [] cmd = "AddService" -> Simple("addservice", a)
      [] cmd = "DelService" -> Simple("delservice", a)
      [] cmd = "SetService" -> Simple("setservice", a)
      [] cmd = "AddCorp"    -> Simple("addcorp", a)
      [] cmd = "DelCorp"    -> Simple("delcorp", a)
      [] cmd = "SetCorp"    -> Simple("setcorp", a)
      [] cmd = "AddUser"    -> Simple("adduser", a)
      [] cmd = "DelUser"    -> Simple("deluser", a)
      [] cmd = "CheckUser"  -> Simple("checkuser", a)
      [] cmd = "Message"    -> Simple("sendmessageresult", a)
      [] cmd = "SetUser"    -> ChgUser(a)
      [] cmd = "GetAdmins"  -> GetContainer("admins", a)
      [] cmd = "GetTariffs" -> GetContainer("tariffs", a)
      [] cmd = "GetUsers"   -> GetContainer("users", a)
      [] cmd = "GetServices" -> GetContainer("services", a)
      [] cmd = "GetCorporations" -> GetContainer("corporations", a)
      [] cmd = "GetAdmin"   -> GetAdmin(a)
      [] cmd = "GetTariff"  -> GetTariff(a)
      [] cmd = "GetService" -> GetService(a)
      [] cmd = "GetCorp"    -> GetCorp(a)
      [] cmd = "GetUser"    -> GetUser(a)
      [] cmd = "GetUserAuthBy" -> AuthBy(a)
      [] cmd = "GetServerInfo" -> ServerInfo(a)
      [] cmd = "GetUserInfo" -> <<>>

----------------------------------------------------------------------------
(* The connections. *)

Cmds(c) == IF plan[c].call = "Idle" THEN <<"Idle">> ELSE ServConf[plan[c].call]

Cmd(c) == Cmds(c)[cl[c].at]

Word(w) == Doc("word", w)

Nul == Doc("nul", "none")

(* ENCRYPT_STREAM pads the last block. *)
Padded(len) == BLOCK * ((len + BLOCK - 1) \div BLOCK)

Unused == [st |-> "none", c2s |-> 0, s2c |-> <<>>, fin |-> FALSE]

NoConn == [state |-> "none", pos |-> 0, space |-> 0, done |-> <<>>]

Init ==
    /\ plan \in Plans
    /\ cl = [c \in Clients |-> [pc |-> IF plan[c].call = "Idle" THEN "done" ELSE "connect", at |-> 1, told |-> <<>>, sent |-> FALSE]]
    /\ link = [c \in Clients |-> Unused]
    /\ conn = [c \in Clients |-> NoConn]
    /\ serving = "run"
    /\ breaks = 0

----------------------------------------------------------------------------
(* The client. *)

(* NetTransact::Connect: a fresh socket; the kernel of a listening server  *)
(* completes it before anybody accepts.  (The server has dropped the       *)
(* connection of the first transaction when the second one connects: the   *)
(* two are separate and only one of them is kept here.)                    *)
Connect(c) ==
    /\ cl[c].pc = "connect"
    /\ serving = "run" => conn[c].state \notin {"DONE", "ERROR"}
    /\ IF serving = "exited"
       THEN /\ cl' = [cl EXCEPT ![c].pc = "failed", ![c].told = Append(@, FALSE)]
            /\ UNCHANGED <<link, conn>>
       ELSE /\ cl' = [cl EXCEPT ![c].pc = "header", ![c].told = <<>>, ![c].sent = FALSE]
            /\ link' = [link EXCEPT ![c] = [Unused EXCEPT !.st = "queued", !.c2s = 1]]
            /\ conn' = [conn EXCEPT ![c] = NoConn]
    /\ UNCHANGED <<plan, serving, breaks>>

(* ExecImpl after a Transact that failed: the callback is told and the     *)
(* socket is left open until the client's process ends.                    *)
Failure(c) == cl' = [cl EXCEPT ![c].pc = "failed", ![c].told = Append(@, FALSE)]

(* ReadAll of an answer's word failed: end of stream or an error. *)
NoWord(c) == link[c].s2c = <<>> /\ (link[c].fin \/ link[c].st = "broken")

(* RxHeaderAnswer, RxLoginAnswer or RxLoginSAnswer, and on success the next*)
(* word or the request.  Writing to a connection the server has closed     *)
(* succeeds, or fails once the kernel knows.                               *)
RxAnswer(c) ==
    LET pc == cl[c].pc
        Next2 == [header |-> "login", login |-> "logins", logins |-> "data"][pc]
        Bytes == IF Next2 = "data" THEN Padded(plan[c].len) ELSE 1
    IN
    /\ pc \in {"header", "login", "logins"}
    /\ \/ /\ NoWord(c)
          /\ Failure(c)
          /\ UNCHANGED link
       \/ /\ link[c].s2c # <<>>
          /\ IF Head(link[c].s2c) = Word("OK")
             THEN \/ /\ link[c].st # "broken"
                     /\ cl' = [cl EXCEPT ![c].pc = Next2, ![c].sent = Next2 = "data"]
                     /\ link' = [link EXCEPT ![c].s2c = Tail(@), ![c].c2s = @ + Bytes]
                  \/ /\ link[c].st = "broken" \/ link[c].fin
                     /\ Failure(c)
                     /\ link' = [link EXCEPT ![c].s2c = Tail(@)]
             ELSE /\ Failure(c)
                  /\ link' = [link EXCEPT ![c].s2c = Tail(@)]
    /\ UNCHANGED <<plan, conn, serving, breaks>>

(* RxDataAnswer: the parser reports while the text is parsed; the loop     *)
(* ends with the NUL.  At the end of the stream read returns 0 for ever and*)
(* the loop has no other exit.                                             *)
RxDataAnswer(c) ==
    /\ cl[c].pc = "data"
    /\ \/ /\ link[c].s2c # <<>>
          /\ link' = [link EXCEPT ![c].s2c = Tail(@)]
          /\ cl' = IF Head(link[c].s2c) = Nul
                   THEN [cl EXCEPT ![c].pc = "answered",
                                   ![c].told = IF plan[c].call = "RawXML" THEN <<TRUE>> ELSE @]
                   ELSE [cl EXCEPT ![c].told = @ \o Exec(Cmd(c), Head(link[c].s2c))]
       \/ /\ link[c].s2c = <<>> /\ link[c].st = "broken"
          /\ Failure(c)
          /\ UNCHANGED link
       \/ /\ link[c].s2c = <<>> /\ link[c].fin /\ link[c].st # "broken"
          /\ cl' = [cl EXCEPT ![c].pc = "spin"]
          /\ UNCHANGED link
    /\ UNCHANGED <<plan, conn, serving, breaks>>

(* Disconnect; AddAdmin, AddTariff, AddUser, AddService and AddCorp then   *)
(* make a second transaction.                                              *)
Disconnect(c) ==
    /\ cl[c].pc = "answered"
    /\ link' = [link EXCEPT ![c].st = IF @ = "broken" THEN @ ELSE "left"]
    /\ cl' = IF cl[c].at < Len(Cmds(c))
             THEN [cl EXCEPT ![c].pc = "connect", ![c].at = @ + 1]
             ELSE [cl EXCEPT ![c].pc = "done"]
    /\ UNCHANGED <<plan, conn, serving, breaks>>

(* The client's process ends and its kernel closes what is open. *)
ClientExits(c) ==
    /\ cl[c].pc = "failed" /\ link[c].st \in {"queued", "open"}
    /\ link' = [link EXCEPT ![c].st = "left"]
    /\ UNCHANGED <<plan, cl, conn, serving, breaks>>

----------------------------------------------------------------------------
(* The server. *)

HandleHeader(c) ==
    IF plan[c].adm = "alien"
    THEN [answer |-> "ERR", state |-> "ERROR", space |-> 0]
    ELSE [answer |-> "OK", state |-> "LOGIN", space |-> 1]

HandleLogin(c) ==
    IF plan[c].adm = "nobody"
    THEN [answer |-> "ERR", state |-> "ERROR", space |-> 0]
    ELSE [answer |-> "OK", state |-> "CRYPTO_LOGIN", space |-> 1]

HandleCryptoLogin(c) ==
    IF plan[c].adm = "wrong"
    THEN [answer |-> "ERR", state |-> "ERROR", space |-> 0]
    ELSE [answer |-> "OK", state |-> "DATA", space |-> BUF]

(* Conn::Read of a control word, HandleBuffer and the handler. *)
ReadWord(c) ==
    LET h == CASE conn[c].state = "HEADER" -> HandleHeader(c)
               [] conn[c].state = "LOGIN" -> HandleLogin(c)
               [] conn[c].state = "CRYPTO_LOGIN" -> HandleCryptoLogin(c)
    IN
    /\ conn[c].state \in {"HEADER", "LOGIN", "CRYPTO_LOGIN"}
    /\ IF link[c].c2s > 0
       THEN /\ conn' = [conn EXCEPT ![c].state = h.state, ![c].space = h.space]
            /\ link' = [link EXCEPT ![c].c2s = @ - 1, ![c].s2c = Append(@, Word(h.answer))]
       ELSE /\ link[c].st \in {"left", "broken"}
            /\ conn' = [conn EXCEPT ![c].state = "ERROR"]
            /\ UNCHANGED link

(* Mutant: the last whole block waits for a byte after it. *)
BlocksBefore(n) == BLOCK * ((n - 1) \div BLOCK)

(* The bytes of n that HandleData can decrypt. *)
WholeBlocks(n) == BLOCK * (n \div BLOCK)

(* Conn::Read in DATA: a chunk of k bytes, none when the client is gone or *)
(* when m_data has no room left.  HandleData decrypts the whole blocks,    *)
(* and an incomplete one with them when it thinks the chunk is the last:   *)
(* that block decrypts to garbage the XML parser refuses.  The command     *)
(* runs when its root element is closed and is answered when the NUL is    *)
(* decrypted, or at the end of the stream; an unknown command leaves the   *)
(* connection in ERROR until it is answered.                               *)
HandleData(c, k, out) ==
    LET pl      == plan[c]
        pos     == conn[c].pos + k
        last    == k = 0 \/ (conn[c].pos < pl.zero /\ pl.zero <= pos)
        garbled == last /\ pos % BLOCK # 0
        closed  == WholeBlocks(pos) >= pl.len - 1
        runs    == closed /\ WholeBlocks(conn[c].pos) < pl.len - 1
        done    == IF runs THEN Append(conn[c].done, out) ELSE conn[c].done
        final   == ~garbled /\ (WholeBlocks(pos) >= pl.len \/ k = 0)
        state   == CASE garbled \/ (final /\ ~closed) -> "ERROR"
                     [] final /\ closed -> "DONE"
                     [] closed /\ Cmd(c) \notin Registry -> "ERROR"
                     [] OTHER -> "DATA"
    IN
    /\ conn' = [conn EXCEPT ![c] = [state |-> state, pos |-> pos, space |-> @.space - k, done |-> done]]
    /\ link' = [link EXCEPT
                  ![c].c2s = @ - k,
                  ![c].s2c = IF state = "DONE"
                             THEN @ \o <<AnswerTo(Cmd(c), done[Len(done)]), Nul>> ELSE @]

(* What the command comes to is the business of the parsers and tables. *)
Outcomes == {"ok", "missing", "refused"}

ReadData(c) ==
    /\ conn[c].state = "DATA"
    /\ \/ /\ link[c].st # "broken"
          /\ \E k \in 0..BUF, out \in Outcomes :
                /\ k <= link[c].c2s /\ k <= conn[c].space
                /\ k = 0 => conn[c].space = 0 \/ (link[c].st = "left" /\ link[c].c2s = 0)
                /\ conn[c].space = 0 => link[c].c2s > 0 \/ link[c].st = "left"
                /\ HandleData(c, k, out)
       \/ /\ link[c].st = "broken"
          /\ conn' = [conn EXCEPT ![c].state = "ERROR"]
          /\ UNCHANGED link

Readable(c) ==
    /\ conn[c].state \in {"HEADER", "LOGIN", "CRYPTO_LOGIN", "DATA"}
    /\ link[c].c2s > 0 \/ link[c].st \in {"left", "broken"}

Queued == {c \in Clients : link[c].st = "queued"}

(* CleanupConns deletes the connections that are done or in error, after   *)
(* every round.  Closing a socket with unread data resets the connection.  *)
Finished(c) == conn[c].state \in {"DONE", "ERROR"}

Closed(l) == IF l.st = "left" THEN l
             ELSE IF l.c2s > 0 THEN [l EXCEPT !.st = "broken", !.c2s = 0, !.fin = TRUE]
             ELSE [l EXCEPT !.fin = TRUE]

CleanupConns(c) ==
    /\ serving = "run"
    /\ Finished(c)
    /\ conn' = [conn EXCEPT ![c].state = "deleted"]
    /\ link' = [link EXCEPT ![c] = Closed(@)]
    /\ UNCHANGED <<plan, cl, serving, breaks>>

(* One round of CONFIGPROTO::Run: a connection to accept goes first and    *)
(* the readable ones wait for the next round.  The reads of one round do   *)
(* not touch each other and are separate steps here.                       *)
AcceptConnection(c) ==
    /\ serving = "run"
    /\ \A d \in Clients : ~Finished(d)
    /\ c \in Queued
    /\ link' = [link EXCEPT ![c].st = "open"]
    /\ conn' = [conn EXCEPT ![c] = [NoConn EXCEPT !.state = "HEADER", !.space = 1]]
    /\ UNCHANGED <<plan, cl, serving, breaks>>

HandleEvents(c) ==
    /\ serving = "run"
    /\ \A d \in Clients : ~Finished(d)
    /\ Queued = {}
    /\ Readable(c)
    /\ ReadWord(c) \/ ReadData(c)
    /\ UNCHANGED <<plan, cl, serving, breaks>>

(* STG_CONFIG::Stop: the loop ends, nothing is closed. *)
Stop ==
    /\ serving = "run"
    /\ serving' = "stopped"
    /\ UNCHANGED <<plan, cl, link, conn, breaks>>

(* The process ends: its kernel closes the listening socket with its queue *)
(* and every connection.                                                   *)
ServerExits ==
    /\ serving = "stopped"
    /\ serving' = "exited"
    /\ link' = [c \in Clients |->
                  IF link[c].st = "queued" THEN [link[c] EXCEPT !.st = "broken", !.c2s = 0]
                  ELSE IF link[c].st = "open" /\ ~link[c].fin THEN Closed(link[c])
                  ELSE link[c]]
    /\ UNCHANGED <<plan, cl, conn, breaks>>

(* The network takes a connection down: both sides see an error and what   *)
(* the client has not read yet may be lost.                                *)
Break(c) ==
    /\ breaks < MaxBreaks
    /\ link[c].st = "open"
    /\ breaks' = breaks + 1
    /\ \E lost \in BOOLEAN :
          link' = [link EXCEPT ![c].st = "broken", ![c].c2s = 0,
                               ![c].s2c = IF lost THEN <<>> ELSE @]
    /\ UNCHANGED <<plan, cl, conn, serving>>

----------------------------------------------------------------------------
ClientStep(c) == Connect(c) \/ RxAnswer(c) \/ RxDataAnswer(c) \/ Disconnect(c) \/ ClientExits(c)

ServerStep(c) == AcceptConnection(c) \/ HandleEvents(c) \/ CleanupConns(c)

Next ==
    \/ \E c \in Clients : ClientStep(c) \/ ServerStep(c) \/ Break(c)
    \/ Stop
    \/ ServerExits

(* The client's thread runs; the server's loop serves every readable       *)
(* connection of a round, and the queue is served first.                   *)
Fairness == \A c \in Clients : WF_vars(ClientStep(c)) /\ WF_vars(ServerStep(c))

Spec == Init /\ [][Next]_vars /\ Fairness

----------------------------------------------------------------------------
Over(c) == cl[c].pc \in {"done", "failed"}

(* The commands that change something and whose parser is Simple or        *)
(* ChgUser.  DEL_USER is left out: it answers before it deletes.           *)
Changes == {"AddAdmin", "ChgAdmin", "DelAdmin", "AddTariff", "SetTariff", "DelTariff",
            "AddService", "SetService", "DelService", "AddUser", "SetUser", "Message"}

(* What the library tells its caller of a request is what the server did:  *)
(* a command runs at most once however its bytes arrive; success is told   *)
(* only of a command that ran and succeeded; a change that was answered is *)
(* told exactly once, and a failure before the request was written means   *)
(* that nothing ran.                                                       *)
ToldTheTruth ==
    \A c \in Clients :
        LET ran == conn[c].done
            told == cl[c].told
        IN
        /\ Len(ran) <= 1
        /\ cl[c].pc \in {"data", "answered", "done", "failed", "spin"} /\ Cmd(c) \in Changes =>
              /\ (\E i \in DOMAIN told : told[i]) => ran = <<"ok">>
              /\ cl[c].pc \in {"answered", "done"} => Len(ran) = 1 /\ told = <<ran[1] = "ok">>
        /\ cl[c].pc = "failed" /\ ~cl[c].sent => ran = <<>>

Promised(c) ==
    /\ Padded(plan[c].len) <= BUF
    /\ plan[c].zero = 0
    /\ \A i \in DOMAIN Cmds(c) : Cmds(c)[i] \in Registry

Excused(c) == serving # "run" \/ link[c].st = "broken"

(* Every request that fits the server's buffer and has no zero byte in its *)
(* encrypted text is answered, however it is cut in chunks and whoever else*)
(* connects, while the server runs and the connection holds; a request for *)
(* an unknown command is not promised an answer.                           *)
Answered == \A c \in Clients : Promised(c) ~> (Over(c) \/ Excused(c))
=============================================================================
