------------------------------ MODULE MCConfig ------------------------------
(***************************************************************************)
(* Administration: the two plugins that serve administrators (Config) and  *)
(* the command line client (Sgconf).  A behaviour is about one of them,    *)
(* the part; the other does nothing.                                       *)
(***************************************************************************)
EXTENDS Config

Tariff(n, f) == [name |-> n, fee |-> f, free |-> 0]

TheTariffs == <<Tariff("t1", 1), Tariff("t2", 2), Tariff("t3", 4)>>

User(t, i) ==
    [ips |-> "any", alwaysOnline |-> 0, note |-> "", passive |-> 0, password |-> "",
     tariffName |-> t, nextTariff |-> "", cash |-> 10, freeMb |-> 0, up |-> 0,
     tariff |-> [gen |-> 1, i |-> i], mt |-> [f \in ConfProps \cup StatProps |-> 2]]

TheUsers == [u \in Logins |-> IF u = "u1" THEN User("t2", 2) ELSE User("t3", 3)]

Root == [name |-> "root", priv |-> Rights, password |-> "pw"]

Clerk == [name |-> "clerk", priv |-> {"userConf"}, password |-> ""]

ByName(s) == [n \in {s[i].name : i \in DOMAIN s} |-> s[IndexOf(s, n)]]

MCStart ==
    [core |-> [tariffs |-> TheTariffs, services |-> <<>>, corps |-> <<>>, admins |-> <<Clerk, Root>>,
               buf |-> [t \in {"tariffs", "services", "corps", "admins"} |->
                          [gen |-> 1, cap |-> CASE t = "tariffs" -> 4 [] t = "admins" -> 2 [] OTHER -> 0]],
               users |-> TheUsers, gone |-> {}],
     disk |-> [tariffs |-> ByName(TheTariffs), services |-> <<>>, corps |-> <<>>,
               admins |-> ByName(<<Clerk, Root>>),
               conf |-> [u \in Logins |-> [f \in ConfProps |-> TheUsers[u][f]]],
               stat |-> [u \in Logins |-> [f \in StatProps |-> TheUsers[u][f]]]],
     rows |-> {TheTariffs[i] : i \in DOMAIN TheTariffs}]

Set(admin, u, set) == [op |-> "SetUser", admin |-> admin, u |-> u, set |-> set, add |-> FALSE]

RpcSet(u, set) == [op |-> "SetUser", cookie |-> "k", u |-> u, set |-> set, add |-> FALSE]

Login == [op |-> "login", admin |-> "root", password |-> "pw", cookie |-> "k"]

Cash(sum, add) ==
    [op |-> "Cash", cookie |-> "k", u |-> "u1", set |-> [cash |-> sum], add |-> add]

ChangeTariff(set) ==
    [op |-> "Tariff", cookie |-> "k", u |-> "u1", set |-> set, add |-> FALSE]

(* Two administrators change the same user, or the rights of one another. *)
UserMenu ==
    [sg |-> {Set("root", "u1", [ips |-> "a", alwaysOnline |-> 1, note |-> "n"]),
             Set("clerk", "u1", [ips |-> "any", note |-> "m", freeMb |-> 1, cash |-> 5]),
             Set("clerk", "u1", [ips |-> "any", tariffName |-> "t1", nextTariff |-> "t3", passive |-> 1]),
             Set("clerk", "u1", [ips |-> "a", tariffName |-> "none"]),
             Set("root", "u1", [ips |-> "a", nextTariff |-> "none"]),
             Set("root", "u1", [note |-> "o"]),
             [op |-> "ChgAdmin", admin |-> "root", name |-> "clerk", set |-> [password |-> "x"]],
             [op |-> "GetUsers", admin |-> "root"]},
     rpc |-> {Login,
              [op |-> "logout", cookie |-> "k"],
              RpcSet("u1", [note |-> "r", up |-> 1]),
              RpcSet("u1", [tariffName |-> "t2", nextTariff |-> "t1"]),
              RpcSet("u1", [tariffName |-> "none", nextTariff |-> "none"]),
              Cash(3, TRUE), Cash(7, FALSE),
              ChangeTariff([tariffName |-> "t3"]), ChangeTariff([nextTariff |-> "t1"]),
              [op |-> "DelAdmin", cookie |-> "k", name |-> "clerk"]}]

(* They add, change and delete rows of the tables, and users. *)
TableMenu ==
    [sg |-> {[op |-> "AddTariff", admin |-> "root", name |-> "t4"],
             [op |-> "DelTariff", admin |-> "root", name |-> "t1"],
             [op |-> "SetTariff", admin |-> "root", name |-> "t4", what |-> "free", val |-> 1],
             [op |-> "AddService", admin |-> "root", name |-> "s"],
             [op |-> "SetService", admin |-> "root", name |-> "s", set |-> [cost |-> 1]],
             [op |-> "DelService", admin |-> "root", name |-> "s"],
             [op |-> "AddAdmin", admin |-> "root", name |-> "new"],
             [op |-> "DelAdmin", admin |-> "root", name |-> "new"],
             [op |-> "AddUser", admin |-> "root", u |-> "u3"],
             [op |-> "DelUser", admin |-> "root", u |-> "u3"],
             Set("root", "u3", [ips |-> "any", tariffName |-> "t2"])},
     rpc |-> {Login,
              [op |-> "AddTariff", cookie |-> "k", name |-> "t5"],
              [op |-> "DelTariff", cookie |-> "k", name |-> "t4"],
              [op |-> "SetTariff", cookie |-> "k", name |-> "t4", what |-> "fee", val |-> 2],
              [op |-> "AddAdmin", cookie |-> "k", name |-> "new"],
              [op |-> "ChgAdmin", cookie |-> "k", name |-> "root", set |-> [priv |-> {"adminChg"}]],
              [op |-> "AddUser", cookie |-> "k", u |-> "u3"],
              [op |-> "DelUser", cookie |-> "k", u |-> "u3"]}]

(* A tariff is deleted while a user gets it; rights end while they are used. *)
RaceMenu ==
    [sg |-> {[op |-> "DelTariff", admin |-> "root", name |-> "t1"],
             Set("root", "u1", [ips |-> "any", tariffName |-> "t2"]),
             Set("root", "u1", [ips |-> "any", nextTariff |-> "t3"])},
     rpc |-> {Login,
              ChangeTariff([tariffName |-> "t1"]),
              RpcSet("u1", [tariffName |-> "t2", nextTariff |-> "t3"]),
              [op |-> "ChgAdmin", cookie |-> "k", name |-> "root", set |-> [priv |-> {"adminChg"}]]}]

MCMenus == {UserMenu, TableMenu, RaceMenu}

TariffMenu ==
    {[sg |-> {[op |-> "AddTariff", admin |-> "root", name |-> "t4"],
              [op |-> "DelTariff", admin |-> "root", name |-> "t1"]},
      rpc |-> {}]}

MCRequests == [sg |-> 2, rpc |-> 1]

MCEvents == [fault |-> 1, charge |-> 1, restart |-> 1, second |-> 1]

----------------------------------------------------------------------------
(* Command lines of sgconf, and what configuration files may say. *)

O(w) == <<[k |-> "opt", w |-> w]>>
V(w) == <<[k |-> "val", w |-> w]>>
P(o, v) == O(o) \o V(v)

Where == P("server", "a") \o P("port", "1") \o P("local_address", "l") \o P("local_port", "0")
         \o P("username", "u") \o P("userpass", "p")

MCAddresses == [host |-> [server |-> "host"],
                full |-> [server |-> "full", port |-> "full", userName |-> "full", userPass |-> "full"]]

MCLines ==
    { O("help"),
      Where \o P("config", "f"),                            \* an earlier block after a later one
      P("server", "a") \o O("show_config"),
      P("config", "f") \o P("address", "full") \o P("get_user", "x"),
      P("address", "host") \o P("port", "bad"),
      P("address", "bad"), O("address"), O("server"), P("config", "f") \o O("get_user"),
      P("username", "u") \o O("username") \o O("help"),
      O("server_info"),
      Where \o P("raw", "x") \o O("get_admins"),
      Where \o P("add_admin", "x") \o P("priv", "v") \o P("password", "p"),
      Where \o P("chg_admin", "x") \o P("priv", "bad"),
      Where \o P("add_tariff", "x") \o P("day_prices", "v") \o P("fee", "bad"),
      Where \o P("chg_tariff", "x") \o P("day_prices", "short") \o P("night_prices", "short") \o P("times", "v"),
      Where \o P("add_user", "x") \o P("cash_add", "v") \o P("tariff", "t") \o P("next_tariff", "n"),
      Where \o P("chg_user", "x") \o P("cash_add", "v") \o P("chg_user", "y") \o P("cash_set", "w"),
      Where \o P("chg_user", "x") \o P("month_traffic", "short") \o P("get_service", "s"),
      Where \o P("check_user", "x") \o P("chg_service", "s") \o P("cost", "v"),
      Where \o O("send_message") \o P("logins", "x") \o P("text", "t") \o P("chg_corp", "c") \o P("cash", "bad"),
      Where \o P("chg_user", "x") \o O("note") }

MCFiles == { [good |-> FALSE, set |-> <<>>],
             [good |-> TRUE, set |-> [server |-> "file", port |-> "9", localAddress |-> "f", localPort |-> "0",
                                      userName |-> "file", userPass |-> "file"]],
             [good |-> TRUE, set |-> [localAddress |-> "f", userPass |-> "file"]] }

VARIABLES part, line, argv, block, sub, config, conns, params, commands, sent, pc, exit

clientVars == <<line, argv, block, sub, config, conns, params, commands, sent, pc, exit>>

S == INSTANCE Sgconf WITH Lines <- MCLines, Files <- MCFiles, Addresses <- MCAddresses

NoClient ==
    /\ line = 0 /\ argv = 0 /\ block = 0 /\ sub = 0 /\ config = 0 /\ conns = 0 /\ params = 0
    /\ commands = 0 /\ sent = 0 /\ pc = 0 /\ exit = 0

MCInit ==
    /\ Init
    /\ \/ part = "server" /\ NoClient
       \/ part = "client" /\ S!Init

MCNext ==
    \/ part = "server" /\ Next /\ UNCHANGED <<part, clientVars>>
    \/ part = "client" /\ S!Next /\ UNCHANGED <<part, vars>>

MCSpec == MCInit /\ [][MCNext]_<<part, vars, clientVars>>

(* sgconf carries out a command line as it was written or not at all       *)
(* (Sgconf!CommandLineHonoured, projects/sgconf).                          *)
CommandLineHonoured == part = "client" => S!CommandLineHonoured
============================================================================
