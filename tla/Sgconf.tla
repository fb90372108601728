------------------------------- MODULE Sgconf -------------------------------
(***************************************************************************)
(* The administration tool sgconf: its command line, its configuration     *)
(* files, and the commands it runs against the server with the client      *)
(* library (projects/sgconf).                                              *)
(*                                                                         *)
(* A word of the command line is an option or a value; an option that      *)
(* stands where a value is expected is taken for the value.  Of a value it *)
(* matters whether it can be converted: "bad" cannot, "short" is a list    *)
(* with fewer items than there are directions, any other word is good.     *)
(***************************************************************************)
EXTENDS Integers, Sequences, FiniteSets, TLC

CONSTANTS
    Lines,      \* the command lines
    Files,      \* the contents a configuration file can have
    Addresses   \* the connection strings, with the options each one sets

VARIABLES
    line,       \* the command line
    argv,       \* what is left of it
    block,      \* the number of the block that is parsed
    sub,        \* the command whose parameters are parsed, or "none"
    config,     \* struct CONFIG
    conns,      \* what the command line sets of it
    params,     \* m_params of every command
    commands,   \* COMMANDS
    sent,       \* the requests the server got
    pc, exit

vars == <<line, argv, block, sub, config, conns, params, commands, sent, pc, exit>>

Opt(w) == [k |-> "opt", w |-> w]

NoFields == [f \in {} |-> "none"]

With(fn, f, v) == [g \in DOMAIN fn \cup {f} |-> IF g = f THEN v ELSE fn[g]]

Splice(lhs, rhs) == [f \in DOMAIN lhs \cup DOMAIN rhs |-> IF f \in DOMAIN rhs THEN rhs[f] ELSE lhs[f]]

----------------------------------------------------------------------------
(* The options. *)

Param(f) == [kind |-> "param", field |-> f, arg |-> TRUE, params |-> {}]

Flag(f) == [kind |-> "flag", field |-> f, arg |-> FALSE, params |-> {}]

Func == [kind |-> "func", field |-> "none", arg |-> FALSE, params |-> {}]

Connection == [kind |-> "address", field |-> "none", arg |-> TRUE, params |-> {}]

Api(arg, ps) == [kind |-> "api", field |-> "none", arg |-> arg, params |-> ps]

GeneralOptions == [config |-> Param("configFile"), help |-> Func, version |-> Func]

ConnectionOptions ==
    [server |-> Param("server"), port |-> Param("port"), local_address |-> Param("localAddress"),
     local_port |-> Param("localPort"), username |-> Param("userName"),
     userpass |-> Param("userPass"), address |-> Connection]

DebugOptions == [show_config |-> Flag("showConfig")]

XMLOptions == [raw |-> Api(TRUE, {})]

InfoOptions == [server_info |-> Api(FALSE, {})]

AdminParams == {"password", "priv"}

AdminOptions ==
    [get_admins |-> Api(FALSE, {}), get_admin |-> Api(TRUE, {}), add_admin |-> Api(TRUE, AdminParams),
     del_admin |-> Api(TRUE, {}), chg_admin |-> Api(TRUE, AdminParams)]

Prices == {"day_prices", "night_prices"}

TariffParams ==
    {"fee", "free", "passive_cost", "traff_type", "period", "change_policy", "change_policy_timeout",
     "times", "thresholds"} \cup Prices

TariffOptions ==
    [get_tariffs |-> Api(FALSE, {}), get_tariff |-> Api(TRUE, {}),
     add_tariff |-> Api(TRUE, TariffParams), del_tariff |-> Api(TRUE, {}),
     chg_tariff |-> Api(TRUE, TariffParams)]

UserParams ==
    {"password", "cash_add", "cash_set", "credit", "credit_expire", "free", "disabled", "passive",
     "disable_detail_stat", "always_online", "ips", "tariff", "next_tariff", "group", "note",
     "email", "name", "address", "phone", "corp", "session_traffic", "month_traffic", "user_data"}

UserOptions ==
    [get_users |-> Api(FALSE, {}), get_user |-> Api(TRUE, {}), add_user |-> Api(TRUE, UserParams),
     del_user |-> Api(TRUE, {}), chg_user |-> Api(TRUE, UserParams),
     check_user |-> Api(TRUE, {"password"}), send_message |-> Api(FALSE, {"logins", "text"}),
     auth_by |-> Api(TRUE, {})]

ServiceParams == {"cost", "pay_day", "comment"}

ServiceOptions ==
    [get_services |-> Api(FALSE, {}), get_service |-> Api(TRUE, {}),
     add_service |-> Api(TRUE, ServiceParams), del_service |-> Api(TRUE, {}),
     chg_service |-> Api(TRUE, ServiceParams)]

CorpOptions ==
    [get_corps |-> Api(FALSE, {}), get_corp |-> Api(TRUE, {}), add_corp |-> Api(TRUE, {"cash"}),
     del_corp |-> Api(TRUE, {}), chg_corp |-> Api(TRUE, {"cash"})]

Blocks == <<GeneralOptions, ConnectionOptions, DebugOptions, XMLOptions, InfoOptions, AdminOptions,
            TariffOptions, UserOptions, ServiceOptions, CorpOptions>>

Apis == UNION {{o \in DOMAIN Blocks[b] : Blocks[b][o].kind = "api"} : b \in DOMAIN Blocks}

----------------------------------------------------------------------------
(* What a command makes of its parameters: the fields it sends.            *)

(* A number that cannot be read is passed over (MaybeSet). *)
Numbers == {"fee", "free", "passive_cost", "credit", "cost", "pay_day", "cash"}

(* Conversions that throw. *)
Strict == {"priv", "traff_type", "period", "change_policy", "change_policy_timeout", "times",
           "thresholds", "credit_expire", "session_traffic", "month_traffic",
           "cash_add", "cash_set"} \cup Prices

(* Lists with one item for each direction: a list that is short leaves     *)
(* directions unset, and the library sends only a list that is whole; for  *)
(* traffic it must be whole.                                               *)
Lists == {"thresholds"} \cup Prices

Traffic == {"session_traffic", "month_traffic"}

Throws(kv) ==
    \/ \E p \in DOMAIN kv \cap Strict : kv[p] = "bad"
    \/ \E p \in DOMAIN kv \cap Traffic : kv[p] = "short"

(* Prices for the day without prices for the night, for some direction. *)
HalfPriced(kv) ==
    LET priced(p) == IF p \notin DOMAIN kv THEN 0 ELSE IF kv[p] = "short" THEN 1 ELSE 2
    IN  priced("day_prices") # priced("night_prices")

Sendable(kv, ps) ==
    {p \in DOMAIN kv \cap ps : ~(p \in Numbers /\ kv[p] = "bad") /\ ~(p \in Lists /\ kv[p] = "short")}

Restricted(kv, ps) == [p \in ps |-> kv[p]]

AdminFunction(kv) == Restricted(kv, Sendable(kv, AdminParams))

TariffFunction(kv) == Restricted(kv, Sendable(kv, TariffParams))

(* Of two tariffs the library sends the delayed one, of cash to add and    *)
(* cash to set the cash to add.                                            *)
ChgUserFunction(kv) ==
    Restricted(kv, Sendable(kv, UserParams)
                   \ ((IF "next_tariff" \in DOMAIN kv THEN {"tariff"} ELSE {})
                      \cup (IF "cash_add" \in DOMAIN kv THEN {"cash_set"} ELSE {})))

(* add-user has no use for cash-add. *)
AddUserFunction(kv) == ChgUserFunction(Restricted(kv, DOMAIN kv \ {"cash_add"}))

ServiceFunction(kv) == Restricted(kv, Sendable(kv, ServiceParams))

CorpFunction(kv) == Restricted(kv, Sendable(kv, {"cash"}))

(* check-user and send-message miss what they need. *)
Missing(o, kv) ==
    \/ o = "check_user" /\ "password" \notin DOMAIN kv
    \/ o = "send_message" /\ ~({"logins", "text"} \subseteq DOMAIN kv)

(* Commands that read or delete send their argument and nothing more; the  *)
(* answer is printed, and it is not for the answer that a command fails.   *)
UserQueries == {"get_users", "get_user", "del_user", "auth_by"}

TariffQueries == {"get_tariffs", "get_tariff", "del_tariff"}

AdminQueries == {"get_admins", "get_admin", "del_admin"}

ServiceQueries == {"get_services", "get_service", "del_service"}

CorpQueries == {"get_corps", "get_corp", "del_corp"}

Queries == UserQueries \cup TariffQueries \cup AdminQueries \cup ServiceQueries \cup CorpQueries

Fields(o, kv) ==
    CASE o \in {"add_admin", "chg_admin"} -> AdminFunction(kv)
      [] o \in {"add_tariff", "chg_tariff"} -> TariffFunction(kv)
      [] o = "add_user" -> AddUserFunction(kv)
      [] o = "chg_user" -> ChgUserFunction(kv)
      [] o \in {"add_service", "chg_service"} -> ServiceFunction(kv)
      [] o \in {"add_corp", "chg_corp"} -> CorpFunction(kv)
      [] o \in {"check_user", "send_message"} -> kv
      [] o \in Queries \cup {"raw", "server_info"} -> NoFields

----------------------------------------------------------------------------
Init ==
    /\ line \in Lines /\ argv = line /\ block = 1 /\ sub = "none"
    /\ config = NoFields /\ conns = NoFields
    /\ params = [o \in Apis |-> NoFields]
    /\ commands = <<>> /\ sent = <<>>
    /\ pc = "parse" /\ exit = "none"

Exit(how) == pc' = "exit" /\ exit' = how

Options == Blocks[block]

Next1 == Head(argv)

Is(kind) ==
    /\ pc = "parse" /\ sub = "none" /\ argv # <<>> /\ block <= Len(Blocks)
    /\ Next1.k = "opt" /\ Next1.w \in DOMAIN Options /\ Options[Next1.w].kind = kind

MissingArgument == Len(argv) = 1

(* PARAM_ACTION::Parse; a port must be a number. *)
ParseParam ==
    /\ Is("param")
    /\ LET f == Options[Next1.w].field
       IN  IF MissingArgument \/ (f \in {"port", "localPort"} /\ argv[2].w = "bad")
           THEN Exit("error") /\ UNCHANGED <<argv, config>>
           ELSE /\ config' = With(config, f, argv[2].w)
                /\ argv' = SubSeq(argv, 3, Len(argv))
                /\ UNCHANGED <<pc, exit>>
    /\ UNCHANGED <<line, block, sub, conns, params, commands, sent>>

ParseFlag ==
    /\ Is("flag")
    /\ config' = With(config, Options[Next1.w].field, "yes")
    /\ argv' = Tail(argv)
    /\ UNCHANGED <<line, block, sub, conns, params, commands, sent, pc, exit>>

(* CONFIG_ACTION: <login>:<password>@<host>:<port>, or a part of it. *)
ParseConnection ==
    /\ Is("address")
    /\ IF MissingArgument \/ argv[2].w \notin DOMAIN Addresses
       THEN Exit("error") /\ UNCHANGED <<argv, config>>
       ELSE /\ config' = Splice(config, Addresses[argv[2].w])
            /\ argv' = SubSeq(argv, 3, Len(argv))
            /\ UNCHANGED <<pc, exit>>
    /\ UNCHANGED <<line, block, sub, conns, params, commands, sent>>

(* --help and --version end the program there and then. *)
ParseFunc ==
    /\ Is("func")
    /\ Exit("stop")
    /\ UNCHANGED <<line, argv, block, sub, config, conns, params, commands, sent>>

(* API_ACTION::Parse takes the argument, *)
ParseApi ==
    /\ Is("api")
    /\ LET need == Options[Next1.w].arg
       IN  IF need /\ MissingArgument
           THEN Exit("error") /\ UNCHANGED <<argv, sub>>
           ELSE /\ sub' = Next1.w
                /\ argv' = SubSeq(argv, IF need THEN 3 ELSE 2, Len(argv))
                /\ UNCHANGED <<pc, exit>>
    /\ UNCHANGED <<line, block, config, conns, params, commands, sent>>

OptionsOf(o) == Blocks[CHOOSE b \in DOMAIN Blocks : o \in DOMAIN Blocks[b]][o]

IsSub == argv # <<>> /\ Next1.k = "opt" /\ Next1.w \in OptionsOf(sub).params

(* then the parameters that follow it (KV_ACTION), into a map of its own   *)
(* that a second use of the same command finds as the first one left it,   *)
ParseSub ==
    /\ pc = "parse" /\ sub # "none" /\ IsSub
    /\ IF MissingArgument
       THEN Exit("error") /\ UNCHANGED <<argv, params>>
       ELSE /\ params' = [params EXCEPT ![sub] = With(@, Next1.w, argv[2].w)]
            /\ argv' = SubSeq(argv, 3, Len(argv))
            /\ UNCHANGED <<pc, exit>>
    /\ UNCHANGED <<line, block, sub, config, conns, commands, sent>>

(* and adds the command. *)
AddCommand ==
    /\ pc = "parse" /\ sub # "none" /\ ~IsSub
    /\ commands' = Append(commands, [o |-> sub, kv |-> params[sub]])
    /\ sub' = "none"
    /\ UNCHANGED <<line, argv, block, config, conns, params, sent, pc, exit>>

(* OPTION_BLOCKS::Parse: a word that the block does not know is left to    *)
(* the next block, and no block is tried twice.                            *)
NextBlock ==
    /\ pc = "parse" /\ sub = "none" /\ argv # <<>> /\ block <= Len(Blocks)
    /\ ~(Next1.k = "opt" /\ Next1.w \in DOMAIN Options)
    /\ block' = block + 1
    /\ UNCHANGED <<line, argv, sub, config, conns, params, commands, sent, pc, exit>>

UnknownOption ==
    /\ pc = "parse" /\ sub = "none" /\ argv # <<>> /\ block > Len(Blocks)
    /\ Exit("error")
    /\ UNCHANGED <<line, argv, block, sub, config, conns, params, commands, sent>>

Parsed ==
    /\ pc = "parse" /\ sub = "none" /\ argv = <<>>
    /\ pc' = IF "configFile" \in DOMAIN config THEN "file" ELSE "main file"
    /\ conns' = config
    /\ UNCHANGED <<line, argv, block, sub, config, params, commands, sent, exit>>

----------------------------------------------------------------------------
(* Configuration files.  The block of connection options is reached by a   *)
(* reference that adding the other blocks has left dangling: its options   *)
(* are found, or none is, or the program crashes.                          *)

(* OPTION_BLOCK::ParseFile of a file that is there. *)
ParseFile(f, then) ==
    \/ f.good /\ config' = Splice(config, f.set) /\ pc' = then /\ UNCHANGED exit
    \/ f.good /\ UNCHANGED <<config, exit>> /\ pc' = then
    \/ ~f.good /\ Exit("exception") /\ UNCHANGED config
    \/ Exit("crash") /\ UNCHANGED config

Absent(then) == pc' = then /\ UNCHANGED <<config, exit>>

ReadFile ==
    /\ \/ pc = "file" /\ \E f \in Files : ParseFile(f, "splice")
       \/ pc = "file" /\ Exit("exception") /\ UNCHANGED config
       \/ pc = "main file" /\ (Absent("user file") \/ \E f \in Files : ParseFile(f, "user file"))
       \/ pc = "user file" /\ (Absent("splice") \/ \E f \in Files : ParseFile(f, "splice"))
    /\ UNCHANGED <<line, argv, block, sub, conns, params, commands, sent>>

SpliceUnder ==
    /\ pc = "splice"
    /\ config' = Splice(conns, config)
    /\ IF "showConfig" \in DOMAIN config' THEN Exit("stop") ELSE pc' = "execute" /\ UNCHANGED exit
    /\ UNCHANGED <<line, argv, block, sub, conns, params, commands, sent>>

(* What the command line sets goes over what the files set. *)
SpliceConfig ==
    /\ pc = "splice"
    /\ config' = Splice(config, conns)
    /\ IF "showConfig" \in DOMAIN config' THEN Exit("stop") ELSE pc' = "execute" /\ UNCHANGED exit
    /\ UNCHANGED <<line, argv, block, sub, conns, params, commands, sent>>

----------------------------------------------------------------------------
(* COMMANDS::Execute: one command after another, until one fails. *)

Needed == {"server", "port", "localAddress", "localPort", "userName", "userPass"}

(* makeProto takes the value of every connection option. *)
Incomplete == ~(Needed \subseteq DOMAIN config)

Refuses(c) ==
    \/ Throws(c.kv) \/ Missing(c.o, c.kv)
    \/ c.o \in {"add_tariff", "chg_tariff"} /\ HalfPriced(c.kv)

Execute ==
    /\ pc = "execute" /\ commands # <<>>
    /\ LET c == Head(commands)
       IN  \/ /\ Incomplete \/ Refuses(c)
              /\ Exit(IF Refuses(c) THEN "exception" ELSE "no value")
              /\ UNCHANGED <<commands, sent>>
           \/ /\ ~Incomplete /\ ~Refuses(c)             \* the transport fails
              /\ Exit("failed")
              /\ UNCHANGED <<commands, sent>>
           \/ /\ ~Incomplete /\ ~Refuses(c)             \* Success, or Operation failed
              /\ sent' = Append(sent, [o |-> c.o, conf |-> config, fields |-> Fields(c.o, c.kv)])
              /\ commands' = Tail(commands)
              /\ UNCHANGED <<pc, exit>>
    /\ UNCHANGED <<line, argv, block, sub, config, conns, params>>

Done ==
    /\ pc = "execute" /\ commands = <<>>
    /\ Exit("ok")
    /\ UNCHANGED <<line, argv, block, sub, config, conns, params, commands, sent>>

----------------------------------------------------------------------------
Next ==
    \/ ParseParam \/ ParseFlag \/ ParseConnection \/ ParseFunc \/ ParseApi \/ ParseSub \/ AddCommand
    \/ NextBlock \/ UnknownOption \/ Parsed
    \/ ReadFile \/ SpliceConfig \/ Execute \/ Done

Spec == Init /\ [][Next]_vars

----------------------------------------------------------------------------
(* The commands of a command line, in their order. *)
Asked == SelectSeq(line, LAMBDA w : w.k = "opt" /\ w.w \in Apis)

(* The line gives the parameter p of a command o the value v. *)
Given(o, p, v) ==
    \E j, k \in DOMAIN line :
        /\ j < k /\ line[j] = Opt(o) /\ line[k] = Opt(p) /\ line[k + 1].w = v
        /\ \A m \in (j + 1)..k : line[m].w \notin Apis

(* The command line is carried out as it was written or not at all.        *)
(* Nothing is sent before the whole of it has been understood; what is     *)
(* sent are its commands, from the first on and in order, and all of them  *)
(* when the program exits with 0; every request goes where the command     *)
(* line says, whatever the files say of it, and carries nothing that the   *)
(* line does not give to a command of that name.                           *)
CommandLineHonoured ==
    /\ sent # <<>> => argv = <<>>
    /\ Len(sent) <= Len(Asked)
    /\ exit = "ok" => Len(sent) = Len(Asked)
    /\ \A i \in DOMAIN sent :
          /\ sent[i].o = Asked[i].w
          /\ \A f \in DOMAIN conns : sent[i].conf[f] = conns[f]
          /\ \A p \in DOMAIN sent[i].fields : Given(sent[i].o, p, sent[i].fields[p])
=============================================================================
