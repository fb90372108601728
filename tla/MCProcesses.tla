----------------------------- MODULE MCProcesses -----------------------------
(***************************************************************************)
(* Processes that talk to each other: administration clients and the       *)
(* server (ConfProto), the server's own life with its plugins and script   *)
(* executers (Server), the daemon on a router and the plugin that tells it *)
(* who is there (RScript), and a program and the Firebird server           *)
(* (IbppEvents).  A behaviour is about one of them, the part.              *)
(***************************************************************************)
EXTENDS ConfProto

CONSTANTS c1, c2

Plan(call, adm, len, zero) == [call |-> call, adm |-> adm, len |-> len, zero |-> zero]
Two(p, q) == [c \in Clients |-> IF c = c1 THEN p ELSE q]
NoPlan == Plan("Idle", "good", 2, 0)

\* Requests around the size of a block and of the buffer, with a zero byte in
\* different places; bad headers and logins; every call; two clients.
MCPlans ==
    {Two(Plan(cc, "good", len, z), NoPlan) :
        cc \in {"AddUser", "ChgAdmin"}, len \in {2, 3, 4, 5}, z \in {0, 1, 3}}
      \cup {Two(Plan("ChgUser", a, 3, 0), NoPlan) : a \in {"alien", "nobody", "wrong"}}
      \cup {Two(Plan(cc, "good", 3, 0), NoPlan) : cc \in DOMAIN ServConf}
      \cup {Two(Plan("ChgTariff", "good", 3, 1), Plan("GetUsers", "good", 2, 0))}

VARIABLES part,
    pc, parent, startFile, file, settings, executers, procs, queue, pend, mod, conf, turn, on,
    events,
    currIP, connected, inetable, authorizedUsers, netRouters, server, net, pending, users,
    processor, daemon, gate, last, changes, faults,
    entries, queued, trapped, attached, open, request, posted, edits, svc, failures

serverVars == <<pc, parent, startFile, file, settings, executers, procs, queue, pend, mod, conf,
                turn, on, events>>
routerVars == <<currIP, connected, inetable, authorizedUsers, netRouters, server, net, pending,
                users, processor, daemon, gate, last, changes, faults>>
eventVars  == <<entries, queued, trapped, attached, open, request, posted, edits, svc, failures>>
allVars    == <<part, vars, serverVars, routerVars, eventVars>>

-----------------------------------------------------------------------------
\* A file with everything, one that leaves out what has defaults, a bad one.
File(good, log, num, mods, params) ==
    [good |-> good, log |-> log, num |-> num, mods |-> mods, params |-> params]

S == INSTANCE Server WITH
       Pids <- {1, 2}, Modules <- {1}, QLEN <- 1, MaxEvents <- 2,
       Files <- {File(TRUE, "a", 1, <<"x">>, <<"p">>), File(TRUE, "unset", 2, <<>>, <<>>),
                 File(FALSE, "unset", 1, <<>>, <<>>)}

Line(k, n, rs) == [kind |-> k, net |-> n, routers |-> rs]
AddrsOf(u) == IF u = 1 THEN {1, 3} ELSE {2}

R == INSTANCE RScript WITH
       Users <- {1, 2}, Addrs <- AddrsOf, Router <- 1, UserTimeout <- 1,
       MaxChanges <- 2, MaxNet <- 2, MaxFaults <- 1,
       Files <- {<<Line("net", {1, 2}, <<1>>), Line("net", {3}, <<2, 1>>)>>,
                 <<Line("blank", {}, <<>>), Line("net", {1, 2, 3}, <<2>>)>>,
                 <<Line("net", {1}, <<1>>), Line("bad", {2}, <<1>>)>>}

E == INSTANCE IbppEvents WITH
       Names <- {"e1", "e2"}, MaxEntries <- 2, MaxPosts <- 2, MaxChanges <- 3, MaxLines <- 2,
       MaxFaults <- 2, connected <- open, changes <- edits, faults <- failures

-----------------------------------------------------------------------------
NoCalls == plan = 0 /\ cl = 0 /\ link = 0 /\ conn = 0 /\ serving = 0 /\ breaks = 0

NoServer ==
    /\ pc = 0 /\ parent = 0 /\ startFile = 0 /\ file = 0 /\ settings = 0 /\ executers = 0
    /\ procs = 0 /\ queue = 0 /\ pend = 0 /\ mod = 0 /\ conf = 0 /\ turn = 0 /\ on = 0
    /\ events = 0

NoRouter ==
    /\ currIP = 0 /\ connected = 0 /\ inetable = 0 /\ authorizedUsers = 0 /\ netRouters = 0
    /\ server = 0 /\ net = 0 /\ pending = 0 /\ users = 0 /\ processor = 0 /\ daemon = 0
    /\ gate = 0 /\ last = 0 /\ changes = 0 /\ faults = 0

NoEvents ==
    /\ entries = 0 /\ queued = 0 /\ trapped = 0 /\ attached = 0 /\ open = 0 /\ request = 0
    /\ posted = 0 /\ edits = 0 /\ svc = 0 /\ failures = 0

MCInit ==
    \/ part = "calls" /\ Init /\ NoServer /\ NoRouter /\ NoEvents
    \/ part = "server" /\ NoCalls /\ S!Init /\ NoRouter /\ NoEvents
    \/ part = "router" /\ NoCalls /\ NoServer /\ R!Init /\ NoEvents
    \/ part = "events" /\ NoCalls /\ NoServer /\ NoRouter /\ E!Init

Calls  == part = "calls" /\ UNCHANGED <<part, serverVars, routerVars, eventVars>>
Daemon == part = "server" /\ UNCHANGED <<part, vars, routerVars, eventVars>>
Routed == part = "router" /\ UNCHANGED <<part, vars, serverVars, eventVars>>
Events == part = "events" /\ UNCHANGED <<part, vars, serverVars, routerVars>>

MCNext ==
    \/ Calls /\ Next
    \/ Daemon /\ S!Next
    \/ Routed /\ R!Next
    \/ Events /\ E!Next

\* The fairness of the part the behaviour is about (that of ConfProto, Server,
\* RScript and IbppEvents).  Since the part does not change, the fairness of a
\* disjunction is that of its own disjunct.
MCFairness ==
    /\ WF_allVars(\/ Calls /\ ClientStep(c1)
                  \/ Daemon /\ S!MainStep
                  \/ Routed /\ \E u \in {1, 2} : R!Connect(u) \/ R!Disconnect(u)
                  \/ Events /\ E!EventHandler /\ UNCHANGED svc)
    /\ WF_allVars(\/ Calls /\ ClientStep(c2)
                  \/ Daemon /\ S!Executer(1)
                  \/ Routed /\ R!RecvPacket
                  \/ Events /\ E!Dispatch /\ UNCHANGED svc)
    /\ WF_allVars(\/ Calls /\ ServerStep(c1)
                  \/ Daemon /\ S!Executer(2)
                  \/ Routed /\ R!Unheard)
    /\ WF_allVars(\/ Calls /\ ServerStep(c2)
                  \/ Routed /\ (R!ProcessPending \/ R!ErasePending))
    /\ WF_allVars(Routed /\ R!ProcessTimeouts)
    /\ WF_allVars(Routed /\ R!Tick)

MCSpec == MCInit /\ [][MCNext]_allVars /\ MCFairness

-----------------------------------------------------------------------------
\* What a client is told is what the server did (ConfProto!ToldTheTruth,
\* stglibs/srvconf.lib and sgconfig/conn.cpp).
CallersToldTheTruth == part = "calls" => ToldTheTruth

Owed(c)    == part = "calls" /\ Promised(c)
Settled(c) == part = "calls" /\ (Over(c) \/ Excused(c))

\* Every request that can be answered is answered (ConfProto!Answered,
\* sgconfig/configproto.cpp and conn.cpp).
CallersAnswered == \A c \in Clients : Owed(c) ~> Settled(c)

\* The server's view of its children and its parent is true
\* (Server!OrderlyLife, projects/stargazer/main.cpp).
OrderlyLife == part = "server" => S!OrderlyLife

Killing  == part = "server" /\ pc = "kill"
AllEnded == part = "server" /\ \A p \in {1, 2} : ~S!Alive(p)

\* No executer outlives the server (Server!ExecutersEnd,
\* projects/stargazer/main.cpp).
ExecutersEnd == Killing ~> AllEnded
\* The scripts on a router run in turn for those who are there, and the
\* plugin speaks of nobody else (RScript!ScriptsAlternate and
\* EntriesAreCurrent, projects/rscriptd and rscript.cpp).
ScriptsRight == part = "router" => R!ScriptsAlternate /\ R!EntriesAreCurrent

Away(u)   == part = "router" => R!Off(u)
Barred(u) == part = "router" => (daemon = "up" => ~R!Passes(u))

\* A user who stays away is off the router in the end (RScript!OffInTheEnd,
\* projects/rscriptd/listener.cpp).
OffInTheEnd == \A u \in {1, 2} : <>[]Away(u) => <>[]Barred(u)

\* A program is told of events as often as they were posted, and no task of
\* the service manager is taken for ended before it is
\* (IbppEvents!EventsCounted and WaitedOut, events.cpp and service.cpp).
EventsRight == part = "events" => E!EventsCounted /\ E!WaitedOut

UpToDate == part = "events" => ~E!Behind

\* Every event is told in the end (IbppEvents!EventsTold, events.cpp).
EventsTold == []<>UpToDate
=============================================================================
