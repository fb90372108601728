------------------------------ MODULE RScript ------------------------------
(***************************************************************************)
(* Remote scripts: the server plugin (plugins/other/rscript) tells a       *)
(* router over UDP who may pass, and the daemon on the router              *)
(* (projects/rscriptd) runs OnConnect and OnDisconnect.  Nothing is        *)
(* acknowledged: the server repeats itself, every third time in full, and  *)
(* the daemon forgets a user it has not heard of for UserTimeout.          *)
(*                                                                         *)
(* A user is a number, which stands for the login and its place in the     *)
(* order.  One router is looked at, Router; the map file may give the      *)
(* subnet to another one.                                                  *)
(***************************************************************************)
EXTENDS Integers, Sequences, FiniteSets

LOCAL INSTANCE TLC

CONSTANTS
    Users,          \* logins, numbers
    Addrs(_),       \* the addresses of a user, numbers above 0
    Router,         \* the router looked at
    Files,          \* contents the map file may have: sequences of lines
    UserTimeout,
    MaxChanges,     \* bound on the events at the server, the repeated packets included
    MaxNet,         \* bound on the packets on their way and not processed
    MaxFaults       \* bound on lost, doubled and overtaken packets

VARIABLES
    currIP, connected, inetable,    \* the users, in the server
    authorizedUsers,                \* entries of the plugin, keyed by ip
    netRouters,                     \* the map in use: subnets and their routers, in order
    server,                         \* the plugin: "none", "failed", "up" or "down"
    net,                            \* packets to Router, oldest first
    pending, users,                 \* the daemon: what it received, whom it serves
    processor,                      \* packets its processing thread has gone through
    daemon,                         \* "none", "up", "deaf", "stopping", "down", "broken"
    gate, last,                     \* addresses the scripts let pass; last script of a user
    changes, faults

people  == <<currIP, connected, inetable>>
plugin  == <<authorizedUsers, netRouters, server>>
scripts == <<gate, last>>
vars    == <<people, plugin, net, pending, users, processor, daemon, scripts, changes, faults>>

Init ==
    /\ currIP = [u \in Users |-> 0]
    /\ connected = [u \in Users |-> FALSE]
    /\ inetable = [u \in Users |-> TRUE]
    /\ authorizedUsers = {}
    /\ netRouters = <<>> /\ server = "none"
    /\ net = <<>>
    /\ pending = <<>> /\ users = <<>> /\ processor = 0
    /\ daemon = "none"
    /\ gate = {} /\ last = [u \in Users |-> "none"]
    /\ changes = 0 /\ faults = 0

----------------------------------------------------------------------------
(* The server plugin. *)

Event == daemon # "none" /\ server # "none" /\ changes < MaxChanges /\ changes' = changes + 1

(* ParseLine: a line of the map file has a subnet, here its addresses, and *)
(* routers, which are kept in ascending order.                             *)
Members(s) == {s[i] : i \in DOMAIN s}

ParseLine(l) ==
    [bad |-> l.kind = "bad" \/ l.routers = <<>> \/ 0 \in Members(l.routers),
     net |-> l.net,
     routers |-> SortSeq(l.routers, LAMBDA a, b : a < b)]

(* ReadFile: one bad line spoils the file; empty lines are passed over. *)
Lines(f) == SelectSeq(f, LAMBDA l : l.kind # "blank")

ReadFile(f) ==
    LET ls == Lines(f)
        rs == [i \in DOMAIN ls |-> ParseLine(ls[i])]
    IN  [bad |-> f = <<>> \/ \E i \in DOMAIN rs : rs[i].bad,      \* <<>>: it cannot be opened
         map |-> [i \in DOMAIN rs |-> [net |-> rs[i].net, routers |-> rs[i].routers]]]

(* IP2Routers: the first subnet that has the address. *)
IP2Routers(map, a) ==
    LET hits == {i \in DOMAIN map : a \in map[i].net}
    IN  IF hits = {} THEN <<>> ELSE map[CHOOSE i \in hits : \A j \in hits : i <= j].routers

(* SETTINGS::ParseSettings and Start: a parameter that is missing or wrong *)
(* stops the server; a map file with an error in it leaves the map empty.  *)
StartPlugin ==
    /\ server = "none"
    /\ \/ server' = "failed" /\ UNCHANGED netRouters
       \/ /\ server' = "up"
          /\ \E f \in Files : netRouters' = IF ReadFile(f).bad THEN <<>> ELSE ReadFile(f).map
    /\ UNCHANGED <<people, authorizedUsers, net, pending, users, processor, daemon, scripts, changes, faults>>

(* The users it knows: an address, the user it was given to, packets sent  *)
(* and the routers.                                                        *)
NewRSU(u, a, routers) == [ip |-> a, user |-> u, n |-> 0, routers |-> routers]

(* PreparePacket: in full one time in three. *)
Type(e, force, inet) ==
    IF force \/ ~inet THEN "disconnect"
    ELSE IF e.n % 3 = 0 THEN "connect" ELSE "alive"

Packet(e, force, inet) == [type |-> Type(e, force, inet), user |-> e.user, ip |-> e.ip]

Sent(e) == [e EXCEPT !.n = (e.n + 1) % 3]

(* Send: the loop over the routers returns from its first round. *)
Send(e, force, inet) ==
    IF e.routers # <<>> /\ e.routers[1] = Router THEN <<Packet(e, force, inet)>> ELSE <<>>

SendDirect(e, router, force, inet) ==
    IF router = Router THEN <<Packet(e, force, inet)>> ELSE <<>>

Wire(ps) == net' = net \o ps /\ (ps # <<>> => Len(net') + Len(pending) <= MaxNet)

(* AddRSU: the packet is sent in any case; the entry of an address that is *)
(* there already stays as it is.                                           *)
AddRSU(es, u, a) ==
    IF \E e \in es : e.ip = a THEN es
    ELSE es \cup {Sent(NewRSU(u, a, IP2Routers(netRouters, a)))}

(* DelRSU: the first entry of the user, whatever its address is now. *)
OfUser(es, u, a) == {e \in es : e.user = u}

FirstOf(S) == {e \in S : \A f \in S : e.ip <= f.ip}

Found(es, u, a) == FirstOf(OfUser(es, u, a))

DelRSU(es, u, a) == es \ Found(es, u, a)

Farewell(es, u, a) ==
    IF Found(es, u, a) = {} THEN <<>>
    ELSE Send(CHOOSE e \in Found(es, u, a) : TRUE, TRUE, FALSE)

(* User::Authorize sets the address, and the plugin hears of it. *)
Authorize(u) ==
    /\ Event /\ currIP[u] = 0
    /\ \E a \in Addrs(u) :
          /\ \A v \in Users : currIP[v] # a
          /\ currIP' = [currIP EXCEPT ![u] = a]
          /\ IF server = "up"
             THEN /\ Wire(Send(NewRSU(u, a, IP2Routers(netRouters, a)), FALSE, inetable[u]))
                  /\ authorizedUsers' = AddRSU(authorizedUsers, u, a)
             ELSE UNCHANGED <<net, authorizedUsers>>
    /\ UNCHANGED <<connected, inetable, netRouters, server, pending, users, processor, daemon, scripts, faults>>

(* User::Run connects who may have the Internet, *)
Connect(u) ==
    /\ currIP[u] # 0 /\ inetable[u] /\ ~connected[u]
    /\ connected' = [connected EXCEPT ![u] = TRUE]
    /\ IF server = "up"
       THEN /\ Wire(Send(NewRSU(u, currIP[u], IP2Routers(netRouters, currIP[u])), FALSE, TRUE))
            /\ authorizedUsers' = AddRSU(authorizedUsers, u, currIP[u])
       ELSE UNCHANGED <<net, authorizedUsers>>
    /\ UNCHANGED <<currIP, inetable, netRouters, server, pending, users, processor, daemon, scripts, changes, faults>>

(* and disconnects who may not. *)
Disconnect(u) ==
    /\ connected[u] /\ ~inetable[u]
    /\ connected' = [connected EXCEPT ![u] = FALSE]
    /\ IF server = "up"
       THEN /\ Wire(Farewell(authorizedUsers, u, currIP[u]))
            /\ authorizedUsers' = DelRSU(authorizedUsers, u, currIP[u])
       ELSE UNCHANGED <<net, authorizedUsers>>
    /\ UNCHANGED <<currIP, inetable, netRouters, server, pending, users, processor, daemon, scripts, changes, faults>>

(* User::Unauthorize: the address is 0 when the plugin is told of it, and  *)
(* the end of the connection is told after that.                           *)
Unauthorize(u) ==
    /\ Event /\ currIP[u] # 0
    /\ currIP' = [currIP EXCEPT ![u] = 0]
    /\ connected' = [connected EXCEPT ![u] = FALSE]
    /\ IF server = "up"
       THEN LET es == DelRSU(authorizedUsers, u, 0)
                ds == IF connected[u] THEN DelRSU(es, u, 0) ELSE es
            IN  /\ authorizedUsers' = ds
                /\ Wire(Farewell(authorizedUsers, u, 0)
                        \o (IF connected[u] THEN Farewell(es, u, 0) ELSE <<>>))
       ELSE UNCHANGED <<net, authorizedUsers>>
    /\ UNCHANGED <<inetable, netRouters, server, pending, users, processor, daemon, scripts, faults>>

(* Money, and the administrator, decide who may have the Internet. *)
Change(u) ==
    /\ Event
    /\ inetable' = [inetable EXCEPT ![u] = ~@]
    /\ UNCHANGED <<currIP, connected, plugin, net, pending, users, processor, daemon, scripts, faults>>

(* PeriodicSend: an entry is repeated from time to time. *)
PeriodicSend(e) ==
    /\ Event /\ server = "up" /\ e \in authorizedUsers
    /\ Wire(Send(e, FALSE, inetable[e.user]))
    /\ authorizedUsers' = (authorizedUsers \ {e}) \cup {Sent(e)}
    /\ UNCHANGED <<people, netRouters, server, pending, users, processor, daemon, scripts, faults>>

(* UpdateRouter: merge of the old and the new routers of an entry, both in *)
(* ascending order; only where they differ is a router told.               *)
UpdateRouter(e, routers, inet) ==
    LET f == [e EXCEPT !.n = 0]
        gone == Members(e.routers) \ Members(routers)
        come == Members(routers) \ Members(e.routers)
    IN  [entry |-> [(IF gone \cup come = {} THEN f ELSE Sent(f)) EXCEPT !.routers = routers],
         said  |-> IF Router \in gone THEN SendDirect(f, Router, TRUE, inet)
                   ELSE IF Router \in come THEN SendDirect(f, Router, FALSE, inet)
                   ELSE <<>>]

Updated(e, map) == UpdateRouter(e, IP2Routers(map, e.ip), inetable[e.user])

RECURSIVE SaidTo(_, _)
SaidTo(es, map) ==
    IF es = {} THEN <<>>
    ELSE LET e == CHOOSE x \in es : \A y \in es : x.ip <= y.ip
         IN  Updated(e, map).said \o SaidTo(es \ {e}, map)

(* Reload: the map file is read again, and a file with an error in it      *)
(* leaves the old map in use.                                              *)
Reload ==
    /\ Event /\ server = "up"
    /\ \E f \in Files :
          IF ReadFile(f).bad THEN UNCHANGED <<netRouters, net, authorizedUsers>>
          ELSE /\ netRouters' = ReadFile(f).map
               /\ Wire(SaidTo(authorizedUsers, netRouters'))
               /\ authorizedUsers' = {Updated(e, netRouters').entry : e \in authorizedUsers}
    /\ UNCHANGED <<people, server, pending, users, processor, daemon, scripts, faults>>

(* Stop: everybody is said goodbye to. *)
RECURSIVE Goodbyes(_)
Goodbyes(es) ==
    IF es = {} THEN <<>>
    ELSE LET e == CHOOSE x \in es : \A y \in es : x.ip <= y.ip
         IN  Send(e, TRUE, FALSE) \o Goodbyes(es \ {e})

Stop ==
    /\ Event /\ server = "up"
    /\ Wire(Goodbyes(authorizedUsers))
    /\ server' = "down"
    /\ UNCHANGED <<people, authorizedUsers, netRouters, pending, users, processor, daemon, scripts, faults>>

----------------------------------------------------------------------------
(* The network. *)

Fault == faults < MaxFaults /\ faults' = faults + 1

Without(s, i) == SubSeq(s, 1, i - 1) \o SubSeq(s, i + 1, Len(s))

Lose ==
    /\ Fault
    /\ \E i \in DOMAIN net : net' = Without(net, i)
    /\ UNCHANGED <<people, plugin, pending, users, processor, daemon, scripts, changes>>

Listening == daemon = "up"

(* RecvPacket: a packet goes to the end of the list.  The processing       *)
(* thread goes through the list without the lock: when it is at work, the  *)
(* list may be moved under it.                                             *)
Receive(i) ==
    /\ Listening /\ i \in DOMAIN net /\ Len(pending) < MaxNet
    /\ pending' = Append(pending, net[i])
    /\ daemon' \in IF processor = 0 THEN {daemon} ELSE {daemon, "broken"}

RecvPacket ==
    /\ \/ Receive(1) /\ net' = Tail(net) /\ UNCHANGED faults
       \/ Fault /\ Receive(1) /\ UNCHANGED net                   \* it comes once more
       \/ Fault /\ Receive(2) /\ net' = Without(net, 2)          \* it overtakes
    /\ UNCHANGED <<people, plugin, users, processor, scripts, changes>>

(* Nobody listens: the packets are lost. *)
Unheard ==
    /\ ~Listening /\ net # <<>>
    /\ net' = <<>>
    /\ UNCHANGED <<people, plugin, pending, users, processor, daemon, scripts, changes, faults>>

----------------------------------------------------------------------------
(* The daemon. *)

(* main: without its configuration, or an executer for the scripts, the    *)
(* daemon ends; but nobody looks whether the port could be bound.          *)
StartScriptExecuter == {"started", "failed"}

PrepareNet == {"up", "deaf"}

StartDaemon ==
    /\ daemon = "none" /\ changes = 0      \* before anything happens at the server
    /\ \E x \in StartScriptExecuter, n \in PrepareNet : daemon' = IF x = "failed" THEN "down" ELSE n
    /\ UNCHANGED <<people, plugin, net, pending, users, processor, scripts, changes, faults>>

(* lower_bound over the list of users: a binary search. *)
RECURSIVE LowerBound(_, _, _, _)
LowerBound(us, u, from, len) ==
    IF len = 0 THEN from
    ELSE LET half == len \div 2
         IN  IF us[from + half].user < u
             THEN LowerBound(us, u, from + half + 1, len - half - 1)
             ELSE LowerBound(us, u, from, half)

Place(us, u) == LowerBound(us, u, 1, Len(us))

Served(us, u) == Place(us, u) <= Len(us) /\ us[Place(us, u)].user = u

InsertLast(us, i, x) == Append(us, x)

Insert(us, i, x) == SubSeq(us, 1, i - 1) \o <<x>> \o SubSeq(us, i, Len(us))

(* The scripts; one that is run a second time in a row is noted. *)
OnConnect(l, u) == [l EXCEPT ![u] = IF @ = "connect" THEN "twice" ELSE "connect"]

OnDisconnect(l, u) == [l EXCEPT ![u] = IF @ = "connect" THEN "disconnect" ELSE "twice"]

(* One packet.  A user who is served already gets the new parameters, the  *)
(* address among them, and no script is run.                               *)
Serve(d, p) ==
    LET i == Place(d.users, p.user)
        here == Served(d.users, p.user)
    IN  CASE p.type = "connect" /\ ~here ->
                [users |-> Insert(d.users, i, [user |-> p.user, ip |-> p.ip, age |-> 0]),
                 gate  |-> d.gate \cup {p.ip},
                 last  |-> OnConnect(d.last, p.user)]
          [] p.type = "connect" /\ here ->
                [d EXCEPT !.users[i].age = 0, !.users[i].ip = p.ip]
          [] p.type = "alive" /\ here ->
                [d EXCEPT !.users[i].age = 0]
          [] p.type = "disconnect" /\ here ->
                [users |-> Without(d.users, i),
                 gate  |-> d.gate \ {p.ip},
                 last  |-> OnDisconnect(d.last, p.user)]
          [] p.type # "connect" /\ ~here -> d

RECURSIVE ServeAll(_, _)
ServeAll(d, ps) == IF ps = <<>> THEN d ELSE ServeAll(Serve(d, Head(ps)), Tail(ps))

ProcessPending ==
    /\ daemon = "up" /\ processor = 0 /\ pending # <<>>
    /\ LET d == ServeAll([users |-> users, gate |-> gate, last |-> last], pending)
       IN  users' = d.users /\ gate' = d.gate /\ last' = d.last
    /\ processor' = Len(pending)
    /\ UNCHANGED <<people, plugin, net, pending, daemon, changes, faults>>

(* What was gone through is erased, *)
ErasePending ==
    /\ daemon = "up" /\ processor > 0
    /\ pending' = SubSeq(pending, processor + 1, Len(pending))
    /\ processor' = 0
    /\ UNCHANGED <<people, plugin, net, users, daemon, scripts, changes, faults>>

(* and who was not heard of for too long is disconnected: the list is      *)
(* partitioned, and keeps its order.                                       *)
Fresh(x) == x.age < UserTimeout

Partition(us) == SelectSeq(us, Fresh)

TimedOut ==
    /\ daemon = "up" /\ processor = 0
    /\ LET late == {i \in DOMAIN users : ~Fresh(users[i])}
           whom == {users[i].user : i \in late}
       IN  /\ late # {}
           /\ users' = Partition(users)
           /\ gate' = gate \ {users[i].ip : i \in late}
           /\ last' = [u \in Users |-> IF u \in whom THEN OnDisconnect(last, u)[u] ELSE last[u]]
    /\ UNCHANGED <<people, plugin, net, pending, processor, daemon, changes, faults>>

ProcessTimeoutsOfPending == pending # <<>> /\ TimedOut

ProcessTimeouts == TimedOut

(* LISTENER::Stop: the threads end, and everybody is disconnected. *)
StopDaemon ==
    /\ Event /\ daemon \in {"up", "deaf"}
    /\ daemon = "up" => processor = 0
    /\ daemon' = IF daemon = "up" THEN "down" ELSE "broken"
    /\ gate' = gate \ {users[i].ip : i \in DOMAIN users}
    /\ last' = [u \in Users |-> IF \E i \in DOMAIN users : users[i].user = u
                                THEN OnDisconnect(last, u)[u] ELSE last[u]]
    /\ UNCHANGED <<people, plugin, net, pending, users, processor, faults>>

(* Time passes. *)
Tick ==
    /\ \E i \in DOMAIN users : users[i].age < UserTimeout
    /\ users' = [i \in DOMAIN users |->
                    [users[i] EXCEPT !.age = IF @ < UserTimeout THEN @ + 1 ELSE @]]
    /\ UNCHANGED <<people, plugin, net, pending, processor, daemon, scripts, changes, faults>>

----------------------------------------------------------------------------
Next ==
    \/ \E u \in Users : Authorize(u) \/ Connect(u) \/ Disconnect(u) \/ Unauthorize(u) \/ Change(u)
    \/ \E e \in authorizedUsers : PeriodicSend(e)
    \/ Reload \/ Stop
    \/ Lose \/ RecvPacket \/ Unheard
    \/ StartPlugin \/ StartDaemon \/ ProcessPending \/ ErasePending \/ ProcessTimeouts \/ StopDaemon
    \/ Tick

(* The loops of the daemon go round, and so does its clock. *)
Fairness ==
    /\ WF_vars(\E u \in Users : Connect(u) \/ Disconnect(u))
    /\ WF_vars(RecvPacket) /\ WF_vars(Unheard)
    /\ WF_vars(ProcessPending \/ ErasePending) /\ WF_vars(ProcessTimeouts)
    /\ WF_vars(Tick)

Spec == Init /\ [][Next]_vars /\ Fairness

----------------------------------------------------------------------------
(* The daemon finds its users by a binary search, so the list has to stay  *)
(* in order through every insertion, removal and timeout: only then does   *)
(* it run OnConnect for a user it does not serve, and OnDisconnect for one *)
(* it does.  And as long as no packet was lost, doubled or overtaken, the  *)
(* scripts let pass exactly the addresses of the users on the list.        *)
ScriptsAlternate ==
    /\ \A u \in Users : last[u] # "twice"
    /\ daemon = "down" => gate = {} \/ faults > 0
    /\ (faults = 0 /\ daemon = "up") => gate = {users[i].ip : i \in DOMAIN users}

(* The plugin speaks for those who are there: an entry is that of a user   *)
(* who has its address now, so a router never hears of a user who left,    *)
(* although the user has no address any more when the plugin is told.      *)
EntriesAreCurrent ==
    server = "up" => \A e \in authorizedUsers : currIP[e.user] = e.ip

Off(u) == currIP[u] = 0 \/ server # "up"

Passes(u) == \E i \in DOMAIN users : users[i].user = u

(* Whatever the network loses, a user who stays away is off the router in  *)
(* the end; the timeout sees to it when the goodbye was lost.              *)
OffInTheEnd ==
    \A u \in Users : <>[](Off(u)) => <>[](daemon = "up" => ~Passes(u))
=============================================================================
