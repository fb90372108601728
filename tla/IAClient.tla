------------------------------- MODULE IAClient -------------------------------
(***************************************************************************)
(* The client side of the InetAccess protocol (libs/ia/ia.cpp) and the     *)
(* system of clients, network and server.  A client has a login, an        *)
(* address and the directions its user selected.  Its phases: 1 offline,   *)
(* 2 connecting, 3 online, 4 and 5 disconnecting.  It answers whatever     *)
(* the server sends, in every phase.                                       *)
(***************************************************************************)
EXTENDS InetAccess

CONSTANTS
    Clients,            \* records [user, ip, dirs]
    Reconnect           \* the setting of sgauth.conf

VARIABLES client        \* [Clients -> state]

vars == <<server, registry, settings, requests, replies, client>>

Started(c) ==
    [on |-> TRUE, phase |-> 1, expired |-> FALSE, action |-> "connect",
     first |-> TRUE, key |-> password[c.user]]

Off == [on |-> FALSE, phase |-> 1, expired |-> FALSE, action |-> "none",
        first |-> TRUE, key |-> NoKey]

Set(c, s) == client' = [client EXCEPT ![c] = s]

Enter(s, n) == [s EXCEPT !.phase = n, !.expired = FALSE]

NetSend(c, type, rnd) ==
    requests' \in With(requests, [type |-> type, user |-> c.user, ip |-> c.ip,
                                  key |-> client[c].key, rnd |-> rnd, dirs |-> c.dirs])

\* sgauth starts and asks for a connection; it ends, or its host fails.
Start(c) ==
    /\ ~client[c].on
    /\ Set(c, Started(c))
    /\ UNCHANGED <<server, registry, settings, requests, replies>>

End(c) ==
    /\ client[c].on
    /\ Set(c, Off)
    /\ UNCHANGED <<server, registry, settings, requests, replies>>

Connect(c) ==
    /\ client[c].on
    /\ Set(c, [client[c] EXCEPT !.action = "connect"])
    /\ UNCHANGED <<server, registry, settings, requests, replies>>

Disconnect(c) ==
    /\ client[c].on
    /\ Set(c, [client[c] EXCEPT !.action = "disconnect", !.first = TRUE])
    /\ UNCHANGED <<server, registry, settings, requests, replies>>

\* The client waited m_userTimeout in phase 3, m_aliveTimeout in another.
ClientTimePasses(c) ==
    /\ client[c].on /\ client[c].phase # 1 /\ ~client[c].expired
    /\ client' = [client EXCEPT ![c].expired = TRUE]
    /\ UNCHANGED <<server, registry, settings, requests, replies>>

\* What a timeout makes of the state; a connection that was lost is noted.
TimedOut(s) ==
    IF s.expired THEN [Enter(s, 1) EXCEPT !.first = s.phase # 3 /\ @] ELSE s

\* The action that is left for the next pass of the loop in phase 1.
Again(s) == IF Reconnect /\ ~s.first THEN "connect" ELSE "none"

\* One pass of the client's loop, after the packet that may have come.
Run(c) ==
    LET s == client[c]
        t == TimedOut(s)
    IN  /\ s.on
        /\ \/ /\ s.phase = 1 /\ s.action = "connect"
              /\ NetSend(c, "CONN_SYN", NoRnd)
              /\ Set(c, [Enter(s, 2) EXCEPT !.action = Again(s)])
           \/ /\ s.phase = 1 /\ s.action # "connect" /\ Again(s) = "connect"
              /\ Set(c, [s EXCEPT !.action = Again(s)])
              /\ UNCHANGED requests
           \/ /\ s.phase \in {2, 3} /\ s.action = "disconnect"
              /\ NetSend(c, "DISCONN_SYN", NoRnd)
              /\ Set(c, [Enter(t, 4) EXCEPT !.action = "none"])
           \/ /\ s.phase \in {4, 5} /\ s.action = "connect"
              /\ NetSend(c, "CONN_SYN", NoRnd)
              /\ Set(c, [Enter(t, 2) EXCEPT !.action = "none"])
           \/ /\ s.phase \in {2, 3} /\ s.action # "disconnect" /\ s.expired
              /\ Set(c, t) /\ UNCHANGED requests
           \/ /\ s.phase \in {4, 5} /\ s.action # "connect" /\ s.expired
              /\ Set(c, t) /\ UNCHANGED requests
        /\ UNCHANGED <<server, registry, settings, replies>>

\* NetRecv, and what is made of each kind of packet.
NetRecv(c, p) ==
    LET s == client[c]
    IN  /\ s.on /\ p \in replies /\ p.ip = c.ip
        /\ replies' \in Take(replies, p)
        /\ \/ /\ p.type = "ERR"
              /\ Set(c, Enter(s, 1)) /\ UNCHANGED requests
           \/ /\ p.type # "ERR" /\ p.key # s.key
              /\ UNCHANGED <<client, requests>>
           \/ /\ p.type = "CONN_SYN_ACK" /\ p.key = s.key
              /\ NetSend(c, "CONN_ACK", p.rnd) /\ Set(c, Enter(s, 3))
           \/ /\ p.type = "ALIVE_SYN" /\ p.key = s.key
              /\ NetSend(c, "ALIVE_ACK", p.rnd) /\ Set(c, Enter(s, s.phase))
           \/ /\ p.type = "DISCONN_SYN_ACK" /\ p.key = s.key
              /\ NetSend(c, "DISCONN_ACK", p.rnd) /\ Set(c, Enter(s, 5))
           \/ /\ p.type = "FIN" /\ p.key = s.key
              /\ Set(c, Enter(s, 1)) /\ UNCHANGED requests
        /\ UNCHANGED <<server, registry, settings>>

-----------------------------------------------------------------------------
Init == ServerInit /\ client = [c \in Clients |-> Off]

Server ==
    \/ \E q \in requests : RecvData(q)
    \/ \E a \in Addrs : TimePasses(a) \/ Send_ALIVE_SYN(a) \/ Timeouter(a)

ServerNext == Server /\ UNCHANGED client

\* The protocol alone: clients come, stay and go, packets are lost.
Next ==
    \/ ServerNext
    \/ Lose /\ UNCHANGED client
    \/ \E c \in Clients :
         \/ Start(c) \/ End(c) \/ Connect(c) \/ Disconnect(c)
         \/ ClientTimePasses(c) \/ Run(c)
         \/ \E p \in replies : NetRecv(c, p)

\* And what the rest of the server does to users and to the plugin.  Once
\* the plugin is stopped nothing of it matters any more.
Administration ==
    /\ running /\ UNCHANGED client
    /\ \/ Stop
       \/ \E c \in Clients : DelUser(c.user) \/ SetPassword(c.user) \/ SetBlocked(c.user)
       \/ \E u \in Users \ {c.user : c \in Clients} : OtherAuthorizer(u)

Spec      == Init /\ [][Next]_vars
AdminSpec == Init /\ [][Next \/ Administration]_vars

(***************************************************************************)
(* Fairness.  The server's threads and the client's loop run again and     *)
(* again, and time passes.  The network carries the packets of a           *)
(* connection: one of a kind that is sent again and again arrives at last  *)
(* while it still is of use, a request while no other one is being dealt   *)
(* with, a challenge and its answer before the server gives up on them.    *)
(***************************************************************************)
Challenged(ip, rnd) ==
    ip \in DOMAIN ip2user /\ ip2user[ip].phase = 2 /\ rnd \in {ip2user[ip].rnd, NoRnd}

Arrives(c, t) ==
    \E q \in requests : /\ q.type = t /\ q.user = c.user /\ q.ip = c.ip
                        /\ Challenged(q.ip, q.rnd) <=> t = "CONN_ACK"
                        /\ RecvData(q) /\ UNCHANGED client

Reaches(c) == \E p \in replies : /\ p.type = "CONN_SYN_ACK" /\ Challenged(p.ip, p.rnd)
                                 /\ NetRecv(c, p)

ServerFairness ==
    \A a \in Addrs : /\ WF_vars(TimePasses(a) /\ UNCHANGED client)
                     /\ WF_vars(Timeouter(a) /\ UNCHANGED client)

ClientFairness ==
    \A c \in Clients : /\ WF_vars(ClientTimePasses(c)) /\ WF_vars(Run(c))
                       /\ SF_vars(Arrives(c, "CONN_SYN")) /\ SF_vars(Arrives(c, "CONN_ACK"))
                       /\ SF_vars(Reaches(c))

FairSpec == Spec /\ ServerFairness /\ ClientFairness

\* What the clients and their addresses are taken to be.
Proper == /\ NoAddr \notin Addrs
          /\ \A c \in Clients : c.user \in Users /\ c.ip \in Addrs
          /\ \A u \in Users : UserAddrs[u] \subseteq Addrs

-----------------------------------------------------------------------------
\* A connected session is real: in phases 3 and 4 its user is authorised, at
\* this address.  So no packet, however late, and no change of password or
\* removal leaves a session that lives on after its user was withdrawn or
\* went elsewhere (inetaccess.cpp:719-927).
SessionIsAuthorized ==
    running => \A a \in DOMAIN ip2user :
                 ip2user[a].phase \in {3, 4} => currIP[ip2user[a].user] = a

Silent(c) == ~client[c].on /\ \A q \in requests : q.ip # c.ip

\* A session whose client is gone does not stay: it is never left for ever in
\* phase 2, 3 or 4 (Timeouter, inetaccess.cpp:635-717).
SessionsEnd ==
    \A c \in Clients :
      <>[]Silent(c) =>
        <>[](c.ip \in DOMAIN ip2user => ip2user[c.ip].phase = 1)

Connected(c) ==
    /\ c.ip \in DOMAIN ip2user
    /\ ip2user[c.ip].user = c.user /\ ip2user[c.ip].phase = 3

\* A client that lost its connection gets it back, if it is to reconnect and
\* the network carries its packets (sgauth.conf:41-42; ia.cpp:440-541).  The
\* client itself may go on believing that it is connecting: it answers the
\* server's ALIVE_SYN in phase 2, and each answer puts its timeout off.
Reconnects ==
    \A c \in Clients :
      <>[](client[c].on /\ ~client[c].first) => []<>Connected(c)
=============================================================================
