------------------------------ MODULE InetAccess ------------------------------
(***************************************************************************)
(* The authorisation server of the InetAccess protocol                     *)
(* (plugins/authorization/inetaccess/inetaccess.cpp).  A thread receives   *)
(* datagrams, another looks for sessions whose time is over; both hold     *)
(* m_mutex for a whole step.  A session is an entry of ip2user and goes    *)
(* through phases: 1 nothing agreed, 2 connection requested and            *)
(* challenged, 3 connected, 4 disconnection requested and challenged.      *)
(*                                                                         *)
(* Datagrams are lost, delayed, reordered and duplicated.  Packets are     *)
(* encrypted under the user's password: one that was encrypted under       *)
(* another is not understood.  The control numbers are random() in the     *)
(* code; here they are different from all that are in use.  Protocol       *)
(* versions 6 and 7 differ from 8 in layout and port only.                 *)
(*                                                                         *)
(* The registry of users is seen through its interface: Authorize and      *)
(* Unauthorize on behalf of this authoriser.                               *)
(***************************************************************************)
EXTENDS Naturals, FiniteSets

CONSTANTS
    Users, Addrs, NoAddr,
    UserAddrs,          \* [Users -> SUBSET Addrs]: the addresses a user may use
    Dirs,               \* sets of directions a client may ask for
    Passwords, NoKey,
    Rnds, NoRnd,        \* control numbers
    MayDuplicate,       \* datagrams may be delivered twice
    MayRefuse,          \* the registry may refuse because of other authorisers
    MaxPackets          \* bound on the datagrams on their way to one side

VARIABLES
    ip2user,            \* partial function: address -> session
    enabledDirs,        \* one for the whole plugin
    currIP,             \* [Users -> Addrs or NoAddr]: authorised at
    granted,            \* [Users -> Dirs]: with these directions
    password,
    blocked,            \* users that are disabled or passive
    exists,
    running,            \* the plugin has not been stopped
    requests, replies   \* datagrams on their way

registry == <<currIP, granted>>
settings == <<password, blocked, exists>>
server   == <<ip2user, enabledDirs, running>>

Put(f, a, x) == [b \in DOMAIN f \cup {a} |-> IF b = a THEN x ELSE f[b]]
Erase(f, a)  == [b \in DOMAIN f \ {a} |-> f[b]]

\* A control number that is not in use.  They are only ever compared, so it
\* makes no difference which one it is.
FreshRnds ==
    LET free == Rnds \ ({p.rnd : p \in requests \cup replies}
                          \cup {ip2user[a].rnd : a \in DOMAIN ip2user})
    IN  {r \in free : \A s \in free : r <= s}

\* A datagram is sent; where the network is full, another one is lost.
With(net, p) ==
    IF Cardinality(net \cup {p}) <= MaxPackets THEN {net \cup {p}}
                                              ELSE {(net \ {x}) \cup {p} : x \in net}

Send(type, ip, key, rnd) ==
    replies' \in With(replies, [type |-> type, ip |-> ip, key |-> key, rnd |-> rnd])

\* Errors are sent in the clear.
SendError(ip) == Send("ERR", ip, NoKey, NoRnd)

\* A datagram leaves the network when it is delivered, or stays for a copy.
Take(net, p) == IF MayDuplicate THEN {net, net \ {p}} ELSE {net \ {p}}

-----------------------------------------------------------------------------
HolderOf(ip) == {u \in Users : currIP[u] = ip}

\* UsersImpl::Authorize refuses an address of another user and a second one.
Authorizes(u, ip) == HolderOf(ip) \subseteq {u} /\ currIP[u] \in {NoAddr, ip}

Authorize(u, ip) ==
    /\ Authorizes(u, ip)
    /\ currIP' = [currIP EXCEPT ![u] = ip]
    /\ granted' = [granted EXCEPT ![u] = enabledDirs]

Unauthorize(u) ==
    /\ currIP' = [currIP EXCEPT ![u] = NoAddr]
    /\ UNCHANGED granted

\* RecvData, before the packet is looked at.
Refused(q) ==
    \/ q.user \notin exists \/ q.user \in blocked
    \/ q.ip \notin UserAddrs[q.user]

\* The address belongs to another session, or to another user without one.
Occupied(q) ==
    IF q.ip \in DOMAIN ip2user THEN ip2user[q.ip].user # q.user
                               ELSE ~(HolderOf(q.ip) \subseteq {q.user})

\* The packet does not decrypt, or the login is in use elsewhere.
Rejected(q) == q.key # password[q.user] \/ currIP[q.user] \notin {NoAddr, q.ip}

\* The session the packet belongs to; its key follows the user's password.
Session(q) ==
    IF q.ip \in DOMAIN ip2user
      THEN [ip2user[q.ip] EXCEPT !.key = password[q.user]]
      ELSE [user |-> q.user, phase |-> 1, expired |-> FALSE, rnd |-> NoRnd,
            key |-> password[q.user]]

Store(ip, s) == ip2user' = Put(ip2user, ip, s)

InPhase(s, n) == [s EXCEPT !.phase = n, !.expired = FALSE]

CONN_SYN(q, s) ==
    /\ enabledDirs' = q.dirs
    /\ \/ /\ s.phase \in {1, 3}
          /\ \E r \in FreshRnds :
               /\ Store(q.ip, [InPhase(s, 2) EXCEPT !.rnd = r])
               /\ Send("CONN_SYN_ACK", q.ip, s.key, r)
       \/ /\ s.phase \notin {1, 3}
          /\ Store(q.ip, s) /\ UNCHANGED replies
    /\ UNCHANGED registry

\* Mutant: the session is confirmed whatever the registry says.
CONN_ACK_Unchecked(q, s) ==
    /\ IF s.phase = 2 /\ q.rnd = s.rnd
         THEN \E r \in FreshRnds :
                /\ Store(q.ip, [InPhase(s, 3) EXCEPT !.rnd = r])
                /\ Send("ALIVE_SYN", q.ip, s.key, r)
                /\ Authorize(q.user, q.ip) \/ UNCHANGED registry
         ELSE Store(q.ip, s) /\ UNCHANGED <<replies, registry>>
    /\ UNCHANGED enabledDirs

CONN_ACK(q, s) ==
    /\ \/ /\ s.phase = 2 /\ q.rnd = s.rnd
          /\ Authorize(q.user, q.ip)
          /\ \E r \in FreshRnds :
               /\ Store(q.ip, [InPhase(s, 3) EXCEPT !.rnd = r])
               /\ Send("ALIVE_SYN", q.ip, s.key, r)
       \/ /\ s.phase = 2 /\ q.rnd = s.rnd
          /\ MayRefuse \/ ~Authorizes(q.user, q.ip)
          /\ ip2user' = Erase(ip2user, q.ip)
          /\ UNCHANGED <<replies, registry>>
       \/ /\ ~(s.phase = 2 /\ q.rnd = s.rnd)
          /\ Store(q.ip, s) /\ UNCHANGED <<replies, registry>>
    /\ UNCHANGED enabledDirs

ALIVE_ACK(q, s) ==
    /\ Store(q.ip, IF s.phase = 3 /\ q.rnd = s.rnd THEN InPhase(s, 3) ELSE s)
    /\ UNCHANGED <<enabledDirs, replies, registry>>

DISCONN_SYN(q, s) ==
    /\ \/ /\ s.phase = 3
          /\ \E r \in FreshRnds :
               /\ Store(q.ip, [InPhase(s, 4) EXCEPT !.rnd = r])
               /\ Send("DISCONN_SYN_ACK", q.ip, s.key, r)
       \/ /\ s.phase # 3
          /\ Store(q.ip, s) /\ UNCHANGED replies
    /\ UNCHANGED <<enabledDirs, registry>>

DISCONN_ACK(q, s) ==
    /\ IF s.phase = 4 /\ q.rnd = s.rnd
         THEN /\ Send("FIN", q.ip, s.key, NoRnd)
              /\ Unauthorize(q.user)
              /\ ip2user' = Erase(ip2user, q.ip)
         ELSE Store(q.ip, s) /\ UNCHANGED <<replies, registry>>
    /\ UNCHANGED enabledDirs

PacketProcessor(q) ==
    \/ /\ Occupied(q)
       /\ SendError(q.ip)
       /\ UNCHANGED <<ip2user, enabledDirs, registry>>
    \/ /\ ~Occupied(q) /\ Rejected(q)
       /\ SendError(q.ip)
       /\ ip2user' = Erase(ip2user, q.ip)
       /\ UNCHANGED <<enabledDirs, registry>>
    \/ /\ ~Occupied(q) /\ ~Rejected(q)
       /\ \/ q.type = "CONN_SYN"    /\ CONN_SYN(q, Session(q))
          \/ q.type = "CONN_ACK"    /\ CONN_ACK(q, Session(q))
          \/ q.type = "ALIVE_ACK"   /\ ALIVE_ACK(q, Session(q))
          \/ q.type = "DISCONN_SYN" /\ DISCONN_SYN(q, Session(q))
          \/ q.type = "DISCONN_ACK" /\ DISCONN_ACK(q, Session(q))

RecvData(q) ==
    /\ running /\ q \in requests
    /\ requests' \in Take(requests, q)
    /\ \/ /\ Refused(q)
          /\ SendError(q.ip) /\ UNCHANGED <<ip2user, enabledDirs, registry>>
       \/ ~Refused(q) /\ PacketProcessor(q)
    /\ UNCHANGED <<settings, running>>

-----------------------------------------------------------------------------
(***************************************************************************)
(* The timeouter.  "expired" says that the time allowed in the present     *)
(* phase is over: UserTimeout in phase 3, UserDelay in 2 and 4.  A session *)
(* in phase 1 has no limit.                                                *)
(***************************************************************************)
TimePasses(ip) ==
    /\ running /\ ip \in DOMAIN ip2user
    /\ ip2user[ip].phase # 1 /\ ~ip2user[ip].expired
    /\ ip2user' = [ip2user EXCEPT ![ip].expired = TRUE]
    /\ UNCHANGED <<enabledDirs, running, registry, settings, requests, replies>>

\* An ALIVE_SYN is sent every UserDelay seconds.
Send_ALIVE_SYN(ip) ==
    /\ running /\ ip \in DOMAIN ip2user
    /\ ip2user[ip].phase = 3 /\ ~ip2user[ip].expired
    /\ \E r \in FreshRnds :
         /\ ip2user' = [ip2user EXCEPT ![ip].rnd = r]
         /\ Send("ALIVE_SYN", ip, ip2user[ip].key, r)
    /\ UNCHANGED <<enabledDirs, running, registry, settings, requests>>

\* Mutant: a session that is over is dropped, its user left authorised.
TimeouterDrops(ip) ==
    /\ running /\ ip \in DOMAIN ip2user /\ ip2user[ip].expired
    /\ \/ /\ ip2user[ip].phase \in {2, 4}
          /\ ip2user' = Erase(ip2user, ip)
          /\ UNCHANGED <<registry, replies>>
       \/ /\ ip2user[ip].phase = 3
          /\ UNCHANGED <<ip2user, registry, replies>>
    /\ UNCHANGED <<enabledDirs, running, settings, requests>>

Timeouter(ip) ==
    /\ running /\ ip \in DOMAIN ip2user /\ ip2user[ip].expired
    /\ \/ /\ ip2user[ip].phase = 2
          /\ ip2user' = Erase(ip2user, ip)
          /\ UNCHANGED <<registry, replies>>
       \/ /\ ip2user[ip].phase = 3
          /\ ip2user' = Erase(ip2user, ip)
          /\ Unauthorize(ip2user[ip].user)
          /\ \/ UNCHANGED replies
             \/ \E r \in FreshRnds : Send("ALIVE_SYN", ip, ip2user[ip].key, r)
       \/ /\ ip2user[ip].phase = 4
          /\ ip2user' = [ip2user EXCEPT ![ip] = InPhase(@, 3)]
          /\ UNCHANGED <<registry, replies>>
    /\ UNCHANGED <<enabledDirs, running, settings, requests>>

-----------------------------------------------------------------------------
\* A user is removed from the registry.
DelUser(u) ==
    /\ u \in exists
    /\ exists' = exists \ {u}
    /\ LET ip == currIP[u]
       IN  IF running /\ ip \in DOMAIN ip2user /\ ip2user[ip].user = u
             THEN Unauthorize(u) /\ ip2user' = Erase(ip2user, ip)
             ELSE UNCHANGED <<registry, ip2user>>
    /\ UNCHANGED <<enabledDirs, running, password, blocked, requests, replies>>

\* The plugin is stopped: every session's user is withdrawn, also one whose
\* session is still being negotiated.
Stop ==
    /\ running /\ running' = FALSE
    /\ currIP' = [u \in Users |->
         IF \E a \in DOMAIN ip2user : ip2user[a].user = u THEN NoAddr ELSE currIP[u]]
    /\ UNCHANGED <<ip2user, enabledDirs, granted, settings, requests, replies>>

\* Administrators change passwords, block and unblock users.
SetPassword(u) ==
    /\ \E p \in Passwords \ {password[u]} : password' = [password EXCEPT ![u] = p]
    /\ UNCHANGED <<server, registry, blocked, exists, requests, replies>>

SetBlocked(u) ==
    /\ blocked' = IF u \in blocked THEN blocked \ {u} ELSE blocked \cup {u}
    /\ UNCHANGED <<server, registry, password, exists, requests, replies>>

\* Another authoriser of the server takes an address for a user of its own,
\* or lets it go.
OtherAuthorizer(u) ==
    /\ \/ \E ip \in UserAddrs[u] : /\ currIP[u] = NoAddr /\ HolderOf(ip) = {}
                                   /\ currIP' = [currIP EXCEPT ![u] = ip]
       \/ currIP[u] # NoAddr /\ currIP' = [currIP EXCEPT ![u] = NoAddr]
    /\ UNCHANGED <<server, granted, settings, requests, replies>>

Lose ==
    /\ \/ \E q \in requests : requests' = requests \ {q} /\ UNCHANGED replies
       \/ \E p \in replies  : replies' = replies \ {p} /\ UNCHANGED requests
    /\ UNCHANGED <<server, registry, settings>>

ServerInit ==
    /\ ip2user = [a \in {} |-> NoAddr]
    /\ enabledDirs = CHOOSE d \in Dirs : TRUE
    /\ currIP = [u \in Users |-> NoAddr]
    /\ granted = [u \in Users |-> CHOOSE d \in Dirs : TRUE]
    /\ password = [u \in Users |-> CHOOSE p \in Passwords : TRUE]
    /\ blocked = {} /\ exists = Users /\ running = TRUE
    /\ requests = {} /\ replies = {}
=============================================================================
